------------------------------ MODULE Compiler ------------------------------
(***************************************************************************)
(* The script compiler from the parsed script to its code, as main of          *)
(* examples/script.cpp drives it: the visitor goes through the statements,     *)
(* then the calls of functions that were not known yet are patched, then the   *)
(* code is finished.  An exception ends it at once.                          *)
(***************************************************************************)
EXTENDS ScriptFlow

CONSTANT Scripts            \* the scripts that may be given to it, as derivations

VARIABLES
    script,                 \* the script
    ast,                    \* its syntax tree
    gen,                    \* the code generator
    phase,                  \* "visit", "patch", "done"
    next                    \* the statement to be visited or the call to be patched next

vars == <<script, ast, gen, phase, next>>

CompilerInit ==
    /\ script \in Scripts
    /\ ast = Tree(script)
    /\ gen = Generator
    /\ phase = "visit" /\ next = 1

\* One turn of the loop over the list of statements.
Statement ==
    /\ phase = "visit" /\ gen.error = None
    /\ next <= Len(ast.kids)
    /\ gen' = Visit(gen, ast.kids[next])
    /\ next' = next + 1
    /\ UNCHANGED <<script, ast, phase>>

Visited ==
    /\ phase = "visit" /\ gen.error = None
    /\ next > Len(ast.kids)
    /\ phase' = "patch" /\ next' = 1
    /\ UNCHANGED <<script, ast, gen>>

\* One turn of the loop of PatchFunctionAddresses.
PatchNext ==
    /\ phase = "patch" /\ gen.error = None
    /\ next <= Len(gen.m_func_comefroms)
    /\ gen' = PatchCall(gen, gen.m_func_comefroms[next])
    /\ next' = next + 1
    /\ UNCHANGED <<script, ast, phase>>

Finish ==
    /\ phase = "patch" /\ gen.error = None
    /\ next > Len(gen.m_func_comefroms)
    /\ gen' = FinishCodegen(gen)
    /\ phase' = "done"
    /\ UNCHANGED <<script, ast, next>>

\* The code is there, or an exception has been thrown.
Stopped ==
    /\ phase = "done" \/ gen.error # None
    /\ UNCHANGED vars

CompilerNext == Statement \/ Visited \/ PatchNext \/ Finish \/ Stopped

CompilerSpec == CompilerInit /\ [][CompilerNext]_vars

-----------------------------------------------------------------------------
(* Properties *)

\* A script is rejected if and only if it is not well-formed: a function in a
\* function, a jump out of no loop or function, a call of what is nowhere defined
\* or defined with another number of parameters, an operator without opcode.  What
\* is decided by lists and tables that are filled and emptied along the visits
\* (m_cur_loop, m_cur_func, m_symtab, m_func_comefroms) agrees with the tree.
ErrorsExact ==
    /\ phase = "done" => WellFormed(ast)
    /\ gen.error # None => ~ WellFormed(ast)

\* The code executes the statements in the orders the script says, whichever
\* way its conditions turn out: skipped blocks, else blocks, loops, break and
\* continue out of several loops, returns from anywhere in a function, and calls
\* of functions defined before, later, and again.  No jump goes astray.
FlowPreserved == phase = "done" => CodeFlow(gen.m_ostr) = TreeFlow(ast).edges

\* The bytes of a variable, as offsets from the base pointer of its scope.
Slot(sym) == sym.addr .. sym.addr + VariableSize(sym.ty) - 1

\* Two variables of one scope never share a byte, and those of a function lie
\* below the base pointer, where the registers of its caller are saved.
VariablesApart ==
    \A v, w \in DOMAIN gen.m_symtab :
        LET sv == gen.m_symtab[v]
            sw == gen.m_symtab[w]
        IN  /\ v # w /\ v[1] = w[1] /\ sv.loc = sw.loc /\ sv.loc \in {"ADDR_BP", "ADDR_GBP"}
                   => Slot(sv) \cap Slot(sw) = {}
            /\ sv.loc = "ADDR_BP" => \A b \in Slot(sv) : b < 0

\* Compiling a statement does not touch the code of those before it; patching a
\* call touches its address only.
EarlierCodeKept ==
    [][ /\ phase = "visit" => IsPrefix(gen.m_ostr, gen'.m_ostr)
        /\ phase = "patch" =>
               \A n \in DOMAIN gen.m_ostr :
                   gen.m_ostr[n] # gen'.m_ostr[n] =>
                       next <= Len(gen.m_func_comefroms) /\ n = gen.m_func_comefroms[next].pos ]_vars
=============================================================================
