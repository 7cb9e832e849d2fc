------------------------------ MODULE CodeGen ------------------------------
(***************************************************************************)
(* The code generator, codegen/ast_asm.cpp, writing binary code: a visitor   *)
(* that emits objects to a stream and keeps a symbol table, the surrounding  *)
(* loops, and the places where an address is still missing.  A visit takes    *)
(* the generator g to the generator after it; once g.error is set, i.e. an     *)
(* exception has left the visitor, nothing changes any more.                *)
(*                                                                         *)
(* Positions in the stream are byte addresses of the code.  A place to be    *)
(* patched is kept as the number of the object that has the address.        *)
(* The other form of the output, assembly text, and m_always_call_ext, which *)
(* no program sets, are left out.                                          *)
(***************************************************************************)
EXTENDS Script, Objects, FiniteSets

\* Bytes of the first n objects.
StreamPos(objects, n) ==
    LET pos[k \in 0 .. n] == IF k = 0 THEN 0 ELSE pos[k - 1] + SizeOf(objects[k])
    IN  pos[n]

tellp(g) == StreamPos(g.m_ostr, Len(g.m_ostr))

Opcode1(name) == <<[ty |-> "OP", val |-> name]>>
PushOf(ty, val) == Opcode1("PUSH") \o <<[ty |-> ty, val |-> val]>>

Emit(g, objects) == [g EXCEPT !.m_ostr = @ \o objects]

\* PUSH of a missing address and the jump; the address is the object before last.
EmitJump(g, jump) == Emit(g, PushOf("ADDR_IP", 0) \o Opcode1(jump))
AddressIn(g) == Len(g.m_ostr) - 1

\* The bytes from behind the jump with object n as its address to pos.
ToSkip(g, n, pos) == pos - (StreamPos(g.m_ostr, n) + m_bytesize)

\* seekp and write of the missing address.
Patch(g, n, pos) == [g EXCEPT !.m_ostr[n].val = ToSkip(g, n, pos)]

\* The same for several places.
RECURSIVE PatchAll(_, _, _)
PatchAll(g, places, pos) ==
    IF places = {} THEN g
    ELSE LET n == CHOOSE n \in places : TRUE
         IN  PatchAll(Patch(g, n, pos), places \ {n}, pos)

throw_err(g, err) == [g EXCEPT !.error = err]

None == "none"

\* A new ASTAsm.
Generator ==
    [m_ostr |-> <<>>, m_symtab |-> << >>, m_glob_stack |-> 0, m_local_stack |-> << >>,
     m_cur_func |-> "", m_cur_loop |-> <<>>, m_func_comefroms |-> <<>>,
     m_endfunc_comefroms |-> {}, m_loop_begin_comefroms |-> {}, m_loop_end_comefroms |-> {},
     m_glob_label |-> 0, m_ext_funcs |-> {}, error |-> None]

-----------------------------------------------------------------------------
(* The symbol table: a symbol is registered with the function it is local    *)
(* to, or with "".                                                          *)

HasSymbol(g, name) == name \in DOMAIN g.m_symtab

\* insert_or_assign
AddSymbol(g, name, addr, loc, ty, is_func, num_args) ==
    [g EXCEPT !.m_symtab = (name :> [addr |-> addr, loc |-> loc, ty |-> ty,
                                     is_func |-> is_func, num_args |-> num_args]) @@ @]

\* get_vm_type_size with the descriptor, for a symbol of the given type: the
\* longest size is that of a string.
VariableSize(ty) == IF ty \in {"INT", "REAL"} THEN m_bytesize + m_intsize ELSE m_bytesize + 64

\* (mutant) the first local variable gets offset 0
RegisterAtBase(g, name, ty) ==
    IF g.m_cur_func = ""
    THEN [AddSymbol(g, name, - g.m_glob_stack, "ADDR_GBP", ty, FALSE, 0)
             EXCEPT !.m_glob_stack = @ + VariableSize(ty)]
    ELSE LET used == IF g.m_cur_func \in DOMAIN g.m_local_stack
                     THEN g.m_local_stack[g.m_cur_func] ELSE 0
         IN  [AddSymbol(g, name, - used, "ADDR_BP", ty, FALSE, 0)
                 EXCEPT !.m_local_stack = (g.m_cur_func :> used + VariableSize(ty)) @@ @]

\* A variable that has not been seen: a global one starts at the stack offset
\* reached, a local one below it.
Register(g, name, ty) ==
    IF g.m_cur_func = ""
    THEN [AddSymbol(g, name, - g.m_glob_stack, "ADDR_GBP", ty, FALSE, 0)
             EXCEPT !.m_glob_stack = @ + VariableSize(ty)]
    ELSE LET used == VariableSize(ty) +
                     IF g.m_cur_func \in DOMAIN g.m_local_stack
                     THEN g.m_local_stack[g.m_cur_func] ELSE 0
         IN  [AddSymbol(g, name, - used, "ADDR_BP", ty, FALSE, 0)
                 EXCEPT !.m_local_stack = (g.m_cur_func :> used) @@ @]

-----------------------------------------------------------------------------
(* Visits of the nodes without control flow. *)

VisitIdent(g0, ast) ==
    LET name == <<g0.m_cur_func, ast.attr.val>>
        g    == IF HasSymbol(g0, name) THEN g0 ELSE Register(g0, name, ast.ty)
        sym  == g.m_symtab[name]
    IN  Emit(g, PushOf(sym.loc, sym.addr)
                \o IF ast.attr.islval \/ sym.is_func THEN <<>> ELSE Opcode1("RDMEM"))

VisitToken(g, ast) ==
    IF ast.attr.isident THEN VisitIdent(g, ast)
    ELSE Emit(g, PushOf(ast.ty, ast.attr.val))

\* The opcode of an operator; m_ops->at throws for one that has none.
EmitOperator(g, opid, op) ==
    IF opid \in DOMAIN Opcodes THEN Emit(g, Opcode1(op)) ELSE throw_err(g, "operator")

UnaryOpcode(opid) ==
    CASE opid = "+" -> "NOP" [] opid = "-" -> "USUB" [] OTHER -> Opcodes[opid]

CastOpcode == [STR |-> "TOS", INT |-> "TOI", REAL |-> "TOF"]

\* The cast behind an operand whose type is not that of the operation.
Cast(g, ast, child) ==
    IF g.error = None /\ child.ty # ast.ty /\ ast.attr # "=" /\ ast.ty \in DOMAIN CastOpcode
    THEN Emit(g, Opcode1(CastOpcode[ast.ty])) ELSE g

VisitDeclare(g, ast) ==
    IF ast.attr.func /\ ast.attr.external
    THEN [g EXCEPT !.m_ext_funcs = @ \cup Idents(ast)] ELSE g

\* Behind the arguments: an external function by its name, another one by its
\* distance, which is patched later if the function is not known yet.
EmitCall(g, ast) ==
    LET name     == ast.attr
        num_args == NumArgs(ast.kids[1])
        known    == HasSymbol(g, <<"", name>>)
        sym      == g.m_symtab[<<"", name>>]
        h        == EmitJump(g, "CALL")
        call     == [name |-> name, pos |-> AddressIn(h), num_args |-> num_args]
    IN  IF name \in g.m_ext_funcs
        THEN Emit(g, PushOf("STR", name) \o Opcode1("EXTCALL"))
        ELSE IF ~ known
        THEN [Patch(h, call.pos, 0) EXCEPT !.m_func_comefroms = Append(@, call)]
        ELSE IF num_args # sym.num_args THEN throw_err(g, "arguments")
        ELSE Patch(h, call.pos, sym.addr)

\* (mutant) the loop of the depth given counts from the outermost one
LoopOutermostFirst(g, depth) ==
    LET n == Len(g.m_cur_loop)
    IN  IF depth >= n \/ depth < 0 THEN g.m_cur_loop[1] ELSE g.m_cur_loop[depth + 1]

\* The loop that many levels around the innermost one; too many mean the outermost.
LoopAtDepth(g, depth) ==
    LET n == Len(g.m_cur_loop)
    IN  IF depth >= n \/ depth < 0 THEN g.m_cur_loop[1] ELSE g.m_cur_loop[n - depth]

VisitBreakContinue(g, ast) ==
    LET depth == IF ast.kids = <<>> THEN 0 ELSE ast.kids[1].attr.val
        h     == EmitJump(g, "JMP")
        entry == <<LoopAtDepth(g, depth), AddressIn(h)>>
    IN  IF g.m_cur_loop = <<>> THEN throw_err(g, "loop")
        ELSE IF ast.attr = "break"
        THEN [h EXCEPT !.m_loop_end_comefroms = @ \cup {entry}]
        ELSE [h EXCEPT !.m_loop_begin_comefroms = @ \cup {entry}]

\* A jump to the end of the function, behind the value.
EmitReturn(g) ==
    IF g.m_cur_func = "" THEN throw_err(g, "return")
    ELSE LET h == EmitJump(g, "JMP")
         IN  [h EXCEPT !.m_endfunc_comefroms = @ \cup {AddressIn(h)}]

-----------------------------------------------------------------------------
(* The control flow: what is done before, between and after the visits of a    *)
(* node's children.                                                         *)

\* The jump over a block that is not to be executed.
EmitSkip(g) == EmitJump(Emit(g, Opcode1("NOT")), "JMPCND")

\* Behind the if block; with an else block, behind the jump over it.
EndIfBlock(g, cond, hasElse) ==
    LET h == IF hasElse THEN EmitJump(g, "JMP") ELSE g
    IN  Patch(h, cond, tellp(h))

BeginLoop(g) ==
    [g EXCEPT !.m_cur_loop = Append(@, g.m_glob_label), !.m_glob_label = @ + 1]

\* Behind the block of the loop with the given label, begin and condition jump.
\* Nothing is popped from an empty m_cur_loop that is defined.
EndLoop(g0, label, begin, cond) ==
    LET h     == EmitJump(g0, "JMP")
        end   == tellp(h)
        of(s) == {e[2] : e \in {e \in s : e[1] = label}}
        g     == PatchAll(PatchAll(Patch(Patch(h, AddressIn(h), begin), cond, end),
                                   of(h.m_loop_begin_comefroms), begin),
                          of(h.m_loop_end_comefroms), end)
        done(s) == {e \in s : e[1] # label}
    IN  IF g0.error # None THEN g0
        ELSE IF g.m_cur_loop = <<>> THEN throw_err(g, "undefined")
        ELSE [g EXCEPT !.m_loop_begin_comefroms = done(@), !.m_loop_end_comefroms = done(@),
                       !.m_cur_loop = Front(@)]

\* The jump over the function; its parameters and the function itself become
\* known before its block is visited.
BeginFunc(g0, name, args) ==
    LET g    == EmitJump([g0 EXCEPT !.m_cur_func = name], "JMP")
        add[i \in 0 .. Len(args)] ==
            IF i = 0 THEN g
            ELSE AddSymbol(add[i - 1], <<name, args[i].attr.val>>, i + 1, "ADDR_BP_ARG",
                           args[i].ty, FALSE, 0)
    IN  AddSymbol(add[Len(args)], <<"", name>>, tellp(g), "ADDR_MEM", "UNKNOWN", TRUE, Len(args))

\* (mutant) the places of the returns are not forgotten
EndFuncKeeps(g0, over, num_args) ==
    LET ret == tellp(g0)
        g   == Emit(g0, PushOf("INT", num_args) \o Opcode1("RET"))
    IN  IF g0.error # None THEN g0
        ELSE [PatchAll(Patch(g, over, tellp(g)), g.m_endfunc_comefroms, ret)
                 EXCEPT !.m_cur_func = "", !.m_cur_loop = <<>>]

\* The return; the list of the loops is emptied.
EndFunc(g0, over, num_args) ==
    LET ret == tellp(g0)
        g   == Emit(g0, PushOf("INT", num_args) \o Opcode1("RET"))
    IN  IF g0.error # None THEN g0
        ELSE [PatchAll(Patch(g, over, tellp(g)), g.m_endfunc_comefroms, ret)
                 EXCEPT !.m_endfunc_comefroms = {}, !.m_cur_func = "", !.m_cur_loop = <<>>]

RECURSIVE Visit(_, _), VisitAll(_, _)

VisitAll(g, kids) ==
    IF kids = <<>> THEN g ELSE VisitAll(Visit(g, Head(kids)), Tail(kids))

VisitBinary(g, ast) ==
    LET left  == Cast(Visit(g, ast.kids[1]), ast, ast.kids[1])
        right == Cast(Visit(left, ast.kids[2]), ast, ast.kids[2])
    IN  IF right.error # None THEN right
        ELSE EmitOperator(right, ast.attr, Opcodes[ast.attr])

VisitUnary(g, ast) ==
    LET h == Visit(g, ast.kids[1])
    IN  IF h.error # None THEN h ELSE EmitOperator(h, ast.attr, UnaryOpcode(ast.attr))

VisitCondition(g, ast) ==
    LET cond    == [EmitSkip(Visit(g, ast.kids[1])) EXCEPT !.m_glob_label = @ + 2]
        block   == Visit(cond, ast.kids[2])
        hasElse == Len(ast.kids) = 3
        if      == EndIfBlock(block, AddressIn(cond), hasElse)
        else    == Visit(if, ast.kids[3])
    IN  IF block.error # None THEN block
        ELSE IF ~ hasElse THEN if
        ELSE IF else.error # None THEN else
        ELSE Patch(else, AddressIn(if), tellp(else))

VisitLoop(g, ast) ==
    LET loop  == BeginLoop(g)
        cond  == EmitSkip(Visit(loop, ast.kids[1]))
    IN  EndLoop(Visit(cond, ast.kids[2]), g.m_glob_label, tellp(g), AddressIn(cond))

VisitFunc(g, ast) ==
    LET args == ast.kids[1].kids
        over == Len(g.m_ostr) + 2
    IN  IF g.m_cur_func # "" THEN throw_err(g, "nested")
        ELSE EndFunc(Visit(BeginFunc(g, ast.attr, args), ast.kids[2]), over, Len(args))

VisitFuncCall(g, ast) ==
    LET h == Visit(g, ast.kids[1])
    IN  IF h.error # None THEN h ELSE EmitCall(h, ast)

VisitJump(g, ast) ==
    IF ast.attr # "return" THEN VisitBreakContinue(g, ast)
    ELSE LET h == VisitAll(g, ast.kids)
         IN  IF h.error # None THEN h ELSE EmitReturn(h)

Visit(g, ast) ==
    IF g.error # None THEN g
    ELSE CASE ast.type = "TOKEN"     -> VisitToken(g, ast)
           [] ast.type = "UNARY"     -> VisitUnary(g, ast)
           [] ast.type = "BINARY"    -> VisitBinary(g, ast)
           [] ast.type = "LIST"      -> VisitAll(g, ast.kids)
           [] ast.type = "CONDITION" -> VisitCondition(g, ast)
           [] ast.type = "LOOP"      -> VisitLoop(g, ast)
           [] ast.type = "FUNC"      -> VisitFunc(g, ast)
           [] ast.type = "FUNCCALL"  -> VisitFuncCall(g, ast)
           [] ast.type = "JUMP"      -> VisitJump(g, ast)
           [] ast.type = "DECLARE"   -> VisitDeclare(g, ast)

-----------------------------------------------------------------------------
\* (mutant) the number of arguments is not compared
PatchCallUnchecked(g, call) ==
    LET name == <<"", call.name>>
    IN  IF g.error # None THEN g
        ELSE IF ~ HasSymbol(g, name) THEN throw_err(g, "unknown")
        ELSE Patch(g, call.pos, g.m_symtab[name].addr)

\* One round of PatchFunctionAddresses.
PatchCall(g, call) ==
    LET name == <<"", call.name>>
    IN  IF g.error # None THEN g
        ELSE IF ~ HasSymbol(g, name) THEN throw_err(g, "unknown")
        ELSE IF call.num_args # g.m_symtab[name].num_args THEN throw_err(g, "arguments")
        ELSE Patch(g, call.pos, g.m_symtab[name].addr)

RECURSIVE PatchCalls(_, _)
PatchCalls(g, calls) ==
    IF calls = <<>> THEN g ELSE PatchCalls(PatchCall(g, Head(calls)), Tail(calls))

PatchFunctionAddresses(g) == PatchCalls(g, g.m_func_comefroms)

FinishCodegen(g) == IF g.error # None THEN g ELSE Emit(g, Opcode1("HALT"))

\* The code of a script, and what an exception says.
Generated(d) == FinishCodegen(PatchFunctionAddresses(Visit(Generator, Tree(d))))
=============================================================================
