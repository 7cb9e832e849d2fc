------------------------------ MODULE Elements ------------------------------
(***************************************************************************)
(* The elements of LR(1) closures, without their look-aheads: a rule and a  *)
(* cursor in its right-hand side.  A closure has at most one element with a *)
(* given core, so that the core names it.                                   *)
(***************************************************************************)
EXTENDS Integers, Sequences

CONSTANTS
    Terminal, NonTerminal, g_eps, g_end,
    RuleNr,                 \* semantic rule numbers, in the order of AddRule
    Rules,                  \* for each rule its lhs and its rhs, with epsilon
    First                   \* what calc_first computes for each nonterminal

ASSUME GrammarAssumption ==
    /\ g_eps \notin Terminal \cup NonTerminal /\ g_end \in Terminal
    /\ Terminal \cap NonTerminal = {}
    /\ RuleNr \subseteq Nat
    /\ Rules \in [RuleNr -> [lhs : NonTerminal,
                             rhs : Seq(Terminal \cup NonTerminal \cup {g_eps})]]
    /\ First \in [NonTerminal -> SUBSET (Terminal \cup {g_eps})]
    /\ \A q, r \in RuleNr : Rules[q] = Rules[r] => q = r   \* Element::IsEqual

Core == {core \in RuleNr \X Nat : core[2] <= Len(Rules[core[1]].rhs)}

GetRhs(core) == Rules[core[1]].rhs
GetLhs(core) == Rules[core[1]].lhs
RulesOf(nonterm) == {r \in RuleNr : Rules[r].lhs = nonterm}

NoSymbol == g_eps
GetSymbolAtCursor(core) ==
    IF core[2] < Len(GetRhs(core)) THEN GetRhs(core)[core[2] + 1] ELSE NoSymbol

AdvanceCursor(core) == <<core[1], core[2] + 1>>

\* Only epsilon may follow the cursor of a handle that has been read.
IsCursorAtEnd(core) ==
    \A i \in core[2] + 1 .. Len(GetRhs(core)) : GetRhs(core)[i] = g_eps

\* The next symbol that is not epsilon.
GetPossibleTransition(core) ==
    IF IsCursorAtEnd(core) THEN NoSymbol
    ELSE LET next == CHOOSE i \in core[2] + 1 .. Len(GetRhs(core)) :
                        /\ GetRhs(core)[i] # g_eps
                        /\ \A j \in core[2] + 1 .. i - 1 : GetRhs(core)[j] = g_eps
         IN  GetRhs(core)[next]

\* calc_first of the word behind position offs and the look-ahead la: the loop
\* gets to a symbol if all before it are nonterminals that may be empty.
\* AddElement does not use epsilon.
calc_first(word, la, offs) ==
    LET all == Append(word, la)
        Reached(i) == \A j \in offs + 1 .. i - 1 :
                          all[j] \in NonTerminal /\ g_eps \in First[all[j]]
        FirstOf(X) == IF X \in NonTerminal THEN First[X] ELSE {X}
    IN  (UNION {FirstOf(all[i]) : i \in {k \in offs + 1 .. Len(all) : Reached(k)}}) \ {g_eps}

-----------------------------------------------------------------------------
\* An item is a core with one look-ahead; the items an item implies.
Implied(core, la) ==
    LET sym == GetSymbolAtCursor(core)
    IN  {<<r, 0>> : r \in IF sym \in NonTerminal THEN RulesOf(sym) ELSE {}}
            \X calc_first(GetRhs(core), la, core[2] + 1)
Closed(I) == \A x \in I : Implied(x[1], x[2]) \subseteq I

\* The core is the beginning of a rule for a symbol behind one of the cursors.
OpensRule(cores, core) ==
    core[2] = 0 /\ \E c \in cores : GetSymbolAtCursor(c) = GetLhs(core)

\* A closure, given by its cores and its items, has what was added to it, the
\* kernel; whatever else it has opens a rule.
ClosureOfKernel(cores, items, kernelcores, kernelitems) ==
    /\ kernelcores \subseteq cores
    /\ \A core \in cores \ kernelcores : OpensRule(cores, core)
    /\ \A x \in items \ kernelitems : OpensRule(cores, x[1])
=============================================================================
