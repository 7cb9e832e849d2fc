------------------------------- MODULE Tables -------------------------------
(***************************************************************************)
(* Collection::CreateParseTables: the shift, reduce and jump tables of a    *)
(* collection.  A cell with both a shift and a reduce entry is a conflict;  *)
(* it is resolved by the solutions the caller lists and by the precedence   *)
(* and associativity of the terminals before and behind it.  What comes     *)
(* before is looked up in the transitions that lead to the state.           *)
(***************************************************************************)
EXTENDS Collection

CONSTANTS
    Setups,                 \* what the callers pass or set, see Setup
    ERROR_VAL, ACCEPT_VAL, None

Solution == {"NONE", "FORCE_SHIFT", "FORCE_REDUCE"}

\* A solution has a nonterminal left-hand side or a look-back terminal, and a
\* look-ahead terminal.
Setup == [conflictsol : Seq([back : Terminal \cup NonTerminal, ahead : Terminal, sol : Solution]),
          precedence : [Terminal -> Nat \cup {None}],
          associativity : [Terminal -> {"l", "r", None}],
          stopOnConflicts : BOOLEAN]

ASSUME TablesAssumption ==
    /\ Setups \subseteq Setup
    /\ {ERROR_VAL, ACCEPT_VAL} \cap Nat = {} /\ ERROR_VAL # ACCEPT_VAL /\ None \notin Nat

VARIABLES
    setup,
    step,                   \* "none", "cells", "returned", "thrown"
    action_shift, action_reduce, jump, numRhsSymsPerRule,
    cells                   \* the conflicts that have not been looked at

tabvars == <<setup, step, action_shift, action_reduce, jump, numRhsSymsPerRule, cells>>

Closures == Result.m_collection
ClosureAt(state) == Result.closures[Closures[state + 1]]
States == 0 .. Len(Closures) - 1

-----------------------------------------------------------------------------
TablesInit ==
    /\ CollectionInit
    /\ setup = None
    /\ step = "none"
    /\ action_shift = <<>> /\ action_reduce = <<>> /\ jump = <<>>
    /\ numRhsSymsPerRule = <<>>
    /\ cells = {}

\* The row is that of the id of the closure.  No closure has two transitions
\* with the same symbol.
Target(s, X) ==
    LET to == {t[2] : t \in {u \in Result.m_transitions :
                                 Result.closures[u[1]].id = s /\ u[3] = X}}
    IN  IF to = {} THEN ERROR_VAL ELSE Result.closures[CHOOSE o \in to : TRUE].id

\* The finished elements with a look-ahead: the last one is kept.  The start
\* rule of a grammar has number 0 in the code.
Finishing(s, la) ==
    LET elems == ClosureAt(s).elems
    IN  {i \in DOMAIN elems : IsCursorAtEnd(elems[i].core) /\ la \in Range(elems[i].las)}
Reduction(s, la) ==
    LET end == Finishing(s, la)
    IN  IF end = {} THEN ERROR_VAL
        ELSE LET rule == ClosureAt(s).elems[Max(end)].core[1]
             IN  IF rule = start THEN ACCEPT_VAL ELSE rule

\* (mutant) epsilon is counted
NumSymbolsWithEps(r) == Len(Rules[r].rhs)

NumSymbols(r) == Cardinality({i \in DOMAIN Rules[r].rhs : Rules[r].rhs[i] # g_eps})

FinishedRules ==
    {core[1] : core \in {c \in UNION {{ClosureAt(s).elems[i].core : i \in DOMAIN ClosureAt(s).elems} :
                                         s \in States} : IsCursorAtEnd(c)}}

\* The call, when the collection is there.
FillTables ==
    /\ Generated /\ step = "none"
    /\ setup' \in Setups
    /\ action_shift' = [s \in States |-> [t \in Terminal |-> Target(s, t)]]
    /\ jump' = [s \in States |-> [N \in NonTerminal |-> Target(s, N)]]
    /\ action_reduce' = [s \in States |-> [t \in Terminal |-> Reduction(s, t)]]
    /\ numRhsSymsPerRule' = [r \in FinishedRules |-> NumSymbols(r)]
    /\ step' = "cells"
    /\ cells' = {c \in States \X Terminal :
                    action_shift'[c[1]][c[2]] # ERROR_VAL /\ action_reduce'[c[1]][c[2]] # ERROR_VAL}
    /\ UNCHANGED <<collvars>>

-----------------------------------------------------------------------------
\* GetComefromTerminals: the terminals that lead to the closure, through
\* nonterminals back to the closures these come from.  Sorted by their hashes.
From(o) == {c[2] : c \in {d \in Result.closures[o].comefrom : d[1] \notin Terminal}}
Behind[seen \in SUBSET DOMAIN Result.closures] ==
    LET all == seen \cup UNION {From(o) : o \in seen}
    IN  IF all = seen THEN seen ELSE Behind[all]

GetComefromTerminals(o) ==
    Listed({c[1] : c \in UNION {Result.closures[p].comefrom : p \in Behind[{o}]}})

\* The explicit solution: the first that fits.
Fits(sol, state, t) ==
    LET elems == ClosureAt(state).elems
        at == {i \in DOMAIN elems : GetSymbolAtCursor(elems[i].core) = t}
    IN  /\ at # {} /\ sol.ahead = t /\ sol.sol # "NONE"
        /\ \/ sol.back = GetLhs(elems[Min(at)].core)
           \/ sol.back \in Range(GetComefromTerminals(Closures[state + 1]))

Listing(state, t) ==
    LET fitting == {k \in DOMAIN setup.conflictsol : Fits(setup.conflictsol[k], state, t)}
    IN  IF fitting = {} THEN "NONE" ELSE setup.conflictsol[Min(fitting)].sol

ByPrecedence(back, t) ==
    LET lhs == setup.precedence[back]
        rhs == setup.precedence[t]
    IN  IF None \in {lhs, rhs} \/ lhs = rhs THEN "NONE"
        ELSE IF lhs < rhs THEN "FORCE_SHIFT" ELSE "FORCE_REDUCE"

ByAssociativity(back, t) ==
    LET assoc == setup.associativity[back]
    IN  IF assoc = None \/ assoc # setup.associativity[t] THEN "NONE"
        ELSE IF assoc = "r" THEN "FORCE_SHIFT" ELSE "FORCE_REDUCE"

\* The operators: the first look-back terminal that decides.  When a listed
\* solution was found, the loop still looks at the precedence of the first one.
ByOperators(listed, state, t) ==
    LET backs == GetComefromTerminals(Closures[state + 1])
        By(back) == IF ByPrecedence(back, t) # "NONE" THEN ByPrecedence(back, t)
                    ELSE ByAssociativity(back, t)
        deciding == {k \in DOMAIN backs : By(backs[k]) # "NONE"}
    IN  IF \A i \in DOMAIN ClosureAt(state).elems :
              GetSymbolAtCursor(ClosureAt(state).elems[i].core) # t THEN "NONE"
        ELSE IF listed # "NONE"
             THEN IF backs = <<>> THEN "NONE" ELSE ByPrecedence(Head(backs), t)
             ELSE IF deciding = {} THEN "NONE" ELSE By(backs[Min(deciding)])

Found(c) == {Listing(c[1], c[2]), ByOperators(Listing(c[1], c[2]), c[1], c[2])} \ {"NONE"}

\* One conflict of the first state that has any.
ResolveCell ==
    /\ step = "cells"
    /\ \E c \in cells :
           /\ \A d \in cells : c[1] <= d[1]
           /\ cells' = cells \ {c}
           /\ action_reduce' = IF "FORCE_SHIFT" \in Found(c)
                               THEN [action_reduce EXCEPT ![c[1]][c[2]] = ERROR_VAL] ELSE action_reduce
           /\ action_shift' = IF "FORCE_REDUCE" \in Found(c)
                              THEN [action_shift EXCEPT ![c[1]][c[2]] = ERROR_VAL] ELSE action_shift
           /\ step' = IF Found(c) = {} /\ setup.stopOnConflicts THEN "thrown" ELSE step
    /\ UNCHANGED <<collvars, setup, jump, numRhsSymsPerRule>>

ReturnTables ==
    /\ step = "cells" /\ cells = {}
    /\ step' = "returned"
    /\ UNCHANGED <<collvars, setup, action_shift, action_reduce, jump, numRhsSymsPerRule, cells>>

TablesDone == step \in {"returned", "thrown"} /\ UNCHANGED <<collvars, tabvars>>

TablesNext ==
    \/ Generate /\ UNCHANGED tabvars
    \/ FillTables \/ ResolveCell \/ ReturnTables \/ TablesDone

TablesSpec == TablesInit /\ [][TablesNext]_<<collvars, tabvars>>

-----------------------------------------------------------------------------
Items(s) == {ClosureAt(s).elems[i].core : i \in DOMAIN ClosureAt(s).elems}
Entry(s, X) == IF X \in Terminal THEN action_shift[s][X] ELSE jump[s][X]

\* Tables that were returned are tables the parser can work with: what
\* LRParser assumes of them holds.  The elements of a state come from where a
\* transition leads there, a reduction has its handle and a jump behind it,
\* no cell has two entries, the end is not shifted, and the start rule, with
\* which the parser accepts, begins in state 0 only, to which nothing leads back.
FitForParser ==
    step = "returned" /\ setup.stopOnConflicts =>
        /\ 0 \in States /\ \A item \in Items(0) : item[2] = 0
        /\ \A s \in States : <<start, 0>> \in Items(s) => s = 0
        /\ \A s \in States, X \in Terminal \cup NonTerminal :
               Entry(s, X) # ERROR_VAL =>
                   /\ Entry(s, X) # 0
                   /\ \A item \in Items(Entry(s, X)) : item[2] > 0 =>
                          <<item[1], item[2] - 1>> \in Items(s) /\ GetRhs(item)[item[2]] = X
        /\ \A s \in States, r \in RuleNr \ {start} :
               <<r, 0>> \in Items(s) => jump[s][Rules[r].lhs] # ERROR_VAL
        /\ \A s \in States, t \in Terminal :
               LET r == action_reduce[s][t]
               IN  /\ action_shift[s][t] = ERROR_VAL \/ (r = ERROR_VAL /\ t # g_end)
                   /\ r # start
                   /\ r = ACCEPT_VAL => <<start, 1>> \in Items(s) /\ t = g_end
                   /\ r \in RuleNr => /\ <<r, numRhsSymsPerRule[r]>> \in Items(s)
                                      /\ numRhsSymsPerRule[r] = NumSymbols(r)

\* Whoever loses a reduction, because a closure has two for one look-ahead, or
\* finds a conflict in a cell, has been told so when the collection was made.
ConflictsReported ==
    step # "none" =>
        /\ (\E s \in States, t \in Terminal : Cardinality(Finishing(s, t)) > 1)
               => "reduce/reduce" \in reported
        /\ cells # {} => "shift/reduce" \in reported

\* Tables that were made without a conflict are complete: what the proofs about
\* the parser assume so that it rejects no sentence.  The start rule is in the
\* first state with the end behind it; an element is carried on, with its
\* look-ahead, to the state that the entry for its next symbol names; its state
\* has what it implies; a finished one is reduced when its look-ahead is read.
ItemsAt(s) == ItemsOf(ClosureAt(s).elems)
CompleteForParser ==
    step = "returned" /\ reported = {} =>
        /\ <<<<start, 0>>, g_end>> \in ItemsAt(0)
        /\ \A s \in States : \A x \in ItemsAt(s) :
               LET X == GetPossibleTransition(x[1])
               IN  /\ X # NoSymbol =>
                          /\ Entry(s, X) # ERROR_VAL
                          /\ <<AdvanceCursor(x[1]), x[2]>> \in ItemsAt(Entry(s, X))
                   /\ Implied(x[1], x[2]) \subseteq ItemsAt(s)
                   /\ IsCursorAtEnd(x[1]) =>
                          action_reduce[s][x[2]] = IF x[1][1] = start THEN ACCEPT_VAL ELSE x[1][1]

=============================================================================
