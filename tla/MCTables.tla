------------------------------ MODULE MCTables ------------------------------
(* The tables of the grammars of MCCollection, with the ways in which the    *)
(* tests and examples solve the conflicts of the expression grammar.         *)
EXTENDS Tables, MCCollection

Sol(b, a, s) == [back |-> b, ahead |-> a, sol |-> s]
Undeclared == [t \in MCTerminal |-> None]
WithSolutions(conflictsol) ==
    [conflictsol |-> conflictsol, precedence |-> Undeclared, associativity |-> Undeclared,
     stopOnConflicts |-> TRUE]

\* tests/expr_simplified_prec.cpp, both variants
LookBack == WithSolutions(<<
    Sol("mult", "mult", "FORCE_REDUCE"), Sol("plus", "plus", "FORCE_REDUCE"),
    Sol("mult", "plus", "FORCE_REDUCE"), Sol("plus", "mult", "FORCE_SHIFT")>>)
LeftHandSide == WithSolutions(<<
    Sol("expr", "plus", "FORCE_REDUCE"), Sol("expr", "mult", "FORCE_SHIFT")>>)

\* examples/script.cpp
Declared ==
    [WithSolutions(<<>>) EXCEPT
        !.precedence = [@ EXCEPT !["plus"] = 70, !["mult"] = 80],
        !.associativity = [@ EXCEPT !["plus"] = "l", !["mult"] = "l"]]

Unsolved == WithSolutions(<<>>)
Tolerated == [Unsolved EXCEPT !.stopOnConflicts = FALSE]

MCSetups == {LookBack, LeftHandSide, Declared, Unsolved, Tolerated}
\* What the theorems assume of the closures holds for those of the program: here
\* for the kernels of one and of two elements of a grammar.
AllCores == UNION {{r} \X (0 .. Len(Rules[r].rhs)) : r \in RuleNr}
Kernels == UNION {[1 .. n -> [core : AllCores, las : {<<"end">>, <<"plus", "p">>}]] : n \in 1 .. 2}
SameGrammar(kernel) == \A i, j \in DOMAIN kernel : kernel[i].core[1] \div 10 = kernel[j].core[1] \div 10
ASSUME ClosuresAsAssumed ==
    \A kernel \in Kernels : SameGrammar(kernel) =>
        /\ IsClosureOf(ClosureOf(kernel), kernel) /\ WellFilled(ClosureOf(kernel))
        /\ ItemsOf(ClosureOf(kernel)) = Closing(ItemsOf(kernel))
ASSUME SetsAsAssumed == FirstNonempty /\ FollowClosed

\* All four ways to a collection give the one of the textbook: the LR(1)
\* collection, the LALR(1) collection whether look-aheads are united as the
\* transitions are made or afterwards, and the states of SLR(1).
CollectionCorrect ==
    Generated /\ step = "none" => ClosuresAsInTextbook /\ TransitionsAsInTextbook

=============================================================================
