------------------------------ MODULE MCClosure ------------------------------
(* Three grammars in one: the ambiguous expressions of the tests, statement  *)
(* lists whose rules may be empty, and one that is left-recursive by way of   *)
(* a second nonterminal (A, B), followed by a choice of terminals (C).        *)
EXTENDS Closure, TLC

MCTerminal == {"plus", "symbol", "open", "close", "semi", "begin", "end_",
               "u", "v", "w", "x", "y", "end"}
MCNonTerminal == {"expr", "stmts", "stmt", "s", "a", "b", "c"}

MCRules ==
    (0 :> [lhs |-> "s",     rhs |-> <<"a", "c">>]) @@
    (1 :> [lhs |-> "a",     rhs |-> <<"b">>]) @@
    (2 :> [lhs |-> "b",     rhs |-> <<"a", "u">>]) @@
    (3 :> [lhs |-> "b",     rhs |-> <<"a", "v">>]) @@
    (4 :> [lhs |-> "b",     rhs |-> <<"w">>]) @@
    (5 :> [lhs |-> "c",     rhs |-> <<"x">>]) @@
    (6 :> [lhs |-> "c",     rhs |-> <<"y">>]) @@
    (10 :> [lhs |-> "expr", rhs |-> <<"expr", "plus", "expr">>]) @@
    (11 :> [lhs |-> "expr", rhs |-> <<"symbol">>]) @@
    (12 :> [lhs |-> "expr", rhs |-> <<"open", "expr", "close">>]) @@
    (20 :> [lhs |-> "stmts", rhs |-> <<"stmt", "stmts">>]) @@
    (21 :> [lhs |-> "stmts", rhs |-> <<"eps">>]) @@
    (22 :> [lhs |-> "stmt", rhs |-> <<"expr", "semi">>]) @@
    (23 :> [lhs |-> "stmt", rhs |-> <<"begin", "stmts", "end_">>])

MCFirst ==
    [expr |-> {"symbol", "open"}, stmt |-> {"symbol", "open", "begin"},
     stmts |-> {"symbol", "open", "begin", "eps"},
     s |-> {"w"}, a |-> {"w"}, b |-> {"w"}, c |-> {"x", "y"}]

El(r, cursor, las) == [core |-> <<r, cursor>>, las |-> las]

\* The first closures of the grammars, and closures after a transition.
MCKernels == {
    <<El(0, 0, {"end"})>>,
    <<El(0, 1, {"end"}), El(2, 1, {"x", "y"}), El(3, 1, {"x", "y"})>>,
    <<El(10, 2, {"plus", "end"})>>,
    <<El(12, 1, {"close", "plus"})>>,
    <<El(20, 0, {"end"})>>,
    <<El(20, 1, {"end_", "end"})>>,
    <<El(23, 1, {"begin", "end"})>>}

\* The least closed set that holds the items given.
RECURSIVE Closing(_)
Closing(I) ==
    LET next == I \cup UNION {Implied(x[1], x[2]) : x \in I}
    IN  IF next = I THEN I ELSE Closing(next)

MCSound == Sound({Closing(Items(kernel))})
=============================================================================
