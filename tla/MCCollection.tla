---------------------------- MODULE MCCollection ----------------------------
(* Four grammars: the ambiguous expressions of tests/expr_simplified.cpp, the *)
(* LR(1) grammar of tests/conflicts.cpp that is not LALR(1), the left         *)
(* recursion of tests/left_recursion.cpp, and statement lists.                *)
EXTENDS LocalClosures, TLC

MCTermOrder == <<"plus", "mult", "open", "close", "symbol", "p", "q",
                 "expr_", "semi", "begin", "end_", "end">>
MCTerminal == {MCTermOrder[i] : i \in DOMAIN MCTermOrder}
MCNonTerminal == {"start", "expr", "S'", "S", "A", "B", "R", "As", "C",
                  "list", "stmts", "stmt"}
MCRules ==
    (0 :> [lhs |-> "start", rhs |-> <<"expr">>]) @@
    (1 :> [lhs |-> "expr",  rhs |-> <<"expr", "plus", "expr">>]) @@
    (2 :> [lhs |-> "expr",  rhs |-> <<"expr", "mult", "expr">>]) @@
    (3 :> [lhs |-> "expr",  rhs |-> <<"symbol">>]) @@
    (4 :> [lhs |-> "expr",  rhs |-> <<"open", "expr", "close">>]) @@
    (10 :> [lhs |-> "S'", rhs |-> <<"S">>]) @@
    (11 :> [lhs |-> "S",  rhs |-> <<"p", "A", "p">>]) @@
    (12 :> [lhs |-> "S",  rhs |-> <<"p", "B", "q">>]) @@
    (13 :> [lhs |-> "S",  rhs |-> <<"q", "B", "p">>]) @@
    (14 :> [lhs |-> "S",  rhs |-> <<"q", "A", "q">>]) @@
    (15 :> [lhs |-> "A",  rhs |-> <<"p">>]) @@
    (16 :> [lhs |-> "B",  rhs |-> <<"p">>]) @@
    (20 :> [lhs |-> "R",  rhs |-> <<"As">>]) @@
    (21 :> [lhs |-> "As", rhs |-> <<"As", "C">>]) @@
    (22 :> [lhs |-> "As", rhs |-> <<"eps">>]) @@
    (23 :> [lhs |-> "C",  rhs |-> <<"p", "q">>]) @@
    (30 :> [lhs |-> "list",  rhs |-> <<"stmts">>]) @@
    (31 :> [lhs |-> "stmts", rhs |-> <<"stmt", "stmts">>]) @@
    (32 :> [lhs |-> "stmts", rhs |-> <<"eps">>]) @@
    (33 :> [lhs |-> "stmt",  rhs |-> <<"expr_", "semi">>]) @@
    (34 :> [lhs |-> "stmt",  rhs |-> <<"begin", "stmts", "end_">>])

ExprFirst == {"open", "symbol"}
MCFirst ==
    [start |-> ExprFirst, expr |-> ExprFirst, A |-> {"p"}, B |-> {"p"}, S |-> {"p", "q"},
     R |-> {"eps"}, As |-> {"eps"}, C |-> {"p"}, stmt |-> {"expr_", "begin"},
     stmts |-> {"expr_", "begin", "eps"}, list |-> {"expr_", "begin", "eps"}]
        @@ ("S'" :> {"p", "q"})

AfterExpr == {"plus", "mult", "close", "end"}
MCFollow ==
    [start |-> {"end"}, expr |-> AfterExpr, S |-> {"end"}, A |-> {"p", "q"}, B |-> {"p", "q"},
     R |-> {"end"}, As |-> {"p", "end"}, C |-> {"p", "end"}, list |-> {"end"},
     stmts |-> {"end_", "end"}, stmt |-> {"expr_", "begin", "end_", "end"}]
        @@ ("S'" :> {"end"})

-----------------------------------------------------------------------------
\* The collections of the textbook: sets of items, in the LALR(1) case united
\* when they have the same cores.
RECURSIVE Closing(_)
Closing(I) ==
    LET all == I \cup UNION {Implied(x[1], x[2]) : x \in I}
    IN  IF all = I THEN I ELSE Closing(all)

Goto(I, sym) ==
    Closing({<<AdvanceCursor(x[1]), x[2]>> :
                 x \in {y \in I : GetSymbolAtCursor(y[1]) = sym /\ sym # NoSymbol}})

Successors(I) ==
    {Goto(I, sym) : sym \in {GetSymbolAtCursor(x[1]) : x \in I} \ {NoSymbol}}

RECURSIVE Reaching(_, _)
Reaching(states, new) ==
    IF new = {} THEN states
    ELSE LET found == UNION {Successors(I) : I \in new}
         IN  Reaching(states \cup new, found \ (states \cup new))

MCCanonical == [s \in {0, 10, 20, 30} |-> Reaching({}, {Closing({<<<<s, 0>>, "end">>})})]

Cores(I) == {x[1] : x \in I}
United(states) == {UNION {J \in states : Cores(J) = Cores(I)} : I \in states}

ItemSets(c) == {ItemsOf(c.closures[o].elems) : o \in DOMAIN c.closures}
CONSTANT Canonical

\* The LR(1) collection has the closures of the textbook, an LALR(1)
\* collection has these united, no look-ahead more or less.
ClosuresAsInTextbook ==
    CASE mode = "lr1" -> ItemSets(lr) = Canonical[start]
      [] mode \in {"lalr", "convert"} -> ItemSets(Result) = United(Canonical[start])
      [] mode = "slr" -> {Cores(I) : I \in ItemSets(coll)} = {Cores(I) : I \in Canonical[start]}

\* Every closure has one transition for each symbol it can go on with, to the
\* closure that holds what the textbook says.
TransitionsAsInTextbook ==
    \A o \in DOMAIN Result.closures :
        LET I == ItemsOf(Result.closures[o].elems)
            from == {t \in Result.m_transitions : t[1] = o}
            To(t) == ItemsOf(Result.closures[t[2]].elems)
        IN  /\ Cardinality(from) = Cardinality({t[3] : t \in from})
            /\ {t[3] : t \in from} = {GetSymbolAtCursor(x[1]) : x \in I} \ {NoSymbol}
            /\ \A t \in from : IF mode = "slr" THEN Cores(Goto(I, t[3])) = Cores(To(t))
                               ELSE Goto(I, t[3]) \subseteq To(t)
=============================================================================
