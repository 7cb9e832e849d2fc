------------------------------ MODULE StmtTables ------------------------------
(* The statement lists of the script language, examples/script.cpp: rules     *)
(* with an empty right-hand side, nesting, and if statements with and         *)
(* without else.  The tables are those the generator computes with            *)
(* DoTransitions(false).  Only the entries are listed.                        *)
EXTENDS Integers, Sequences, TLC

StmtTerminal == {"expr", "semi", "if", "else", "begin", "end_", "end"}
StmtNonTerminal == {"start", "stmts", "stmt"}

If == <<"if", "begin", "stmts", "end_">>
StmtRules ==
    (0 :> [lhs |-> "start", rhs |-> <<"stmts">>]) @@
    (1 :> [lhs |-> "stmts", rhs |-> <<"stmt", "stmts">>]) @@
    (2 :> [lhs |-> "stmts", rhs |-> <<>>]) @@
    (3 :> [lhs |-> "stmt",  rhs |-> <<"expr", "semi">>]) @@
    (4 :> [lhs |-> "stmt",  rhs |-> If]) @@
    (5 :> [lhs |-> "stmt",  rhs |-> If \o <<"else", "begin", "stmts", "end_">>])

StmtState == 0 .. 13

\* A table with the given rows; every other entry is err.
Table(symbols, rows, err) ==
    [s \in StmtState |-> [X \in symbols |->
        IF s \in DOMAIN rows /\ X \in DOMAIN rows[s] THEN rows[s][X] ELSE err]]

Stmt == [expr |-> 4, if |-> 5]
StmtShift ==
    (0 :> Stmt) @@ (2 :> Stmt) @@ (7 :> Stmt) @@ (11 :> Stmt) @@
    (4 :> [semi |-> 6]) @@ (5 :> [begin |-> 7]) @@ (8 :> [end_ |-> 9]) @@
    (9 :> [else |-> 10]) @@ (10 :> [begin |-> 11]) @@ (12 :> [end_ |-> 13])

AfterStmt(r) == [X \in {"expr", "if", "end_", "end"} |-> r]
StmtReduce(acc) ==
    (0 :> [end |-> 2]) @@ (1 :> [end |-> acc]) @@
    (2 :> [end_ |-> 2, end |-> 2]) @@ (3 :> [end_ |-> 1, end |-> 1]) @@
    (6 :> AfterStmt(3)) @@ (7 :> [end_ |-> 2]) @@ (9 :> AfterStmt(4)) @@
    (11 :> [end_ |-> 2]) @@ (13 :> AfterStmt(5))

StmtJump ==
    (0 :> [stmts |-> 1, stmt |-> 2]) @@ (2 :> [stmts |-> 3, stmt |-> 2]) @@
    (7 :> [stmts |-> 8, stmt |-> 2]) @@ (11 :> [stmts |-> 12, stmt |-> 2])

\* The elements of the closures.
Stmts == {<<r, 0>> : r \in 1 .. 5}
StmtItems ==
    (0 :> {<<0, 0>>} \cup Stmts) @@ (1 :> {<<0, 1>>}) @@
    (2 :> {<<1, 1>>} \cup Stmts) @@ (3 :> {<<1, 2>>}) @@
    (4 :> {<<3, 1>>}) @@ (5 :> {<<4, 1>>, <<5, 1>>}) @@ (6 :> {<<3, 2>>}) @@
    (7 :> {<<4, 2>>, <<5, 2>>} \cup Stmts) @@ (8 :> {<<4, 3>>, <<5, 3>>}) @@
    (9 :> {<<4, 4>>, <<5, 4>>}) @@ (10 :> {<<5, 5>>}) @@
    (11 :> {<<5, 6>>} \cup Stmts) @@ (12 :> {<<5, 7>>}) @@ (13 :> {<<5, 8>>})
=============================================================================
