----------------------------- MODULE MCCompiler -----------------------------
(* All scripts of some shapes.  A statement has a number: 11, 12 ... at the top *)
(* level; the statements of the first block of statement p are 10p + 1 ..., of  *)
(* its else block 10p + 6 ....  It evaluates this number first.             *)
(* No script defines a function inside a loop or gives a function the name of  *)
(* a variable.                                                             *)
EXTENDS Compiler

S == INSTANCE ScriptSyntax

\* The kinds of statements that have no block.  The
\* functions f, print and sleep have no, one and two parameters; "print0" is a call
\* of print without its argument.
SimpleKinds == {"set", "f", "print", "print0", "sleep", "value", "return", "break", "break1", "continue"}

Num(p)      == S!IntLit(p)
Plus(p, e)  == S!Stmt(S!Binary(Num(p), "+", e))

Simple(kind, p) ==
    CASE kind = "set"      -> S!Stmt(S!Assign("a", S!Binary(Num(p), "+", S!Var("b"))))
      [] kind = "f"        -> Plus(p, S!Call("f", <<>>))
      [] kind = "print"        -> S!Stmt(S!Call("print", <<Num(p)>>))
      [] kind = "print0"       -> Plus(p, S!Call("print", <<>>))
      [] kind = "sleep"        -> S!Stmt(S!Call("sleep", <<S!Call("print", <<Num(p)>>), S!Var("b")>>))
      [] kind = "extern"   -> S!Extern(<<"sleep", "print">>)
      [] kind = "value"    -> S!ReturnValue(Num(p))
      [] kind = "return"   -> S!Return
      [] kind = "break"    -> S!Break
      [] kind = "break1"   -> S!BreakOut(1)
      [] kind = "break5"   -> S!BreakOut(5)
      [] kind = "continue" -> S!Continue
      [] kind = "continue1" -> S!ContinueOut(1)

Condition(p) == S!Binary(Num(p), "<", S!Var("b"))

\* A statement with blocks is <<kind, block>> or <<kind, block, block>>.
RECURSIVE Statements(_, _)
Statements(shapes, p) ==
    [i \in DOMAIN shapes |->
        LET s == shapes[i]
            q == p + i
            block(k) == Statements(s[k + 1], 10 * q + 5 * (k - 1))
        IN  CASE s[1] = "if"   -> S!IfStmt(Condition(q), block(1))
              [] s[1] = "else" -> S!IfElse(Condition(q), block(1), block(2))
              [] s[1] = "not"  -> S!IfStmt(S!Unary("!", Condition(q)), block(1))
              [] s[1] = "loop" -> S!Loop(Condition(q), block(1))
              [] s[1] = "func f" -> S!Func("f", <<>>, block(1))
              [] s[1] = "func print" -> S!Func("print", <<"x">>, block(1))
              [] OTHER -> Simple(s[1], q)]

Shape(kind) == <<kind>>
Simples == {<<kind>> : kind \in SimpleKinds}
BlockKinds == {"if", "loop", "func f", "func print"}

\* Two statements, each of them simple or with a block of one simple statement.
Small == Simples \cup {<<k, <<s>>>> : k \in BlockKinds, s \in Simples}
Pairs == {<<s, t>> : s \in Small, t \in Small}

\* Three definitions and calls in every order.
Calls ==
    LET d == {<<"func print", <<<<"value">>>>>>, <<"func f", <<<<"f">>, <<"print">>>>>>,
              <<"func f", <<<<"value">>>>>>, <<"print">>, <<"f">>, <<"print0">>, <<"sleep">>, <<"extern">>}
    IN  {<<a, b, c>> : a \in d, b \in d, c \in d}

\* In a function: a loop with an if and an else, and a statement behind it.
Leaves == {<<"set">>, <<"value">>, <<"return">>, <<"break">>, <<"continue">>, <<"f">>}
InFunction ==
    {<<<<"func f", <<<<"loop", <<<<"else", <<s>>, <<t>>>>, u>>>>, <<"set">>>>>>, <<"f">>>> :
        s \in Leaves, t \in Leaves, u \in Leaves}

\* Loops in loops in loops.
Exits == {<<"break">>, <<"break1">>, <<"break5">>, <<"continue">>, <<"continue1">>, <<"set">>}
Nested ==
    {<<<<"loop", <<<<"loop", <<<<"loop", <<s>>>>, t>>>>, u>>>>, <<"set">>>> :
        s \in Exits, t \in Exits, u \in Exits}
Others ==
    {<<<<"not", <<<<"set">>>>>>>>,
     <<<<"if", <<>>>>, <<"loop", <<>>>>>>,
     <<<<"func f", <<<<"func print", <<<<"value">>>>>>>>>>>>,
     <<<<"if", <<<<"func f", <<<<"return">>, <<"f">>>>>>, <<"f">>>>>>, <<"f">>>>}

MCScripts == {S!Block(Statements(shapes, 10)) :
                 shapes \in Pairs \cup Calls \cup InFunction \cup Nested \cup Others}
=============================================================================
