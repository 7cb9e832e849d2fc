-------------------------------- MODULE MCVM --------------------------------
(* Scripts for the virtual machine, as the compiler translates them. *)
EXTENDS VM

S == INSTANCE ScriptSyntax

\* The code of a script; every script here has code.
Code(stmts) == S!Generated(S!Block(stmts)).m_ostr

Set(name, n) == S!Stmt(S!Assign(name, S!IntLit(n)))
X == S!Var("x")
Externals == S!Extern(<<"set_isr", "set_timer", "sleep", "print">>)
Do(name, args) == S!Stmt(S!Call(name, args))
StopTicks == Do("set_timer", <<S!Unary("-", S!IntLit(1))>>)

\* func tick() { a = 2; }
\* func g(x) { return x + 1; }
\* extern func set_isr, set_timer, sleep, print;
\* set_isr(0, tick);  set_timer(0);
\* n = g(1) * 2;
\* set_timer(-1);
\* n;
TimerScript ==
    <<S!Func("tick", <<>>, <<Set("a", 2)>>),
      S!Func("g", <<"x">>, <<S!ReturnValue(S!Binary(X, "+", S!IntLit(1)))>>),
      Externals,
      Do("set_isr", <<S!IntLit(0), S!Var("tick")>>), Do("set_timer", <<S!IntLit(0)>>),
      S!Stmt(S!Assign("n", S!Binary(S!Call("g", <<S!IntLit(1)>>), "*", S!IntLit(2)))),
      StopTicks, S!Stmt(S!Var("n"))>>

\* func r(x) { return r(x); }
\* r(1);
EndlessScript ==
    <<S!Func("r", <<"x">>, <<S!ReturnValue(S!Call("r", <<X>>))>>), Do("r", <<S!IntLit(1)>>)>>

\* func fac(n)
\* { if(n <= 1) { return 1; } else { a = n; b = fac(n-1); return a*b; } }
\* a = 1;
\* loop(a < 2) { a = a + 1; }
\* fac(a);
FactorialScript ==
    LET n == S!Var("n")
        a == S!Var("a")
        one == S!IntLit(1)
    IN  <<S!Func("fac", <<"n">>, <<S!IfElse(S!Binary(n, "<=", one),
              <<S!ReturnValue(one)>>,
              <<S!Stmt(S!Assign("a", n)),
                S!Stmt(S!Assign("b", S!Call("fac", <<S!Binary(n, "-", one)>>))),
                S!ReturnValue(S!Binary(a, "*", S!Var("b")))>>)>>),
          Set("a", 1),
          S!Loop(S!Binary(a, "<", S!IntLit(2)), <<S!Stmt(S!Assign("a", S!Binary(a, "+", one)))>>),
          Do("fac", <<a>>)>>

\* func f() { a = 1;  b = 2;  c = 3;  d = 4;  return a + d; }
\* f();
FourLocalsScript ==
    <<S!Func("f", <<>>, <<Set("a", 1), Set("b", 2), Set("c", 3), Set("d", 4),
                          S!ReturnValue(S!Binary(S!Var("a"), "+", S!Var("d")))>>),
      Do("f", <<>>)>>

\* x = +2;
\* if(x > 1 && 2 > 1 || 1 > 2) { x = x - 1; }
\* extern func set_isr, set_timer, sleep, print;
\* print("print");  sleep(0);
\* set_timer("sleep");  set_timer(-1);
\* x;
StatementsScript ==
    LET gt(a, b) == S!Binary(a, ">", b)
    IN  <<S!Stmt(S!Assign("x", S!Unary("+", S!IntLit(2)))),
          S!IfStmt(S!Binary(S!Binary(gt(X, S!IntLit(1)), "&&", gt(S!IntLit(2), S!IntLit(1))), "||",
                            gt(S!IntLit(1), S!IntLit(2))),
                   <<S!Stmt(S!Assign("x", S!Binary(X, "-", S!IntLit(1))))>>),
          Externals,
          Do("print", <<S!Str("print")>>), Do("sleep", <<S!IntLit(0)>>),
          Do("set_timer", <<S!Str("sleep")>>), StopTicks, S!Stmt(X)>>

\* i = 0;  s = 0;
\* loop(i < 3) { i = i + 1;  loop(0 < 1) { if(i == 2) { break 1; }  s = s + i;  break; } }
\* s;
NestedScript ==
    LET i == S!Var("i")
        s == S!Var("s")
    IN  <<Set("i", 0), Set("s", 0),
          S!Loop(S!Binary(i, "<", S!IntLit(3)),
            <<S!Stmt(S!Assign("i", S!Binary(i, "+", S!IntLit(1)))),
              S!Loop(S!Binary(S!IntLit(0), "<", S!IntLit(1)),
                <<S!IfStmt(S!Binary(i, "==", S!IntLit(2)), <<S!BreakOut(1)>>),
                  S!Stmt(S!Assign("s", S!Binary(s, "+", i))), S!Break>>)>>),
          S!Stmt(s)>>

\* a = 7;
\* func id(x) { return x; }
\* later(id(a), 1);
\* func later(x, y) { return x - y; }
CallsScript ==
    <<Set("a", 7),
      S!Func("id", <<"x">>, <<S!ReturnValue(X)>>),
      Do("later", <<S!Call("id", <<S!Var("a")>>), S!IntLit(1)>>),
      S!Func("later", <<"x", "y">>, <<S!ReturnValue(S!Binary(X, "-", S!Var("y")))>>)>>

\* extern func set_isr, set_timer, sleep, print;
\* set_timer(0);
\* 5;
RunningScript ==
    <<Externals, Do("set_timer", <<S!IntLit(0)>>), S!Stmt(S!IntLit(5))>>

\* a = b = 3;
\* a;
ChainScript ==
    <<S!Stmt(S!Assign("a", S!Assign("b", S!IntLit(3)))), S!Stmt(S!Var("a"))>>

\* func f() { return 1; }
\* extern func set_isr, set_timer, sleep, print;
\* sleep(f);
\* 1;
SleepScript ==
    <<S!Func("f", <<>>, <<S!ReturnValue(S!IntLit(1))>>), Externals,
      Do("sleep", <<S!Var("f")>>), S!Stmt(S!IntLit(1))>>

\* (by hand) text is cast to a number and back; an address is left as it is.
CastCode ==
    S!PushOf("STR", "12kg") \o S!Opcode1("TOI") \o S!PushOf("INT", 7) \o S!Opcode1("ADD")
        \o S!Opcode1("TOF") \o S!PushOf("ADDR_IP", 0) \o S!Opcode1("TOI") \o S!Opcode1("JMP")
        \o S!PushOf("REAL", 3) \o S!Opcode1("SUB") \o S!Opcode1("TOS") \o S!Opcode1("TOS")
        \o S!PushOf("INT", -4) \o S!PushOf("REAL", -3) \o S!Opcode1("TOI") \o S!Opcode1("ADD")
        \o S!Opcode1("TOS") \o S!Opcode1("ADD") \o S!Opcode1("HALT")

\* (by hand) no operator of the language rotates.
RotateCode ==
    S!PushOf("INT", -3) \o S!PushOf("INT", 66) \o S!Opcode1("ROTL")
        \o S!PushOf("INT", -1) \o S!Opcode1("ROTR")
        \o S!PushOf("INT", 31) \o S!Opcode1("BINAND") \o S!Opcode1("HALT")

Show(e) == Do("print", <<e>>)
Plus(x, y) == S!Binary(x, "+", y)

\* test1.scr
\* a = 1 + 2*3;  b = 5*5 - 1;  c = a + b;
\* if(a < 5) { c = c - 1; } else { c = c * 2; }
\* c;
Test1 ==
    LET lit(n) == S!IntLit(n)
        c == S!Var("c")
    IN  <<S!Stmt(S!Assign("a", Plus(lit(1), S!Binary(lit(2), "*", lit(3))))),
          S!Stmt(S!Assign("b", S!Binary(S!Binary(lit(5), "*", lit(5)), "-", lit(1)))),
          S!Stmt(S!Assign("c", Plus(S!Var("a"), S!Var("b")))),
          S!IfElse(S!Binary(S!Var("a"), "<", lit(5)),
              <<S!Stmt(S!Assign("c", S!Binary(c, "-", lit(1))))>>,
              <<S!Stmt(S!Assign("c", S!Binary(c, "*", lit(2))))>>),
          S!Stmt(c)>>

\* test3.scr
\* func fkt(arg1, arg2) { a = arg1*2 + arg2;  a; }
\* a = 5;
\* a + fkt(50, 12) + a;
Test3 ==
    <<S!Func("fkt", <<"arg1", "arg2">>,
        <<S!Stmt(S!Assign("a", Plus(S!Binary(S!Var("arg1"), "*", S!IntLit(2)), S!Var("arg2")))),
          S!Stmt(S!Var("a"))>>),
      Set("a", 5),
      S!Stmt(Plus(Plus(S!Var("a"), S!Call("fkt", <<S!IntLit(50), S!IntLit(12)>>)), S!Var("a")))>>

\* test4.scr, with its two results in one
\* func test(arg1, arg2) { return arg1 + " | " + arg2; }
\* a = "12345678" + 9;  a = test(a, "abc");
\* b = 1.5 + 2;
\* b + " " + a;
Test4 ==
    <<S!Func("test", <<"arg1", "arg2">>,
        <<S!ReturnValue(Plus(Plus(S!Var("arg1"), S!Str(" | ")), S!Var("arg2")))>>),
      S!Stmt(S!Assign("a", Plus(S!Str("12345678"), S!IntLit(9)))),
      S!Stmt(S!Assign("a", S!Call("test", <<S!Var("a"), S!Str("abc")>>))),
      S!Stmt(S!Assign("b", Plus(S!RealLit(3), S!IntLit(2)))),
      S!Stmt(Plus(Plus(S!Var("b"), S!Str(" ")), S!Var("a")))>>

\* test5.scr, with the text as its result
\* extern func sin, cos, tan, sqrt, pow, print;
\* s = "2^5 = " + pow(2, 5);  print(s + ".");
\* s;
Test5 ==
    <<S!Extern(<<"sin", "cos", "tan", "sqrt", "pow", "print">>),
      S!Stmt(S!Assign("s", Plus(S!Str("2^5 = "), S!Call("pow", <<S!IntLit(2), S!IntLit(5)>>)))),
      Show(Plus(S!Var("s"), S!Str("."))), S!Stmt(S!Var("s"))>>

\* test6.scr, without sleep and with one round
\* extern func set_isr, set_timer, print;
\* func timer_isr() { print("In timer ISR."); }
\* set_isr(0, timer_isr);  set_timer(150);
\* n = 0;
\* loop(n < 1) { print(fac(n % 10) + "."); n = n+1; }
\* func fac(arg1) { if(arg1 <= 1) { return 1; } else { ... } }
\* n;
Test6 ==
    LET n == S!Var("n")
        arg1 == S!Var("arg1")
        one == S!IntLit(1)
    IN  <<S!Extern(<<"set_isr", "set_timer", "print">>),
          S!Func("timer_isr", <<>>, <<Show(S!Str("In timer ISR."))>>),
          Do("set_isr", <<S!IntLit(0), S!Var("timer_isr")>>), Do("set_timer", <<S!IntLit(150)>>),
          Set("n", 0),
          S!Loop(S!Binary(n, "<", one),
            <<Show(Plus(S!Call("fac", <<S!Binary(n, "%", S!IntLit(10))>>), S!Str("."))),
              S!Stmt(S!Assign("n", Plus(n, one)))>>),
          S!Func("fac", <<"arg1">>, <<S!IfElse(S!Binary(arg1, "<=", one), <<S!ReturnValue(one)>>,
              <<S!Stmt(S!Assign("a", arg1)),
                S!Stmt(S!Assign("b", S!Call("fac", <<S!Binary(arg1, "-", one)>>))),
                S!ReturnValue(S!Binary(S!Var("a"), "*", S!Var("b")))>>)>>),
          S!Stmt(n)>>

\* fac.scr, with the loop of its main part
\* extern func input_int, println;
\* func fibo(arg1) { if(arg1 <= 1) { return 1; }
\*     else { a = fibo(arg1-1);  b = fibo(arg1-2);  return a + b; } }
\* loop(1 == 1)
\* { n = input_int();  if(n < 0) { break; }  println("fibo(" + n + ") = " + fibo(n)); }
\* n;
Fibonacci ==
    LET n == S!Var("n")
        arg1 == S!Var("arg1")
        fibo(e) == S!Call("fibo", <<e>>)
    IN  <<S!Extern(<<"input_int", "println">>),
          S!Func("fibo", <<"arg1">>, <<S!IfElse(S!Binary(arg1, "<=", S!IntLit(1)),
              <<S!ReturnValue(S!IntLit(1))>>,
              <<S!Stmt(S!Assign("a", fibo(S!Binary(arg1, "-", S!IntLit(1))))),
                S!Stmt(S!Assign("b", fibo(S!Binary(arg1, "-", S!IntLit(2))))),
                S!ReturnValue(Plus(S!Var("a"), S!Var("b")))>>)>>),
          S!Loop(S!Binary(S!IntLit(1), "==", S!IntLit(1)),
            <<S!Stmt(S!Assign("n", S!Call("input_int", <<>>))),
              S!IfStmt(S!Binary(n, "<", S!IntLit(0)), <<S!Break>>),
              Do("println", <<Plus(Plus(Plus(S!Str("fibo("), n), S!Str(") = ")), fibo(n))>>)>>),
          S!Stmt(n)>>

\* extern func set_eps, get_eps, sqrt, cos, input_real;
\* r = sqrt(9) - cos(0);  set_eps(1.);
\* if(r == 2.5 && input_real() != 9.) { r = (r ^ 2.) % 3. / 0.5; }
\* r + " " + -7/2 + " " + -7%4 + " " + 2^3 + " " + get_eps();
NumbersScript ==
    LET lit(n) == S!IntLit(n)
        real(h) == S!RealLit(h)
        r == S!Var("r")
        sep(x, y) == Plus(Plus(x, S!Str(" ")), y)
        pow2 == S!Binary(r, "^", real(4))
    IN  <<S!Extern(<<"set_eps", "get_eps", "sqrt", "cos", "input_real">>),
          S!Stmt(S!Assign("r", S!Binary(S!Call("sqrt", <<lit(9)>>), "-", S!Call("cos", <<lit(0)>>)))),
          Do("set_eps", <<real(2)>>),
          S!IfStmt(S!Binary(S!Binary(r, "==", real(5)), "&&",
                            S!Binary(S!Call("input_real", <<>>), "!=", real(18))),
                   <<S!Stmt(S!Assign("r", S!Binary(S!Binary(pow2, "%", real(6)), "/", real(1))))>>),
          S!Stmt(sep(sep(sep(sep(r, S!Binary(S!Unary("-", lit(7)), "/", lit(2))),
                             S!Binary(S!Unary("-", lit(7)), "%", lit(4))),
                         S!Binary(lit(2), "^", lit(3))),
                     S!Call("get_eps", <<>>)))>>

\* ~(6 & 3 | 8) xor (1 << 4 >> 2);
BitsScript ==
    LET lit(n) == S!IntLit(n)
    IN  <<S!Stmt(S!Binary(
            S!Unary("~", S!Paren(S!Binary(S!Binary(lit(6), "&", lit(3)), "|", lit(8)))), "xor",
            S!Paren(S!Binary(S!Binary(lit(1), "<<", lit(4)), ">>", lit(2)))))>>

\* extern func foo;
\* foo(7);
UnknownScript == <<S!Extern(<<"foo">>), Do("foo", <<S!IntLit(7)>>)>>

\* extern func sqrt;
\* sqrt(4) + 1;
MistypedScript ==
    <<S!Extern(<<"sqrt">>), S!Stmt(Plus(S!Call("sqrt", <<S!IntLit(4)>>), S!IntLit(1)))>>

\* a = 1;
\* 1.5 + a;
MixedScript == <<Set("a", 1), S!Stmt(Plus(S!RealLit(3), S!Var("a")))>>

\* 1 / (1 - 1);    1 << 64;
DivideScript ==
    <<S!Stmt(S!Binary(S!IntLit(1), "/", S!Paren(S!Binary(S!IntLit(1), "-", S!IntLit(1)))))>>
ShiftScript == <<S!Stmt(S!Binary(S!IntLit(1), "<<", S!IntLit(64)))>>

WithResult ==
    [timer |-> <<TimerScript, Int64(4)>>, factorial |-> <<FactorialScript, Int64(2)>>,
     statements |-> <<StatementsScript, Int64(1)>>, nested |-> <<NestedScript, Int64(1)>>,
     calls |-> <<CallsScript, Int64(6)>>, running |-> <<RunningScript, Int64(5)>>,
     test1 |-> <<Test1, Int64(62)>>, test3 |-> <<Test3, Int64(122)>>,
     test4 |-> <<Test4, Text("3.5 123456789 | abc")>>, test5 |-> <<Test5, Text("2^5 = 32")>>,
     test6 |-> <<Test6, Int64(1)>>, fibonacci |-> <<Fibonacci, Int64(-1)>>,
     numbers |-> <<NumbersScript, Text("2 -3 -3 0 1")>>, bits |-> <<BitsScript, Int64(-15)>>,
     unknown |-> <<UnknownScript, Int64(7)>>]

\* Scripts the compiler accepts and that cannot run to their end: they have no
\* result, so they must not halt.
WithoutResult ==
    [endless |-> EndlessScript, chain |-> ChainScript, sleep |-> SleepScript,
     mistyped |-> MistypedScript, mixed |-> MixedScript, divide |-> DivideScript,
     shift |-> ShiftScript]

ByHand == [cast |-> <<CastCode, Text("17.5-5")>>, rotate |-> <<RotateCode, Int64(15)>>]

Names == DOMAIN WithResult \cup DOMAIN WithoutResult \cup DOMAIN ByHand
MCCodeOf ==
    [name \in Names |-> IF name \in DOMAIN ByHand THEN ByHand[name][1]
                        ELSE IF name \in DOMAIN WithResult THEN Code(WithResult[name][1])
                        ELSE Code(WithoutResult[name])]
MCResultOf ==
    [name \in Names |-> IF name \in DOMAIN ByHand THEN ByHand[name][2]
                        ELSE IF name \in DOMAIN WithResult THEN WithResult[name][2] ELSE NoResult]

FourLocals == [locals |-> Code(FourLocalsScript)]
FourLocalsResult == [locals |-> Int64(5)]

\* Where the programs' service routines start.
MCIsrAddr == {7}

MCInputs == {-1, 2}
=============================================================================
