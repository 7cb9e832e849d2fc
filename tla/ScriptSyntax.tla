---------------------------- MODULE ScriptSyntax ----------------------------
(* Writing scripts: derivations of the grammar of module Script. *)
EXTENDS CodeGen

D(rule, args) == [rule |-> rule, args |-> args]
T(symbol)     == ASTToken(symbol, "")
Id(name)      == ASTToken("ident", name)

\* x op y and op x, by the rule that has the operator.
Binary(x, op, y) ==
    D(CHOOSE r \in DOMAIN ExprRules \cup DOMAIN BoolRules :
          Len(RhsOf(r)) = 3 /\ RhsOf(r)[2] = op, <<x, T(op), y>>)
Unary(op, x) ==
    D(CHOOSE r \in {13, 14, 32, 46} : RhsOf(r)[1] = op, <<T(op), x>>)

IntLit(n)       == D(10, <<ASTToken("int", n)>>)
RealLit(n)      == D(9, <<ASTToken("real", n)>>)
Str(s)          == D(11, <<ASTToken("str", s)>>)
Var(name)       == D(12, <<Id(name)>>)
Paren(e)        == D(7, <<T("("), e, T(")")>>)
Assign(name, e) == D(15, <<Id(name), T("="), e>>)

\* A list of expressions, of identifiers, and of statements.
RECURSIVE Exprs(_), Names(_), Block(_)
Exprs(es) ==
    CASE Len(es) = 0 -> D(45, <<>>)
      [] Len(es) = 1 -> D(44, es)
      [] OTHER       -> D(43, <<Head(es), T(","), Exprs(Tail(es))>>)
Names(ns) ==
    CASE Len(ns) = 0 -> D(42, <<>>)
      [] Len(ns) = 1 -> D(41, <<Id(ns[1])>>)
      [] OTHER       -> D(40, <<Id(Head(ns)), T(","), Names(Tail(ns))>>)
Block(stmts) ==
    IF stmts = <<>> THEN D(17, <<>>) ELSE D(16, <<Head(stmts), Block(Tail(stmts))>>)
InBraces(stmts) == <<T("{"), Block(stmts), T("}")>>

Call(name, es) == D(8, <<Id(name), T("("), Exprs(es), T(")")>>)
Stmt(e)        == D(18, <<e, T(";")>>)
IfStmt(b, s)   == D(19, <<T("if"), T("("), b, T(")")>> \o InBraces(s))
IfElse(b, s, t) ==
    D(20, <<T("if"), T("("), b, T(")")>> \o InBraces(s) \o <<T("else")>> \o InBraces(t))
Loop(b, s)     == D(21, <<T("loop"), T("("), b, T(")")>> \o InBraces(s))
Func(name, params, s) ==
    D(22, <<T("func"), Id(name), T("("), Names(params), T(")")>> \o InBraces(s))
Extern(names)  == D(23, <<T("extern"), T("func"), Names(names), T(";")>>)
Break          == D(24, <<T("break"), T(";")>>)
BreakOut(n)    == D(25, <<T("break"), ASTToken("int", n), T(";")>>)
Continue       == D(26, <<T("continue"), T(";")>>)
ContinueOut(n) == D(27, <<T("continue"), ASTToken("int", n), T(";")>>)
Return         == D(28, <<T("return"), T(";")>>)
ReturnValue(e) == D(29, <<T("return"), e, T(";")>>)
=============================================================================
