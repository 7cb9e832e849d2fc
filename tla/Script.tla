------------------------------- MODULE Script -------------------------------
(***************************************************************************)
(* The script language, examples/script.cpp: its grammar, the semantic rules *)
(* that build the syntax tree, and the opcodes of its operators.  A           *)
(* derivation is [rule, args] with derivations and tokens for args.          *)
(***************************************************************************)
EXTENDS SyntaxTree, TLC

If == <<"if", "(", "bool_expr", ")", "{", "stmts", "}">>

\* The right-hand sides of create_grammar, by their left-hand sides.
ExprRules ==
    (1 :> <<"expr", "+", "expr">>) @@ (2 :> <<"expr", "-", "expr">>) @@
    (3 :> <<"expr", "*", "expr">>) @@ (4 :> <<"expr", "/", "expr">>) @@
    (5 :> <<"expr", "%", "expr">>) @@ (6 :> <<"expr", "^", "expr">>) @@
    (7 :> <<"(", "expr", ")">>) @@ (8 :> <<"ident", "(", "exprs", ")">>) @@
    (9 :> <<"real">>) @@ (10 :> <<"int">>) @@ (11 :> <<"str">>) @@ (12 :> <<"ident">>) @@
    (13 :> <<"-", "expr">>) @@ (14 :> <<"+", "expr">>) @@ (15 :> <<"ident", "=", "expr">>) @@
    (46 :> <<"~", "expr">>) @@ (47 :> <<"expr", "&", "expr">>) @@
    (48 :> <<"expr", "|", "expr">>) @@ (49 :> <<"expr", "xor", "expr">>) @@
    (50 :> <<"expr", "<<", "expr">>) @@ (51 :> <<"expr", ">>", "expr">>)

StmtsRules == (16 :> <<"stmt", "stmts">>) @@ (17 :> <<>>)

StmtRules ==
    (18 :> <<"expr", ";">>) @@
    (19 :> If) @@ (20 :> If \o <<"else", "{", "stmts", "}">>) @@
    (21 :> <<"loop", "(", "bool_expr", ")", "{", "stmts", "}">>) @@
    (22 :> <<"func", "ident", "(", "idents", ")", "{", "stmts", "}">>) @@
    (23 :> <<"extern", "func", "idents", ";">>) @@
    (24 :> <<"break", ";">>) @@ (25 :> <<"break", "int", ";">>) @@
    (26 :> <<"continue", ";">>) @@ (27 :> <<"continue", "int", ";">>) @@
    (28 :> <<"return", ";">>) @@ (29 :> <<"return", "expr", ";">>)

BoolRules ==
    (30 :> <<"bool_expr", "&&", "bool_expr">>) @@ (31 :> <<"bool_expr", "||", "bool_expr">>) @@
    (32 :> <<"!", "bool_expr">>) @@ (33 :> <<"(", "bool_expr", ")">>) @@
    (34 :> <<"expr", ">", "expr">>) @@ (35 :> <<"expr", "<", "expr">>) @@
    (36 :> <<"expr", ">=", "expr">>) @@ (37 :> <<"expr", "<=", "expr">>) @@
    (38 :> <<"expr", "==", "expr">>) @@ (39 :> <<"expr", "!=", "expr">>)

IdentsRules == (40 :> <<"ident", ",", "idents">>) @@ (41 :> <<"ident">>) @@ (42 :> <<>>)
ExprsRules  == (43 :> <<"expr", ",", "exprs">>) @@ (44 :> <<"expr">>) @@ (45 :> <<>>)

\* Nonterminals and their rules.
Grammar ==
    [start |-> 0 :> <<"stmts">>, expr |-> ExprRules, stmts |-> StmtsRules,
     stmt |-> StmtRules, bool_expr |-> BoolRules, idents |-> IdentsRules,
     exprs |-> ExprsRules]

Lhs(rule) == CHOOSE N \in DOMAIN Grammar : rule \in DOMAIN Grammar[N]
RhsOf(rule) == Grammar[Lhs(rule)][rule]

-----------------------------------------------------------------------------
(* The semantic rules, by the node they make of their arguments. *)

\* Rules of the form x -> x op x and x -> op x.
BinaryRule(rule, args) ==
    ASTBinary(Lhs(rule), args[1], args[3], RhsOf(rule)[2])
UnaryRule(rule, args) == ASTUnary(Lhs(rule), args[2], RhsOf(rule)[1])

\* Rules 0, 7, 12, 18 and 33 pass on the argument that is no bracket.
DelegateRule(rule, args) ==
    ASTDelegate(Lhs(rule), CASE rule \in {7, 33} -> args[2]
                             [] rule = 12        -> SetIdent(args[1])
                             [] OTHER            -> args[1])

LiteralType == (9 :> "REAL") @@ (10 :> "INT") @@ (11 :> "STR")
LiteralRule(rule, args) ==
    ASTDelegate("expr", SetDataType(args[1], LiteralType[rule]))

CallRule(args) == ASTFuncCall("expr", args[1].attr.val, args[3])

\* The value comes first, then the address it is written to.
AssignRule(args) ==
    ASTBinary("expr", args[3],
              SetDataType(SetLValue(SetIdent(args[1])), args[3].ty), "=")

ConditionRule(args) ==
    ASTCondition("stmt", args[3], args[6], IF Len(args) > 7 THEN <<args[10]>> ELSE <<>>)
LoopRule(args)   == ASTLoop("stmt", args[3], args[6])
FuncRule(args)   == ASTFunc("stmt", args[2].attr.val, args[4], args[7])
ExternRule(args) == ASTDeclare("stmt", TRUE, TRUE, args[3])

\* break, continue and return, with and without an argument.
JumpRule(rule, args) ==
    ASTJump("stmt", RhsOf(rule)[1], IF Len(args) > 2 THEN <<args[2]>> ELSE <<>>)

\* Statements and identifiers are put in front of the list of the rest, but
\* arguments behind it: the list of the arguments is in reverse order.
StmtsRule(rule, args) ==
    IF rule = 16 THEN AddChild(args[2], args[1], TRUE) ELSE ASTList("stmts")
IdentsRule(rule, args) ==
    CASE rule = 40 -> AddChild(args[3], SetIdent(args[1]), TRUE)
      [] rule = 41 -> AddChild(ASTList("idents"), SetIdent(args[1]), TRUE)
      [] rule = 42 -> ASTList("idents")

ExprsRule(rule, args) ==
    CASE rule = 43 -> AddChild(args[3], args[1], FALSE)
      [] rule = 44 -> AddChild(ASTList("exprs"), args[1], FALSE)
      [] rule = 45 -> ASTList("exprs")

SemanticRule(rule, args) ==
    CASE rule \in {0, 7, 12, 18, 33}    -> DelegateRule(rule, args)
      [] rule \in DOMAIN LiteralType    -> LiteralRule(rule, args)
      [] rule \in {13, 14, 32, 46}      -> UnaryRule(rule, args)
      [] rule = 8                       -> CallRule(args)
      [] rule = 15                      -> AssignRule(args)
      [] rule \in DOMAIN StmtsRules     -> StmtsRule(rule, args)
      [] rule \in {19, 20}              -> ConditionRule(args)
      [] rule = 21                      -> LoopRule(args)
      [] rule = 22                      -> FuncRule(args)
      [] rule = 23                      -> ExternRule(args)
      [] rule \in 24 .. 29              -> JumpRule(rule, args)
      [] rule \in DOMAIN IdentsRules    -> IdentsRule(rule, args)
      [] rule \in DOMAIN ExprsRules     -> ExprsRule(rule, args)
      [] OTHER                          -> BinaryRule(rule, args)

IsToken(d) == "type" \in DOMAIN d

\* The parser applies the rule of a reduction to the nodes of its arguments.
RECURSIVE Reduction(_)
Reduction(d) ==
    IF IsToken(d) THEN d
    ELSE SemanticRule(d.rule, [i \in DOMAIN d.args |-> Reduction(d.args[i])])

\* The tree the code is generated from.
Tree(d) == DeriveDataType(cst_to_ast(Reduction(d)))

\* ops: not every operator of the grammar has an opcode.
Opcodes ==
    ("+" :> "ADD") @@ ("-" :> "SUB") @@ ("*" :> "MUL") @@ ("/" :> "DIV") @@
    ("%" :> "MOD") @@ ("^" :> "POW") @@ ("=" :> "WRMEM") @@
    ("&" :> "BINAND") @@ ("|" :> "BINOR") @@ ("~" :> "BINNOT") @@
    (">" :> "GT") @@ ("<" :> "LT") @@ ("==" :> "EQU") @@ ("!=" :> "NEQU") @@
    (">=" :> "GEQU") @@ ("<=" :> "LEQU") @@ ("&&" :> "AND") @@ ("||" :> "OR") @@
    ("xor" :> "BINXOR") @@ ("<<" :> "SHL") @@ (">>" :> "SHR")
=============================================================================
