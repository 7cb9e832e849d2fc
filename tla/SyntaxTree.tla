----------------------------- MODULE SyntaxTree -----------------------------
(***************************************************************************)
(* The nodes of the syntax tree, codegen/ast.h: for each class its           *)
(* constructor, and the two passes the script compiler makes over the tree   *)
(* before it generates code.  A node has the symbol it stands for, which     *)
(* also gives its table index, its data type, its children and what else     *)
(* its class keeps.  A null child is left out.  Line numbers, which only     *)
(* occur in messages, are not modelled.                                     *)
(***************************************************************************)
EXTENDS Integers, Sequences, SequencesExt

\* ASTBase
Node(type, id, kids, attr) ==
    [type |-> type, id |-> id, ty |-> "UNKNOWN", kids |-> kids, attr |-> attr]

SetDataType(ast, ty) == [ast EXCEPT !.ty = ty]

ASTToken(id, lval) ==
    Node("TOKEN", id, <<>>, [val |-> lval, islval |-> FALSE, isident |-> FALSE])

SetIdent(token)  == [token EXCEPT !.attr.isident = TRUE]
SetLValue(token) == [token EXCEPT !.attr.islval = TRUE]

ASTDelegate(id, arg1)           == Node("DELEGATE", id, <<arg1>>, {})
ASTUnary(id, arg1, opid)        == Node("UNARY", id, <<arg1>>, opid)
ASTBinary(id, arg1, arg2, opid) == Node("BINARY", id, <<arg1, arg2>>, opid)
ASTList(id)                     == Node("LIST", id, <<>>, {})

AddChild(list, ast, front) ==
    [list EXCEPT !.kids = IF front THEN <<ast>> \o @ ELSE Append(@, ast)]

\* The else block is a third child, or there is none.
ASTCondition(id, cond, ifblock, elseblock) ==
    Node("CONDITION", id, <<cond, ifblock>> \o elseblock, {})

ASTLoop(id, cond, block)       == Node("LOOP", id, <<cond, block>>, {})
ASTFunc(id, name, args, block) == Node("FUNC", id, <<args, block>>, name)
ASTFuncCall(id, name, args)    == Node("FUNCCALL", id, <<args>>, name)

\* expr is empty or has one node.
ASTJump(id, jumptype, expr)    == Node("JUMP", id, expr, jumptype)
ASTDeclare(id, is_external, is_func, idents) ==
    Node("DECLARE", id, <<idents>>, [external |-> is_external, func |-> is_func])

\* NumArgs, NumIdents: of the list of arguments or identifiers.
NumArgs(list) == IF list.type = "LIST" THEN Len(list.kids) ELSE 1

\* ASTDeclare::GetIdent, for all of them.
Idents(declare) ==
    {declare.kids[1].kids[i].attr.val : i \in DOMAIN declare.kids[1].kids}

\* The delegate nodes are skipped.
RECURSIVE cst_to_ast(_)
cst_to_ast(cst) ==
    LET kids == [i \in DOMAIN cst.kids |-> cst_to_ast(cst.kids[i])]
    IN  IF cst.type = "DELEGATE" THEN kids[1] ELSE [cst EXCEPT !.kids = kids]

derive_data_type(ty1, ty2) ==
    IF ty1 = ty2 THEN ty1
    ELSE IF "STR" \in {ty1, ty2} THEN "STR"
    ELSE IF {ty1, ty2} = {"INT", "REAL"} THEN "REAL"
    ELSE "UNKNOWN"

\* A node with one or two children gets its data type from them.
RECURSIVE DeriveDataType(_)
DeriveDataType(ast) ==
    LET kids == [i \in DOMAIN ast.kids |-> DeriveDataType(ast.kids[i])]
    IN  [ast EXCEPT !.kids = kids,
                    !.ty   = CASE Len(kids) = 1 -> kids[1].ty
                               [] Len(kids) = 2 -> derive_data_type(kids[1].ty, kids[2].ty)
                               [] OTHER         -> @]
=============================================================================
