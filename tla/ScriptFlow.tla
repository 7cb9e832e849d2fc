----------------------------- MODULE ScriptFlow -----------------------------
(***************************************************************************)
(* What a script means, apart from how code is generated for it: whether it  *)
(* is well-formed, and in which order its statements may be executed.  The   *)
(* same order is read off the generated code.  A point of execution is seen   *)
(* by the number it evaluates, so the numbers of a script are chosen to be    *)
(* different and at least FirstMark; smaller ones are not seen.             *)
(***************************************************************************)
EXTENDS CodeGen

FirstMark == 10

-----------------------------------------------------------------------------
(* The places of a tree.  A place is the sequence of child numbers to it. *)

RECURSIVE Places(_), NodeAt(_, _)
Places(ast) ==
    {<<>>} \cup UNION {{<<i>> \o p : p \in Places(ast.kids[i])} : i \in DOMAIN ast.kids}
NodeAt(ast, p) == IF p = <<>> THEN ast ELSE NodeAt(ast.kids[Head(p)], Tail(p))

PlacesOf(ast, type) == {p \in Places(ast) : NodeAt(ast, p).type = type}

\* p is read before q: it encloses q or is to the left of it.
Before(p, q) ==
    \/ IsStrictPrefix(p, q)
    \/ \E i \in DOMAIN p \cap DOMAIN q :
           SubSeq(p, 1, i - 1) = SubSeq(q, 1, i - 1) /\ p[i] < q[i]

\* What encloses p, from the outside.
Enclosing(ast, p, type) == {q \in PlacesOf(ast, type) : IsStrictPrefix(q, p)}

\* A call is of the last definition before it, or else the last of all; none
\* if the function is declared to be external.
IsExternal(ast, p) ==
    \E q \in PlacesOf(ast, "DECLARE") :
        Before(q, p) /\ NodeAt(ast, p).attr \in Idents(NodeAt(ast, q))
Definitions(ast, p) ==
    LET named == {q \in PlacesOf(ast, "FUNC") : NodeAt(ast, q).attr = NodeAt(ast, p).attr}
        known == {q \in named : Before(q, p)}
        cands == IF known # {} THEN known ELSE named
    IN  {q \in cands : ~ \E r \in cands : Before(q, r)}

\* The loops around p in the function that p is in.
LoopsAround(ast, p) ==
    {q \in Enclosing(ast, p, "LOOP") :
        ~ \E f \in Enclosing(ast, p, "FUNC") : IsStrictPrefix(q, f)}

Resolved(ast, p) ==
    \/ IsExternal(ast, p)
    \/ \E q \in Definitions(ast, p) :
           NumArgs(NodeAt(ast, q).kids[1]) = NumArgs(NodeAt(ast, p).kids[1])

JumpAllowed(ast, p) ==
    IF NodeAt(ast, p).attr = "return" THEN Enclosing(ast, p, "FUNC") # {}
    ELSE LoopsAround(ast, p) # {}

WellFormed(ast) ==
    /\ \A p \in PlacesOf(ast, "FUNC")     : Enclosing(ast, p, "FUNC") = {}
    /\ \A p \in PlacesOf(ast, "JUMP")     : JumpAllowed(ast, p)
    /\ \A p \in PlacesOf(ast, "FUNCCALL") : Resolved(ast, p)
    /\ \A p \in PlacesOf(ast, "UNARY") \cup PlacesOf(ast, "BINARY") :
           NodeAt(ast, p).attr \in DOMAIN Opcodes

-----------------------------------------------------------------------------
(* The order of execution that the tree asks for: first is what may be seen   *)
(* first, edges what may be seen after what.  After a node comes `after`.     *)
(* env has the targets of the jumps: the loops of the function, where a return *)
(* goes, and whether the calls count.                                       *)

Mark(n) == {<<"at", n>>}
Flow(first, edges) == [first |-> first, edges |-> edges]
Nothing(after) == Flow(after, {})
Then(flow, edges) == Flow(flow.first, flow.edges \cup edges)

IsMark(ast) ==
    /\ ast.type = "TOKEN" /\ ast.ty = "INT" /\ ~ ast.attr.isident
    /\ ast.attr.val >= FirstMark

TargetLoop(jump, loops) ==
    LET depth == IF jump.kids = <<>> THEN 0 ELSE jump.kids[1].attr.val
    IN  loops[IF depth < Len(loops) THEN Len(loops) - depth ELSE 1]

RECURSIVE FlowOf(_, _, _, _), FlowOfAll(_, _, _, _, _)

\* Of the children from number i on.
FlowOfAll(ast, p, i, after, env) ==
    IF i > Len(NodeAt(ast, p).kids) THEN Nothing(after)
    ELSE LET rest == FlowOfAll(ast, p, i + 1, after, env)
         IN  Then(FlowOf(ast, Append(p, i), rest.first, env), rest.edges)

FlowOfBody(ast, p, calls) ==
    LET return == {<<"ret", NumArgs(NodeAt(ast, p).kids[1])>>}
    IN  FlowOf(ast, Append(p, 2), return, [loops |-> <<>>, ret |-> return, calls |-> calls])

\* The function that is called is seen by what it may do first.
Called(ast, p) ==
    IF IsExternal(ast, p) THEN {}
    ELSE {<<"call", FlowOfBody(ast, q, FALSE).first>> : q \in Definitions(ast, p)}

FlowOfCondition(ast, p, after, env) ==
    LET kid(i) == FlowOf(ast, Append(p, i), after, env)
        else   == IF Len(NodeAt(ast, p).kids) = 3 THEN kid(3) ELSE Nothing(after)
    IN  Then(FlowOf(ast, Append(p, 1), kid(2).first \cup else.first, env),
             kid(2).edges \cup else.edges)

FlowOfLoop(ast, p, after, env) ==
    LET cond(next) == FlowOf(ast, Append(p, 1), next, env)
        begin == cond({}).first
        loop  == [begin |-> begin, end |-> after]
        block == FlowOf(ast, Append(p, 2), begin, [env EXCEPT !.loops = Append(@, loop)])
    IN  Then(cond(block.first \cup after), block.edges)

FlowOfJump(ast, p, env) ==
    LET node == NodeAt(ast, p)
    IN  CASE node.attr = "return"   -> FlowOfAll(ast, p, 1, env.ret, env)
          [] node.attr = "break"    -> Nothing(TargetLoop(node, env.loops).end)
          [] node.attr = "continue" -> Nothing(TargetLoop(node, env.loops).begin)

FlowOf(ast, p, after, env) ==
    LET node == NodeAt(ast, p)
    IN  CASE node.type = "TOKEN"     ->
                 IF IsMark(node) THEN Flow(Mark(node.attr.val), Mark(node.attr.val) \X after)
                 ELSE Nothing(after)
          [] node.type = "CONDITION" -> FlowOfCondition(ast, p, after, env)
          [] node.type = "LOOP"      -> FlowOfLoop(ast, p, after, env)
          [] node.type = "FUNC"      -> Flow(after, FlowOfBody(ast, p, env.calls).edges)
          [] node.type = "FUNCCALL"  ->
                 FlowOfAll(ast, p, 1, after \cup IF env.calls THEN Called(ast, p) ELSE {}, env)
          [] node.type = "JUMP"      -> FlowOfJump(ast, p, env)
          [] node.type = "DECLARE"   -> Nothing(after)
          [] OTHER                   -> FlowOfAll(ast, p, 1, after, env)

TreeFlow(ast) ==
    LET flow == FlowOf(ast, <<>>, {<<"halt">>}, [loops |-> <<>>, ret |-> {}, calls |-> TRUE])
    IN  Then(flow, {<<"begin">>} \X flow.first)

-----------------------------------------------------------------------------
(* The order of execution of the code. *)

IsOp(code, n, names) == n \in DOMAIN code /\ code[n].ty = "OP" /\ code[n].val \in names

\* The object the jump at n goes to; 0 if no instruction starts there.
JumpTarget(code, n) ==
    LET address == code[n - 1].val + StreamPos(code, n)
        targets == {k \in DOMAIN code : code[k].ty = "OP" /\ StreamPos(code, k - 1) = address}
    IN  IF targets = {} THEN 0 ELSE CHOOSE k \in targets : TRUE

\* The instruction at n is PUSH of a number.
IsPush(code, n) == IsOp(code, n, {"PUSH"}) /\ code[n + 1].ty = "INT"

\* What may be seen first when the code is executed from object n.
RECURSIVE Seen(_, _, _)
Seen(code, n, visited) ==
    LET from(k) == Seen(code, k, visited \cup {n})
    IN  CASE n \in visited -> {}
          [] n \notin visited /\ n \notin DOMAIN code -> {<<"wild">>}
          [] n \notin visited /\ IsPush(code, n) /\ IsOp(code, n + 2, {"RET"}) ->
                 {<<"ret", code[n + 1].val>>}
          [] n \notin visited /\ IsPush(code, n) /\ code[n + 1].val >= FirstMark ->
                 Mark(code[n + 1].val)
          [] OTHER ->
                 CASE IsOp(code, n, {"HALT"})   -> {<<"halt">>}
                   [] IsOp(code, n, {"PUSH"})   -> from(n + 2)
                   [] IsOp(code, n, {"JMP"})    -> from(JumpTarget(code, n))
                   [] IsOp(code, n, {"JMPCND"}) -> from(JumpTarget(code, n)) \cup from(n + 1)
                   [] IsOp(code, n, {"CALL"})   ->
                          {<<"call", from(JumpTarget(code, n))>>} \cup from(n + 1)
                   [] OTHER -> from(n + 1)

CodeFlow(code) ==
    LET marks == {n \in DOMAIN code : /\ IsPush(code, n) /\ code[n + 1].val >= FirstMark
                                      /\ ~ IsOp(code, n + 2, {"RET"})}
    IN  ({<<"begin">>} \X Seen(code, 1, {}))
            \cup UNION {Mark(code[n + 1].val) \X Seen(code, n + 2, {}) : n \in marks}
=============================================================================
