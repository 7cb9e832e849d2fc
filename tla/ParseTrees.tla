----------------------------- MODULE ParseTrees -----------------------------
(***************************************************************************)
(* What a parser is for: the sentences of the grammar, given by their trees, *)
(* and what the tables have to hold so that no sentence is rejected.         *)
(*                                                                         *)
(* The nodes of a tree are numbered in the order in which a bottom-up       *)
(* parser makes them, a node behind its children.                          *)
(***************************************************************************)
EXTENDS LRParser

CONSTANTS
    LookAheads,             \* for each state its elements with a look-ahead: <<rule, cursor, terminal>>
    Nullable, First,        \* the nonterminals that may be empty; what each may begin with
    KnownSentences          \* sentences of the grammar: their tokens, END included, and a tree

-----------------------------------------------------------------------------
(* Trees *)

\* first is the first node of the subtree, to the token behind it.
TreeNode == [sym : Terminal \cup NonTerminal, rule : RuleNr \cup {NoRule},
             kids : Seq(Nat), first : Nat, to : Nat]

\* The token to be read when m nodes have been made.
NextToken(T, m) == IF m = 0 THEN 1 ELSE T[m].to

\* The last node of the first d children of node m.
KidsEnd(T, m, d) == IF d = 0 THEN T[m].first - 1 ELSE T[m].kids[d]

IsToken(T, tokens, m) ==
    /\ T[m].rule = NoRule
    /\ T[m].first = m
    /\ NextToken(T, m - 1) \in DOMAIN tokens
    /\ T[m].sym = tokens[NextToken(T, m - 1)]
    /\ T[m].to = NextToken(T, m - 1) + 1

\* The children make up the right-hand side, each begins behind the one before.
IsReduction(T, m) ==
    LET r == T[m].rule
        n == Len(T[m].kids)
    IN  /\ r \in RuleNr
        /\ T[m].sym = Rules[r].lhs
        /\ n = Len(Rhs(r))
        /\ \A j \in 1 .. n :
               /\ T[m].kids[j] \in 1 .. m - 1
               /\ T[T[m].kids[j]].sym = Rhs(r)[j]
               /\ T[T[m].kids[j]].first = KidsEnd(T, m, j - 1) + 1
        /\ KidsEnd(T, m, n) = m - 1
        /\ T[m].to = NextToken(T, m - 1)

IsForest(T, tokens) == \A m \in 1 .. Len(T) : IsToken(T, tokens, m) \/ IsReduction(T, m)

\* The tree of a sentence: the start rule is at its root, and END behind it.
IsTree(T, tokens) ==
    /\ T # <<>>
    /\ IsForest(T, tokens)
    /\ T[Len(T)].rule = 0 /\ T[Len(T)].first = 1
    /\ T[Len(T)].to = Len(tokens) /\ tokens[Len(tokens)] = END

IsSentence(tokens) == \E T \in Seq(TreeNode) : IsTree(T, tokens)

ASSUME SentencesAssumption ==
    \A s \in KnownSentences :
        s.tokens \in Seq(Terminal) /\ s.tree \in Seq(TreeNode) /\ IsTree(s.tree, s.tokens)

-----------------------------------------------------------------------------
(* Complete tables *)

\* What a word of the symbol may begin with, and what may stand behind the c-th
\* symbol of a right-hand side when a stands behind all of it (calc_first).
FirstOf(X) == IF X \in Terminal THEN {X} ELSE First[X]
AllNullable(r, from, to) == \A i \in from .. to : Rhs(r)[i] \in Nullable
FirstBehind(r, c, a) ==
    LET Reached == {i \in c + 1 .. Len(Rhs(r)) : AllNullable(r, c + 1, i - 1)}
    IN  (UNION {FirstOf(Rhs(r)[i]) : i \in Reached})
            \cup (IF AllNullable(r, c + 1, Len(Rhs(r))) THEN {a} ELSE {})

ASSUME FirstAssumption ==
    /\ Nullable \subseteq NonTerminal /\ First \in [NonTerminal -> SUBSET Terminal]
    /\ \A r \in RuleNr :
           /\ AllNullable(r, 1, Len(Rhs(r))) => Rules[r].lhs \in Nullable
           /\ \A i \in 1 .. Len(Rhs(r)) :
                  AllNullable(r, 1, i - 1) => FirstOf(Rhs(r)[i]) \subseteq First[Rules[r].lhs]

\* State s leads on with the symbol behind the cursor and has the rules of it;
\* a finished element is in the table.
CompleteFor(s, r, d, a) ==
    /\ d < Len(Rhs(r)) =>
           LET X == Rhs(r)[d + 1]
           IN  /\ Goto(s, X) # ERROR_VAL
               /\ <<r, d + 1, a>> \in LookAheads[Goto(s, X)]
               /\ \A q \in RuleNr, t \in FirstBehind(r, d + 1, a) :
                      Rules[q].lhs = X => <<q, 0, t>> \in LookAheads[s]
    /\ d = Len(Rhs(r)) => m_tabActionReduce[s][a] = IF r = 0 THEN ACCEPT_VAL ELSE r

\* The first closure is begun with the start rule, which no rule uses.
ASSUME CompleteAssumption ==
    /\ LookAheads \in [State -> SUBSET (RuleNr \X Nat \X Terminal)]
    /\ <<0, 0, END>> \in LookAheads[0]
    /\ \A s \in State : \A x \in LookAheads[s] : CompleteFor(s, x[1], x[2], x[3])
    /\ \A r \in RuleNr : \A i \in 1 .. Len(Rhs(r)) : Rhs(r)[i] # Rules[0].lhs

-----------------------------------------------------------------------------
\* What has been read, the current token included, is how sentence s begins.
Begins(s) ==
    inputidx <= Len(s.tokens) /\ \A i \in 1 .. inputidx : input[i] = s.tokens[i]

\* As long as the tokens read are how some sentence begins, Parse throws no
\* error and asks for no token behind the last one; it accepts the sentence at
\* its end and not before.  So no sentence is rejected, and an error means that
\* no sentence begins with what has been read.
NoSentenceRejected ==
    \A s \in KnownSentences :
        Begins(s) =>
            /\ result # "error"
            /\ result \in {"accept", "underflow"} =>
                   (result = "accept") = (inputidx = Len(s.tokens))
=============================================================================
