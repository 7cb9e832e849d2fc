------------------------------- MODULE MCStmts -------------------------------
(* The table-driven parser for the statement lists of the script language.    *)
EXTENDS ParseTrees, StmtTables, SequencesExt

MCTerminal == StmtTerminal
MCNonTerminal == StmtNonTerminal
MCRules == StmtRules
MCState == StmtState
MCItems == StmtItems
MCShift == Table(MCTerminal, StmtShift, ERROR_VAL)
MCReduce == Table(MCTerminal, StmtReduce(ACCEPT_VAL), ERROR_VAL)
MCJump == Table(MCNonTerminal, StmtJump, ERROR_VAL)
MCNumRhs == [r \in DOMAIN MCRules |-> Len(MCRules[r].rhs)]

MCNullable == {"start", "stmts"}
MCFirst == [N \in MCNonTerminal |-> {"expr", "if"}]

\* The look-aheads of the elements, through the states as they are made.
RECURSIVE Lookaheads(_)
Lookaheads(las) ==
    LET At(x, X) == x[2] < Len(Rhs(x[1])) /\ Rhs(x[1])[x[2] + 1] = X
        Opened(I) ==
            UNION {{<<q, 0, t>> : q \in {p \in RuleNr : At(x, Rules[p].lhs)},
                                  t \in FirstBehind(x[1], x[2] + 1, x[3])} : x \in I}
        Moved(s) ==
            UNION {UNION {{<<x[1], x[2] + 1, x[3]>> : x \in {y \in las[p] : At(y, X)}} :
                              X \in {Y \in Terminal \cup NonTerminal : Goto(p, Y) = s}} :
                       p \in State}
        next == [s \in State |-> las[s] \cup Opened(las[s]) \cup Moved(s)]
    IN  IF next = las THEN las ELSE Lookaheads(next)
MCLookAheads == Lookaheads([s \in MCState |-> IF s = 0 THEN {<<0, 0, "end">>} ELSE {}])

\* The sentences and their prefixes, without the end token.
MaxTokens == 8
Reference ==
    INSTANCE Language WITH LangTerminal <- MCTerminal, LangNonTerminal <- MCNonTerminal,
                           LangRules <- MCRules, LangLength <- MaxTokens
Words == Reference!Sentences
ViablePrefixes == Reference!ViablePrefixes

\* The trees of symbol X and those of the symbols of a right-hand side, one after
\* the other, for words of up to len tokens.
Behind(f, g) ==
    LET n == Len(f.tree)
        t == Len(f.tokens)
        Moved(node) == [node EXCEPT !.kids = [j \in DOMAIN @ |-> @[j] + n],
                                    !.first = @ + n, !.to = @ + t]
    IN  [tokens |-> f.tokens \o g.tokens,
         tree   |-> f.tree \o [m \in DOMAIN g.tree |-> Moved(g.tree[m])],
         roots  |-> Append(f.roots, n + Len(g.tree))]

RECURSIVE TreesOf(_, _), ForestsOf(_, _)
TreesOf(X, len) ==
    IF X \in MCTerminal
    THEN {[tokens |-> <<X>>,
           tree |-> <<[sym |-> X, rule |-> NoRule, kids |-> <<>>, first |-> 1, to |-> 2]>>] :
              n \in {1} \cap 1 .. len}
    ELSE UNION {{[tokens |-> f.tokens,
                  tree |-> Append(f.tree, [sym |-> X, rule |-> r, kids |-> f.roots, first |-> 1,
                                           to |-> Len(f.tokens) + 1])] :
                     f \in ForestsOf(MCRules[r].rhs, len)} :
                    r \in {q \in DOMAIN MCRules : MCRules[q].lhs = X}}
ForestsOf(syms, len) ==
    IF syms = <<>> THEN {[tokens |-> <<>>, tree |-> <<>>, roots |-> <<>>]}
    ELSE UNION {{Behind(f, g) : g \in TreesOf(Last(syms), len - Len(f.tokens))} :
                    f \in ForestsOf(Front(syms), len)}

AllSentences ==
    {[tokens |-> Append(s.tokens, "end"), tree |-> s.tree] : s \in TreesOf("start", MaxTokens)}
MCSentences == AllSentences
ASSUME SentencesAreTheLanguage == {s.tokens : s \in AllSentences} = {Append(w, "end") : w \in Words}

\* Every prefix of a sentence, alone or followed by any token: Parse reads no
\* token behind the first one it cannot use.
MCInputs ==
    LET short == {w \in ViablePrefixes : Len(w) < MaxTokens}
    IN  {Append(w, "end") : w \in ViablePrefixes}
            \cup {w \o <<t, "end">> : w \in short, t \in MCTerminal \ {"end"}}

\* What has been shifted is the beginning of a sentence, and all of one when
\* Parse accepts: a token that does not fit is never shifted.
ShiftsOnlySentences ==
    LET Consumed == SubSeq(input, 1, inputidx - 1)
    IN  /\ Consumed \in ViablePrefixes
        /\ result = "accept" => Consumed \in Words
=============================================================================
