-------------------------------- MODULE MCLL1 --------------------------------
(* Grammars of the tests: tests/expr_simplified.cpp, which is left-recursive  *)
(* without rules that may be empty; expr_simplified_ll1.cpp, for which the    *)
(* recursion is removed; right_recursion.cpp; left_recursion.cpp, where what  *)
(* is left-recursive may be empty; the statements of                         *)
(* src/examples/script.cpp; and three made for this purpose.                 *)
EXTENDS LL1, TLC, SequencesExt

MCTerminal == {"plus", "mult", "open", "close", "symbol", "a", "b",
               "semi", "begin", "end_", "if", "else", "end"}
MCNonTerminal == {"start", "expr", "add", "mul", "factor", "add_prime", "mul_prime",
                  "expr_prime", "S", "As", "As_prime", "A", "stmts", "stmt", "cond"}
MCPrimed ==
    [N \in MCNonTerminal |->
        CASE N = "add" -> "add_prime" [] N = "mul" -> "mul_prime"
          [] N = "expr" -> "expr_prime" [] OTHER -> "As_prime"]

TheRules(rules) == [N \in MCNonTerminal |-> IF N \in DOMAIN rules THEN rules[N] ELSE <<>>]
TheGrammar(nonterms, rules) ==
    [start |-> "start", m_nonterminals |-> nonterms, rules |-> TheRules(rules)]

Ambiguous ==
    TheGrammar(<<"start", "expr">>,
        [start |-> <<<<"expr">>>>,
         expr |-> <<<<"expr", "plus", "expr">>, <<"expr", "mult", "expr">>, <<"symbol">>,
                    <<"open", "expr", "close">>>>])

Layered ==
    TheGrammar(<<"start", "add", "mul", "factor">>,
        [start |-> <<<<"add">>>>,
         add |-> <<<<"add", "plus", "mul">>, <<"mul">>>>,
         mul |-> <<<<"mul", "mult", "factor">>, <<"factor">>>>,
         factor |-> <<<<"open", "add", "close">>, <<"symbol">>>>])

RightRecursion ==
    TheGrammar(<<"start", "S", "As", "A">>,
        [start |-> <<<<"S">>>>, S |-> <<<<"As">>>>,
         As |-> <<<<"A", "As">>, <<"eps">>>>, A |-> <<<<"a", "b">>>>])

\* Two rules begin alike, so this grammar is not LL(1).
Statements ==
    TheGrammar(<<"start", "stmts", "stmt", "expr">>,
        [start |-> <<<<"stmts">>>>,
         stmts |-> <<<<"stmt", "stmts">>, <<"eps">>>>,
         stmt |-> <<<<"expr", "semi">>, <<"if", "expr", "begin", "stmts", "end_">>,
                    <<"if", "expr", "begin", "stmts", "end_", "else", "begin", "stmts", "end_">>>>,
         expr |-> <<<<"symbol">>>>])

\* Two symbols that may be empty in front of one that may not.
Optional ==
    TheGrammar(<<"start", "S", "As", "A">>,
        [start |-> <<<<"S">>>>, S |-> <<<<"As", "A", "symbol">>>>,
         As |-> <<<<"a", "As">>, <<"eps">>>>, A |-> <<<<"b">>, <<"eps">>>>])

LeftRecursion ==
    TheGrammar(<<"start", "S", "As", "A">>,
        [start |-> <<<<"S">>>>, S |-> <<<<"As">>>>,
         As |-> <<<<"As", "A">>, <<"eps">>>>, A |-> <<<<"a", "b">>>>])

\* S and A begin with each other; the call for A made by that for S finds an
\* entry for S.
BeginWithEachOther ==
    TheGrammar(<<"start", "S", "A">>,
        [start |-> <<<<"S">>>>, S |-> <<<<"S", "a">>, <<"A">>, <<"symbol">>>>,
         A |-> <<<<"S", "b">>, <<"semi">>>>])

\* S and A end with each other.
EndWithEachOther ==
    TheGrammar(<<"start", "S", "A">>,
        [start |-> <<<<"S">>>>, S |-> <<<<"a", "S">>, <<"b", "A">>>>,
         A |-> <<<<"b", "A">>, <<"a", "S">>, <<"semi">>>>])

MCGrammars ==
    [ambiguous |-> Ambiguous, layered |-> Layered, right |-> RightRecursion,
     left |-> LeftRecursion, optional |-> Optional, statements |-> Statements,
     begin |-> BeginWithEachOther, end |-> EndWithEachOther]
MCLL1Grammars == {"layered", "right", "optional", "statements"}
-----------------------------------------------------------------------------
\* The least sets that are closed.
RECURSIVE LeastFirst(_), LeastFollow(_, _)
LeastFirst(F) ==
    LET more == [N \in NonTerminal |->
                    F[N] \cup UNION {FirstOf(F, grammar.rules[N][r]) : r \in DOMAIN grammar.rules[N]}]
    IN  IF more = F THEN F ELSE LeastFirst(more)
LeastFollow(F, G) ==
    LET Behind(u) ==
            LET N == grammar.m_nonterminals[u[1]]
                set == FirstOf(F, SubSeq(grammar.rules[N][u[2]], u[3] + 1, Len(grammar.rules[N][u[2]])))
            IN  (set \ {g_eps}) \cup (IF g_eps \in set THEN G[N] ELSE {})
        more == [N \in NonTerminal |->
                    G[N] \cup (IF N = grammar.start THEN {g_end} ELSE {})
                         \cup UNION {Behind(u) : u \in Uses(N)}]
    IN  IF more = G THEN G ELSE LeastFollow(F, more)

Nothing == [N \in NonTerminal |-> {}]

MCSetsSound ==
    result = "none" =>
        LET F == LeastFirst(Nothing) IN SetsSound(F, LeastFollow(F, Nothing))

\* History: which call has read the entry of which nonterminal, to add all of it,
\* while another call was still to store that entry.
VARIABLE early

Reads(N) == \E k \in 1 .. Len(frames) - 1 : frames[k].nonterm = N /\ N # top.nonterm
MCInit == LL1Init /\ early = {}
MCNext ==
    /\ LL1Next
    /\ early' = early
           \cup (IF AddFirst /\ Reads(sym_) THEN {<<"first", top.nonterm, sym_>>} ELSE {})
           \cup (IF AddFollow /\ NothingBehind /\ Reads(lhs)
                 THEN {<<"follow", top.nonterm, lhs>>} ELSE {})
MCSpec == MCInit /\ [][MCNext]_<<ffvars, ll1vars, early>>

\* What is lost when calc_first and calc_follow read entries that are not
\* finished.  A rule that begins with its own nonterminal adds nothing to FIRST,
\* also where that nonterminal may be empty; else all that a rule begins with is
\* there, and all that may follow, except from a nonterminal whose entry was
\* read by a call inside the one that was to store it.
SetsComplete ==
    phase = "done" =>
        LET F == [N \in NonTerminal |-> At(m_first, N)]
            G == [N \in NonTerminal |-> At(m_follow, N)]
            Early(N, rhs) == \E X \in Range(rhs) : <<"first", N, X>> \in early
            Others(N) == {r \in DOMAIN grammar.rules[N] : ~Recursive(N, grammar.rules[N][r])}
            Behind(rhs, i) == FirstOf(F, SubSeq(rhs, i + 1, Len(rhs)))
        IN  /\ \A N \in NonTerminal :
                   /\ \A r \in Others(N) :
                          \/ FirstOf(F, grammar.rules[N][r]) \subseteq F[N]
                          \/ Early(N, grammar.rules[N][r])
                   /\ F[N] \subseteq UNION {FirstOf(F, grammar.rules[N][r]) : r \in Others(N)}
            /\ g_end \in G[grammar.start]
            /\ \A u \in UNION {Uses(N) : N \in NonTerminal} :
                   LET N == grammar.m_nonterminals[u[1]]
                       rhs == grammar.rules[N][u[2]]
                       X == rhs[u[3]]
                   IN  /\ Behind(rhs, u[3]) \ {g_eps} \subseteq G[X]
                       /\ g_eps \in Behind(rhs, u[3]) =>
                              G[N] \subseteq G[X] \/ <<"follow", X, N>> \in early

\* The language of a grammar, as far as words of MaxTokens symbols go.
MaxTokens == 4
AsRules(rules) ==
    [x \in UNION {{N} \X DOMAIN rules[N] : N \in NonTerminal} |->
        [lhs |-> x[1], rhs |-> IF rules[x[1]][x[2]] = <<g_eps>> THEN <<>> ELSE rules[x[1]][x[2]]]]
WordsBefore(rules) ==
    INSTANCE Language WITH LangTerminal <- MCTerminal, LangNonTerminal <- MCNonTerminal,
                           LangRules <- AsRules(rules), LangLength <- MaxTokens
SentencesOf == [n \in DOMAIN Grammars |-> WordsBefore(Grammars[n].rules)!Sentences]

\* RemoveLeftRecursion does not change the sentences of the grammar.
RemovalKeepsLanguage ==
    result = "ready" /\ grammar.rules # Grammars[name].rules =>
        WordsBefore(grammar.rules)!Sentences = SentencesOf[name]

-----------------------------------------------------------------------------
\* Every vector of at most MaxTokens of the tokens of a grammar, for the order of
\* nonterminals of the test and without left recursion.
TokensOf(g) ==
    (UNION {UNION {ToSet(g.rules[N][r]) : r \in DOMAIN g.rules[N]} : N \in NonTerminal}) \cap Terminal
InListedOrder(g) ==
    \E n \in LL1Grammars : IsPrefix(Grammars[n].m_nonterminals, g.m_nonterminals)
LeftRecursive(g) == \E N \in NonTerminal : \E r \in DOMAIN g.rules[N] : g.rules[N][r][1] = N
MCInputs(g) ==
    IF InListedOrder(g) /\ ~LeftRecursive(g)
    THEN {Append(w, g_end) : w \in UNION {[1 .. n -> TokensOf(g)] : n \in 0 .. MaxTokens}}
    ELSE {}
MCParsesSentences ==
    ParsesSentences(LAMBDA n, word : word \in SentencesOf[n])
=============================================================================
