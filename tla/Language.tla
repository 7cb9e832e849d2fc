------------------------------ MODULE Language ------------------------------
(* The language of a grammar up to a length, as a reference for the parsers. *)
EXTENDS Integers, Sequences, SequencesExt

CONSTANTS LangTerminal, LangNonTerminal, LangRules, LangLength

Short(words) == {w \in words : Len(w) <= LangLength}
Concat(A, B) == Short({a \o b : a \in A, b \in B})

\* The words of a sequence of symbols, given those of each symbol.
WordsOf(lang, syms) == FoldLeft(LAMBDA A, X : Concat(A, lang[X]), {<<>>}, syms)

RulesOf(X) == {r \in DOMAIN LangRules : LangRules[r].lhs = X}

\* The least map from symbols to words that is closed under the rules.
RECURSIVE Words(_)
Words(lang) ==
    LET next == [X \in LangTerminal \cup LangNonTerminal |->
                    IF X \in LangTerminal THEN {<<X>>}
                    ELSE UNION {WordsOf(lang, LangRules[r].rhs) : r \in RulesOf(X)}]
    IN  IF next = lang THEN lang ELSE Words(next)
Lang == Words([X \in LangTerminal \cup LangNonTerminal |-> {}])

\* Likewise for the prefixes of words: words of the symbols in front of some
\* place in a rule, followed by a prefix for the symbol at that place.
RECURSIVE PrefixWords(_)
PrefixWords(pre) ==
    LET next == [X \in LangTerminal \cup LangNonTerminal |->
                    IF X \in LangTerminal THEN {<<>>, <<X>>}
                    ELSE {<<>>} \cup UNION {UNION {
                             Concat(WordsOf(Lang, SubSeq(LangRules[r].rhs, 1, i - 1)),
                                    pre[LangRules[r].rhs[i]])
                             : i \in DOMAIN LangRules[r].rhs} : r \in RulesOf(X)}]
    IN  IF next = pre THEN pre ELSE PrefixWords(next)
LangPrefixes == PrefixWords([X \in LangTerminal \cup LangNonTerminal |-> {}])

Sentences      == Lang["start"]
ViablePrefixes == LangPrefixes["start"]
=============================================================================
