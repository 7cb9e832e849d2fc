--------------------------------- MODULE LL1 ---------------------------------
(***************************************************************************)
(* The LL(1) table of an analysed grammar, and the recursive-descent parser  *)
(* that is printed for it: a function for each nonterminal, which chooses a  *)
(* rule by the look-ahead, then matches the rule's terminals and calls the   *)
(* functions of its nonterminals.                                            *)
(***************************************************************************)
EXTENDS FirstFollow

\* The token vectors the printed parser of a grammar is run on; they end with
\* g_end.
CONSTANT Inputs(_)

ASSUME InputsAssumption ==
    \A g \in DOMAIN Grammars : \A o \in Ordered(Grammars[g]) : \A tokens \in Inputs(o) :
        tokens \in Seq(Terminal) /\ tokens # <<>> /\ tokens[Len(tokens)] = g_end

VARIABLES
    m_table,                \* the rules by nonterminal and look-ahead
    input, la,              \* the tokens and the place of the look-ahead
    functions,              \* the calls: nonterminal, rule and symbol reached
    result                  \* "none", "running", "returned", "error"

ll1vars == <<m_table, input, la, functions, result>>

LL1Init ==
    /\ FFInit
    /\ m_table = <<>> /\ input = <<>> /\ la = 1 /\ functions = <<>> /\ result = "none"

\* (mutant) epsilon is dropped with nothing in its place
GetLookaheadsOfFirst(N, r) == m_first_per_rule[N][r] \ {g_eps}

GetLookaheads(N, r) ==
    LET first == m_first_per_rule[N][r]
    IN  (first \ {g_eps}) \cup (IF g_eps \in first THEN m_follow[N] ELSE {})

RulesAt(N, t) == {r \in DOMAIN grammar.rules[N] : t \in GetLookaheads(N, r)}
FirstIn(set) == CHOOSE r \in set : \A s \in set : r <= s
LastIn(set) == CHOOSE r \in set : \A s \in set : s <= r

\* (mutant) a later rule takes the place of an earlier one
EntryLast(N, t) == LastIn(RulesAt(N, t))

\* A map does not insert what it has.
Entry(N, t) == FirstIn(RulesAt(N, t))

CalcTable ==
    /\ phase = "done" /\ result = "none"
    /\ m_table' = [N \in Range(grammar.m_nonterminals) |->
                      [t \in {u \in Terminal : RulesAt(N, u) # {}} |-> Entry(N, t)]]
    /\ result' = "ready"
    /\ UNCHANGED <<ffvars, input, la, functions>>

-----------------------------------------------------------------------------
Entered(N) == [nonterm |-> N, rule |-> 0, sym |-> 1]
Running == result = "running" /\ functions # <<>>
active == functions[Len(functions)]
outer == SubSeq(functions, 1, Len(functions) - 1)
body == grammar.rules[active.nonterm][active.rule]
InBody == Running /\ active.rule # 0 /\ active.sym <= Len(body)
next_ == Append(outer, [active EXCEPT !.sym = @ + 1])

Begin ==
    /\ result = "ready"
    /\ \E tokens \in Inputs(grammar) : input' = tokens
    /\ functions' = <<Entered(grammar.start)>>
    /\ result' = "running"
    /\ UNCHANGED <<ffvars, m_table, la>>

\* if ... else if: the first rule that has the look-ahead.
Choose ==
    /\ Running /\ active.rule = 0
    /\ LET rules == RulesAt(active.nonterm, input[la])
       IN  /\ functions' = IF rules = {} THEN functions
                           ELSE Append(outer, [active EXCEPT !.rule = FirstIn(rules)])
           /\ result' = IF rules = {} THEN "error" ELSE result
    /\ UNCHANGED <<ffvars, m_table, input, la>>

\* match_token, for which nothing is printed if there is only epsilon.
Match ==
    /\ InBody /\ body[active.sym] \notin NonTerminal
    /\ LET sym == body[active.sym]
       IN  /\ la' = IF sym = input[la] THEN la + 1 ELSE la
           /\ functions' = IF sym \in {g_eps, input[la]} THEN next_ ELSE functions
           /\ result' = IF sym \in {g_eps, input[la]} THEN result ELSE "error"
    /\ UNCHANGED <<ffvars, m_table, input>>

CallFunction ==
    /\ InBody /\ body[active.sym] \in NonTerminal
    /\ functions' = Append(next_, Entered(body[active.sym]))
    /\ UNCHANGED <<ffvars, m_table, input, la, result>>

ReturnFunction ==
    /\ Running /\ active.rule # 0 /\ active.sym > Len(body)
    /\ functions' = outer
    /\ result' = IF outer = <<>> THEN "returned" ELSE result
    /\ UNCHANGED <<ffvars, m_table, input, la>>

LL1Done ==
    /\ result \in {"returned", "error"} \/ (result = "ready" /\ Inputs(grammar) = {})
    /\ UNCHANGED <<ffvars, ll1vars>>

Analyse == FFStep /\ UNCHANGED ll1vars

LL1Next ==
    \/ Analyse \/ CalcTable
    \/ Begin \/ Choose \/ Match \/ CallFunction \/ ReturnFunction \/ LL1Done

LL1Spec == LL1Init /\ [][LL1Next]_<<ffvars, ll1vars>>

-----------------------------------------------------------------------------
\* The rule in the table for the function's look-ahead, if there is one.
Cell(N, t) == IF t \in DOMAIN m_table[N] THEN m_table[N][t] ELSE 0

\* The table and the printed parser agree although each is made in its own
\* way: a function enters the rule of its table cell, also where the cell has
\* several candidates, and it fails only where the table has no entry.
TableIsParser ==
    [][Choose => Cell(active.nonterm, input[la]) =
                     functions'[Len(functions)].rule]_<<ffvars, ll1vars>>

IsLL1 ==
    \A N \in DOMAIN m_table : \A t \in Terminal : \A r, s \in RulesAt(N, t) : r = s

\* If no two rules compete for a cell, the printed parser comes to the end of
\* its input if and only if the input is a sentence of the grammar as it was
\* before its left recursion was removed.
ParsesSentences(IsSentence(_, _)) ==
    result \in {"returned", "error"} /\ IsLL1 =>
        ((result = "returned" /\ la = Len(input))
            <=> IsSentence(name, SubSeq(input, 1, Len(input) - 1)))
=============================================================================
