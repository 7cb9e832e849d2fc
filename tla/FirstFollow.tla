----------------------------- MODULE FirstFollow -----------------------------
(***************************************************************************)
(* The analysis of a grammar: RemoveLeftRecursion, calc_first for each      *)
(* nonterminal and then calc_follow for each.  Both functions call           *)
(* themselves and keep their results in a map, in which the subscript        *)
(* operator makes an empty entry for a nonterminal that has none.  A step is *)
(* one symbol of a rule, one use of a nonterminal, or one call.              *)
(***************************************************************************)
EXTENDS Integers, Sequences, Functions

CONSTANTS
    Terminal, NonTerminal, g_eps, g_end,
    Primed,                 \* the new nonterminal of each that is left-recursive
    Grammars,               \* by a name; m_nonterminals is without repetition
    LL1Grammars             \* the names of those that LL(1) tables are made of

Symbol == Terminal \cup NonTerminal \cup {g_eps}
Grammar == [start : NonTerminal, m_nonterminals : Seq(NonTerminal),
            rules : [NonTerminal -> Seq(Seq(Symbol))]]

\* Epsilon stands alone in its rule, the end symbol in none, and the list of
\* nonterminals that the caller hands over is the whole grammar.
ASSUME GrammarAssumption ==
    /\ g_eps \notin Terminal \cup NonTerminal /\ g_end \in Terminal
    /\ Terminal \cap NonTerminal = {}
    /\ Primed \in [NonTerminal -> NonTerminal]
    /\ LL1Grammars \subseteq DOMAIN Grammars
    /\ \A g \in DOMAIN Grammars :
           /\ Grammars[g] \in Grammar
           /\ Grammars[g].start \in Range(Grammars[g].m_nonterminals)
           /\ \A N \in NonTerminal : \A r \in DOMAIN Grammars[g].rules[N] :
                  LET rhs == Grammars[g].rules[N][r]
                  IN  \A i \in DOMAIN rhs :
                          /\ rhs[i] = g_eps => rhs = <<g_eps>>
                          /\ rhs[i] # g_end
                          /\ rhs[i] \in NonTerminal =>
                                 rhs[i] \in Range(Grammars[g].m_nonterminals)

VARIABLES
    name, grammar,          \* which grammar, and what it has become
    phase,                  \* "recursion", "first", "follow", "done"
    todo,                   \* the nonterminals the caller has not come to
    m_first, m_first_per_rule, m_follow,
    frames                  \* the calls of calc_first or calc_follow

ffvars == <<name, grammar, phase, todo, m_first, m_first_per_rule, m_follow, frames>>

\* (mutant) an entry is inserted only where the map has none
PutOnce(map, N, set) == [X \in DOMAIN map \cup {N} |-> IF X \in DOMAIN map THEN map[X] ELSE set]

\* A map with one entry set.
Put(map, N, set) == [X \in DOMAIN map \cup {N} |-> IF X = N THEN set ELSE map[X]]

\* What map[N] gives.
At(map, N) == IF N \in DOMAIN map THEN map[N] ELSE {}

-----------------------------------------------------------------------------
\* The grammar with its list in any order.
Ordered(g) ==
    LET listed == g.m_nonterminals
    IN  {[g EXCEPT !.m_nonterminals = order] :
            order \in {o \in [DOMAIN listed -> Range(listed)] : Range(o) = Range(listed)}}

\* The caller lists the nonterminals in any order.  Only the analysis for LL(1)
\* tables begins with RemoveLeftRecursion.
FFInit ==
    /\ name \in DOMAIN Grammars
    /\ grammar \in Ordered(Grammars[name])
    /\ phase \in {"first"} \cup (IF name \in LL1Grammars THEN {"recursion"} ELSE {})
    /\ todo = grammar.m_nonterminals
    /\ m_first = <<>> /\ m_first_per_rule = <<>> /\ m_follow = <<>>
    /\ frames = <<>>

Recursive(N, rhs) == rhs # <<>> /\ rhs[1] = N

\* (mutant) the other rules are left as they are
RulesRemovedOnly(N, P) ==
    LET Rec(rhs) == Recursive(N, rhs)
        Other(rhs) == ~Recursive(N, rhs)
        rec == SelectSeq(grammar.rules[N], Rec)
    IN  [grammar.rules EXCEPT
            ![P] = Append([r \in DOMAIN rec |-> Append(Tail(rec[r]), P)], <<g_eps>>),
            ![N] = SelectSeq(@, Other)]

\* The left-recursive rules become right-recursive rules of a new nonterminal
\* P, with which all other rules then end.
RulesWithout(N, P) ==
    LET Rec(rhs) == Recursive(N, rhs)
        Other(rhs) == ~Recursive(N, rhs)
        rec == SelectSeq(grammar.rules[N], Rec)
        others == SelectSeq(grammar.rules[N], Other)
    IN  [grammar.rules EXCEPT
            ![P] = Append([r \in DOMAIN rec |-> Append(Tail(rec[r]), P)], <<g_eps>>),
            ![N] = [r \in DOMAIN others |-> Append(others[r], P)]]

RemoveLeftRecursion ==
    /\ phase = "recursion" /\ todo # <<>>
    /\ LET N == Head(todo)
       IN  grammar' = IF \A r \in DOMAIN grammar.rules[N] : ~Recursive(N, grammar.rules[N][r])
                      THEN grammar
                      ELSE [grammar EXCEPT !.m_nonterminals = Append(@, Primed[N]),
                                           !.rules = RulesWithout(N, Primed[N])]
    /\ todo' = Tail(todo)
    /\ UNCHANGED <<name, phase, m_first, m_first_per_rule, m_follow, frames>>

\* The caller comes to the end of its list.
NextPhase ==
    /\ todo = <<>> /\ frames = <<>>
    /\ phase' = CASE phase = "recursion" -> "first" [] phase = "first" -> "follow"
                  [] OTHER -> "done"
    /\ phase # "done"
    /\ todo' = IF phase' = "done" THEN <<>> ELSE grammar.m_nonterminals
    /\ UNCHANGED <<name, grammar, m_first, m_first_per_rule, m_follow, frames>>

-----------------------------------------------------------------------------
top == frames[Len(frames)]
callers == SubSeq(frames, 1, Len(frames) - 1)

\* The call has come to symbol sym of rule rule; what it has found so far.
FirstFrame(N) ==
    [nonterm |-> N, rule |-> 1, sym |-> 1, found |-> [r \in DOMAIN grammar.rules[N] |-> {}]]

rhs_ == grammar.rules[top.nonterm][top.rule]
InRule == frames # <<>> /\ top.rule <= Len(grammar.rules[top.nonterm])
AtSymbol == phase = "first" /\ InRule /\ top.sym <= Len(rhs_)
sym_ == rhs_[top.sym]

CalcFirst ==
    /\ phase = "first" /\ frames = <<>> /\ todo # <<>>
    /\ todo' = Tail(todo)
    /\ frames' = IF Head(todo) \in DOMAIN m_first THEN <<>> ELSE <<FirstFrame(Head(todo))>>
    /\ UNCHANGED <<name, grammar, phase, m_first, m_first_per_rule, m_follow>>

\* What the rule has found so far, and set.
AlsoFound(set) == [top.found EXCEPT ![top.rule] = @ \cup set]

NextRule(call) == [call EXCEPT !.rule = @ + 1, !.sym = 1]
NextSymbol(call) == [call EXCEPT !.sym = @ + 1]

AddTerminal ==
    /\ phase = "first" /\ frames # <<>> /\ AtSymbol /\ sym_ \notin NonTerminal
    /\ frames' = Append(callers, NextRule([top EXCEPT !.found = AlsoFound({sym_})]))
    /\ UNCHANGED <<name, grammar, phase, todo, m_first, m_first_per_rule, m_follow>>

\* A left-recursive rule does not calculate its own set again.
CallFirst ==
    /\ phase = "first" /\ frames # <<>> /\ AtSymbol
    /\ sym_ \in NonTerminal \ {top.nonterm} /\ sym_ \notin DOMAIN m_first
    /\ frames' = Append(frames, FirstFrame(sym_))
    /\ UNCHANGED <<name, grammar, phase, todo, m_first, m_first_per_rule, m_follow>>

\* (mutant) epsilon is added in the middle of a rule, too
InsertedAlways(set) == set

\* Epsilon counts only behind the last symbol.
Inserted(set) == IF top.sym = Len(rhs_) THEN set ELSE set \ {g_eps}

AddFirst ==
    /\ phase = "first" /\ frames # <<>> /\ AtSymbol
    /\ sym_ \in NonTerminal /\ (sym_ = top.nonterm \/ sym_ \in DOMAIN m_first)
    /\ LET set == At(m_first, sym_)
           more == [top EXCEPT !.found = AlsoFound(Inserted(set))]
       IN  /\ m_first' = Put(m_first, sym_, set)
           /\ frames' = Append(callers,
                  IF g_eps \in set THEN NextSymbol(more) ELSE NextRule(more))
    /\ UNCHANGED <<name, grammar, phase, todo, m_first_per_rule, m_follow>>

EndOfRule ==
    /\ phase = "first" /\ InRule /\ top.sym > Len(rhs_)
    /\ frames' = Append(callers, NextRule(top))
    /\ UNCHANGED <<name, grammar, phase, todo, m_first, m_first_per_rule, m_follow>>

StoreFirst ==
    /\ phase = "first" /\ frames # <<>> /\ ~InRule
    /\ m_first' = Put(m_first, top.nonterm, UNION {top.found[r] : r \in DOMAIN top.found})
    /\ m_first_per_rule' = Put(m_first_per_rule, top.nonterm, top.found)
    /\ frames' = callers
    /\ UNCHANGED <<name, grammar, phase, todo, m_follow>>

-----------------------------------------------------------------------------
\* The places where N is used: nonterminal, rule and symbol, by their numbers.
Uses(N) ==
    UNION {UNION {{<<k, r, i>> :
        i \in {j \in DOMAIN grammar.rules[grammar.m_nonterminals[k]][r] :
                   grammar.rules[grammar.m_nonterminals[k]][r][j] = N}} :
        r \in DOMAIN grammar.rules[grammar.m_nonterminals[k]]} :
        k \in DOMAIN grammar.m_nonterminals}

Before(u, v) ==
    \/ u[1] < v[1]
    \/ u[1] = v[1] /\ u[2] < v[2]
    \/ u[1] = v[1] /\ u[2] = v[2] /\ u[3] <= v[3]

FollowFrame(N) ==
    [nonterm |-> N, uses |-> Uses(N), found |-> IF N = grammar.start THEN {g_end} ELSE {}]

use == CHOOSE u \in top.uses : \A v \in top.uses : Before(u, v)
lhs == grammar.m_nonterminals[use[1]]
rest == LET rhs == grammar.rules[lhs][use[2]] IN SubSeq(rhs, use[3] + 1, Len(rhs))

HasEpsRule(X) == \E r \in DOMAIN grammar.rules[X] : grammar.rules[X][r] = <<g_eps>>
MayBeEmpty(X) == X \in NonTerminal /\ HasEpsRule(X)

\* The first sets of what follows, as far as what is before may be empty.
Following ==
    UNION {IF rest[i] \in NonTerminal THEN m_first[rest[i]] \ {g_eps} ELSE {rest[i]} :
              i \in {j \in DOMAIN rest : \A k \in 1 .. j - 1 : MayBeEmpty(rest[k])}}

NothingBehind == \A i \in DOMAIN rest : MayBeEmpty(rest[i])

CalcFollow ==
    /\ phase = "follow" /\ frames = <<>> /\ todo # <<>>
    /\ todo' = Tail(todo)
    /\ frames' = IF Head(todo) \in DOMAIN m_follow THEN <<>> ELSE <<FollowFrame(Head(todo))>>
    /\ UNCHANGED <<name, grammar, phase, m_first, m_first_per_rule, m_follow>>

AtUse == phase = "follow" /\ frames # <<>> /\ top.uses # {}

CallFollow ==
    /\ phase = "follow" /\ frames # <<>> /\ AtUse
    /\ NothingBehind /\ lhs # top.nonterm /\ lhs \notin DOMAIN m_follow
    /\ frames' = Append(frames, FollowFrame(lhs))
    /\ UNCHANGED <<name, grammar, phase, todo, m_first, m_first_per_rule, m_follow>>

AddFollow ==
    /\ phase = "follow" /\ frames # <<>> /\ AtUse
    /\ NothingBehind => lhs = top.nonterm \/ lhs \in DOMAIN m_follow
    /\ LET set == IF NothingBehind THEN At(m_follow, lhs) ELSE {}
       IN  /\ m_follow' = IF NothingBehind THEN Put(m_follow, lhs, set) ELSE m_follow
           /\ frames' = Append(callers, [top EXCEPT !.uses = @ \ {use},
                                                    !.found = @ \cup Following \cup set])
    /\ UNCHANGED <<name, grammar, phase, todo, m_first, m_first_per_rule>>

StoreFollow ==
    /\ phase = "follow" /\ frames # <<>> /\ top.uses = {}
    /\ m_follow' = Put(m_follow, top.nonterm, top.found)
    /\ frames' = callers
    /\ UNCHANGED <<name, grammar, phase, todo, m_first, m_first_per_rule>>

FFStep ==
    \/ RemoveLeftRecursion \/ NextPhase
    \/ CalcFirst \/ AddTerminal \/ CallFirst \/ AddFirst \/ EndOfRule \/ StoreFirst
    \/ CalcFollow \/ CallFollow \/ AddFollow \/ StoreFollow

-----------------------------------------------------------------------------
\* The textbook: sets F and G contain what the rules imply for FIRST and FOLLOW.
FirstOf(F, word) ==
    LET Sets(X) == IF X \in NonTerminal THEN F[X] ELSE {X}
        Reached(i) == \A j \in 1 .. i - 1 : g_eps \in Sets(word[j])
    IN  (UNION {Sets(word[i]) \ {g_eps} : i \in {k \in DOMAIN word : Reached(k)}})
            \cup (IF Reached(Len(word) + 1) THEN {g_eps} ELSE {})

FirstClosed(F) ==
    \A N \in NonTerminal : \A r \in DOMAIN grammar.rules[N] :
        FirstOf(F, grammar.rules[N][r]) \subseteq F[N]

FollowClosed(F, G) ==
    /\ g_end \in G[grammar.start]
    /\ \A N \in NonTerminal : \A r \in DOMAIN grammar.rules[N] :
           LET rhs == grammar.rules[N][r]
           IN  \A i \in DOMAIN rhs : rhs[i] \in NonTerminal =>
                   LET behind == FirstOf(F, SubSeq(rhs, i + 1, Len(rhs)))
                   IN  /\ behind \ {g_eps} \subseteq G[rhs[i]]
                       /\ g_eps \in behind => G[N] \subseteq G[rhs[i]]

\* At no time, whatever of the maps is filled in, they hold a symbol that the
\* textbook does not have.
SetsSound(F, G) ==
    FirstClosed(F) /\ FollowClosed(F, G) =>
        /\ \A N \in DOMAIN m_first : m_first[N] \subseteq F[N]
        /\ \A N \in DOMAIN m_follow : m_follow[N] \subseteq G[N]

=============================================================================
