----------------------------- MODULE LL1_proofs -----------------------------
(***************************************************************************)
(* Proofs about the analysis of a grammar in FirstFollow and about the       *)
(* table and the printed parser in LL1.  They are about the analyses that    *)
(* begin with calc_first: a grammar whose left recursion has been removed is *)
(* one more grammar to them.                                                 *)
(***************************************************************************)
EXTENDS LL1, WellFoundedInduction, TLAPS

\* Lemmas about stacks: a call is made, and a call is replaced or ended.
LEMMA PushTop ==
    ASSUME NEW S, NEW s \in Seq(S), NEW x \in S
    PROVE  /\ Append(s, x) \in Seq(S) /\ Append(s, x) # <<>>
           /\ Range(Append(s, x)) = Range(s) \cup {x}
           /\ Append(s, x)[1] = IF s = <<>> THEN x ELSE s[1]
<1>1. /\ Append(s, x) \in Seq(S) /\ Len(Append(s, x)) = Len(s) + 1 /\ Len(s) \in Nat
      /\ DOMAIN Append(s, x) = 1 .. Len(s) + 1 /\ DOMAIN s = 1 .. Len(s)
      /\ \A k \in 1 .. Len(s) : Append(s, x)[k] = s[k]
      /\ Append(s, x)[Len(s) + 1] = x
    OBVIOUS
<1>2. Range(Append(s, x)) \subseteq Range(s) \cup {x}
    <2> SUFFICES ASSUME NEW k \in 1 .. Len(s) + 1
                 PROVE  Append(s, x)[k] \in Range(s) \cup {x}
        BY <1>1 DEF Range
    <2>1. CASE k = Len(s) + 1
        BY <2>1, <1>1
    <2>2. CASE k # Len(s) + 1
        BY <2>2, <1>1 DEF Range
    <2> QED  BY <2>1, <2>2
<1>3. Range(s) \cup {x} \subseteq Range(Append(s, x))
    <2>1. x \in Range(Append(s, x))
        BY <1>1 DEF Range
    <2>2. Range(s) \subseteq Range(Append(s, x))
        BY <1>1 DEF Range
    <2> QED  BY <2>1, <2>2
<1>4. Append(s, x)[1] = IF s = <<>> THEN x ELSE s[1]
    <2>1. CASE s = <<>>
        BY <2>1
    <2>2. CASE s # <<>>
        BY <2>2, <1>1
    <2> QED  BY <2>1, <2>2
<1>5. Append(s, x) # <<>>
    BY <1>1
<1> QED  BY <1>1, <1>2, <1>3, <1>4, <1>5

LEMMA ReplaceBelow ==
    ASSUME NEW S, NEW s \in Seq(S), s # <<>>, NEW x \in S,
           NEW c \in Seq(S), Len(c) = Len(s) - 1, \A k \in 1 .. Len(c) : c[k] = s[k]
    PROVE  /\ s[Len(s)] \in Range(s) /\ s[Len(s)] \in S
           /\ Range(c) \subseteq Range(s)
           /\ c = <<>> => s[1] = s[Len(s)]
           /\ c # <<>> => c[1] = s[1]
           /\ Append(c, x) \in Seq(S) /\ Append(c, x) # <<>>
           /\ Range(Append(c, x)) \subseteq Range(s) \cup {x}
           /\ Append(c, x)[1] = IF c = <<>> THEN x ELSE s[1]
<1>1. /\ Len(s) \in Nat \ {0} /\ DOMAIN s = 1 .. Len(s)
      /\ Len(c) \in Nat /\ DOMAIN c = 1 .. Len(c)
    OBVIOUS
<1>2. Range(c) \subseteq Range(s)
    BY <1>1 DEF Range
<1>3. c # <<>> => c[1] = s[1]
    BY <1>1
<1>4. c = <<>> => s[1] = s[Len(s)]
    BY <1>1
<1>5. /\ Append(c, x) \in Seq(S) /\ Append(c, x) # <<>>
      /\ Range(Append(c, x)) = Range(c) \cup {x}
      /\ Append(c, x)[1] = IF c = <<>> THEN x ELSE c[1]
    BY PushTop
<1>6. s[Len(s)] \in Range(s) /\ s[Len(s)] \in S
    BY <1>1 DEF Range
<1> QED  BY <1>2, <1>3, <1>4, <1>5, <1>6

LEMMA Below ==
    ASSUME NEW S, NEW s \in Seq(S), s # <<>>
    PROVE  /\ SubSeq(s, 1, Len(s) - 1) \in Seq(S)
           /\ Len(SubSeq(s, 1, Len(s) - 1)) = Len(s) - 1
           /\ \A k \in 1 .. Len(SubSeq(s, 1, Len(s) - 1)) : SubSeq(s, 1, Len(s) - 1)[k] = s[k]
<1>1. Len(s) \in Nat \ {0} /\ DOMAIN s = 1 .. Len(s)
    OBVIOUS
<1> QED  BY <1>1

LEMMA RangeOfTail ==
    ASSUME NEW S, NEW s \in Seq(S), s # <<>>
    PROVE  /\ Head(s) \in S /\ Tail(s) \in Seq(S)
           /\ Range(s) = {Head(s)} \cup Range(Tail(s))
<1>1. /\ Head(s) = s[1] /\ Len(s) \in Nat \ {0} /\ Tail(s) \in Seq(S)
      /\ DOMAIN s = 1 .. Len(s) /\ DOMAIN Tail(s) = 1 .. Len(s) - 1
      /\ \A k \in 1 .. Len(s) - 1 : Tail(s)[k] = s[k + 1]
    OBVIOUS
<1>2. Range(s) \subseteq {Head(s)} \cup Range(Tail(s))
    <2> SUFFICES ASSUME NEW k \in 1 .. Len(s)
                 PROVE  s[k] \in {Head(s)} \cup Range(Tail(s))
        BY <1>1 DEF Range
    <2>1. CASE k = 1
        BY <2>1, <1>1
    <2>2. CASE k # 1
        <3>1. k - 1 \in 1 .. Len(s) - 1 /\ Tail(s)[k - 1] = s[k]
            BY <2>2, <1>1
        <3> QED  BY <3>1, <1>1 DEF Range
    <2> QED  BY <2>1, <2>2
<1>3. {Head(s)} \cup Range(Tail(s)) \subseteq Range(s)
    BY <1>1 DEF Range
<1> QED  BY <1>1, <1>2, <1>3

-----------------------------------------------------------------------------
\* A set of places that is not empty has a first one.
LEMMA LeastNatural ==
    ASSUME NEW T, T \subseteq Nat, T # {}
    PROVE  \E x \in T : \A y \in T : x <= y
<1> DEFINE R == OpToRel(<, Nat)
<1>1. IsWellFoundedOn(R, Nat)
    BY NatLessThanWellFounded
<1>2. \A x, y \in Nat : <<y, x>> \in R <=> y < x
    BY DEF OpToRel
<1> HIDE DEF R
<1>3. PICK x \in T : \A y \in T : ~ (<<y, x>> \in R)
    BY <1>1, WFMin
<1>4. ASSUME NEW y \in T PROVE x <= y
    <2>1. x \in Nat /\ y \in Nat
        OBVIOUS
    <2>2. ~ (y < x)
        BY <1>2, <1>3, <2>1
    <2> QED  BY <2>1, <2>2
<1> QED  BY <1>4

LEMMA FirstPlace ==
    ASSUME NEW U, U \subseteq Nat \X Nat \X Nat, U # {}
    PROVE  \E u \in U : \A v \in U : Before(u, v)
<1>1. PICK a \in U : \A v \in U : a[1] <= v[1]
    <2> DEFINE T == {u[1] : u \in U}
    <2>1. T \subseteq Nat /\ T # {}
        OBVIOUS
    <2>2. PICK x \in T : \A y \in T : x <= y
        BY <2>1, LeastNatural
    <2> QED  BY <2>2
<1>2. PICK b \in U : b[1] = a[1] /\ \A v \in U : v[1] = a[1] => b[2] <= v[2]
    <2> DEFINE V == {u \in U : u[1] = a[1]}
               T == {u[2] : u \in V}
    <2>1. T \subseteq Nat /\ T # {}
        OBVIOUS
    <2>2. PICK x \in T : \A y \in T : x <= y
        BY <2>1, LeastNatural
    <2> QED  BY <2>2
<1>3. PICK c \in U : /\ c[1] = a[1] /\ c[2] = b[2]
                     /\ \A v \in U : v[1] = a[1] /\ v[2] = b[2] => c[3] <= v[3]
    <2> DEFINE V == {u \in U : u[1] = a[1] /\ u[2] = b[2]}
               T == {u[3] : u \in V}
    <2>1. T \subseteq Nat /\ T # {}
        BY <1>2
    <2>2. PICK x \in T : \A y \in T : x <= y
        BY <2>1, LeastNatural
    <2> QED  BY <2>2
<1>4. ASSUME NEW v \in U PROVE Before(c, v)
    <2>1. c[1] \in Nat /\ c[2] \in Nat /\ c[3] \in Nat /\ v[1] \in Nat /\ v[2] \in Nat /\ v[3] \in Nat
        OBVIOUS
    <2> QED  BY <1>1, <1>2, <1>3, <2>1 DEF Before
<1> QED  BY <1>4

-----------------------------------------------------------------------------
(***************************************************************************)
(* The invariant of the analysis.  The grammar stays what it was; the calls  *)
(* are those of one of the two functions; and a nonterminal of the list is   *)
(* still to come, is being worked on by the oldest call, or has its entry.   *)
(***************************************************************************)
Listed == Range(grammar.m_nonterminals)

GrammarKept ==
    /\ grammar \in Grammar
    /\ grammar.start \in Listed
    /\ \A N \in NonTerminal : \A r \in DOMAIN grammar.rules[N] :
           LET rhs == grammar.rules[N][r]
           IN  \A i \in DOMAIN rhs :
                   /\ rhs[i] = g_eps => rhs = <<g_eps>>
                   /\ rhs[i] # g_end
                   /\ rhs[i] \in NonTerminal => rhs[i] \in Listed

FirstFrames ==
    [nonterm : NonTerminal, rule : Nat \ {0}, sym : Nat \ {0},
     found : UNION {[1 .. n -> SUBSET Symbol] : n \in Nat}]
FollowFrames ==
    [nonterm : NonTerminal, uses : SUBSET (Nat \X Nat \X Nat), found : SUBSET Symbol]

FramesOK ==
    /\ phase = "first" =>
           /\ frames \in Seq(FirstFrames)
           /\ \A f \in Range(frames) : DOMAIN f.found = DOMAIN grammar.rules[f.nonterm]
    /\ phase = "follow" =>
           /\ frames \in Seq(FollowFrames)
           /\ \A f \in Range(frames) : f.uses \subseteq Uses(f.nonterm)
    /\ phase = "done" => frames = <<>>

FirstMade ==
    IF phase = "first"
    THEN Listed \subseteq Range(todo) \cup DOMAIN m_first
                              \cup (IF frames = <<>> THEN {} ELSE {frames[1].nonterm})
    ELSE Listed \subseteq DOMAIN m_first

AnalysisOK ==
    /\ phase \in {"first", "follow", "done"}
    /\ GrammarKept
    /\ todo \in Seq(NonTerminal)
    /\ DOMAIN m_first \subseteq NonTerminal
    /\ \A N \in DOMAIN m_first : m_first[N] \subseteq Symbol
    /\ \A N \in DOMAIN m_follow : m_follow[N] \subseteq Symbol
    /\ FramesOK
    /\ FirstMade

-----------------------------------------------------------------------------
LEMMA InitOK == ASSUME FFInit, phase = "first" PROVE AnalysisOK
<1> DEFINE listed == Grammars[name].m_nonterminals
<1>1. /\ name \in DOMAIN Grammars /\ Grammars[name] \in Grammar
      /\ listed \in Seq(NonTerminal)
    BY GrammarAssumption DEF FFInit, Grammar
<1>2. PICK order \in [DOMAIN listed -> Range(listed)] :
          /\ Range(order) = Range(listed)
          /\ grammar = [Grammars[name] EXCEPT !.m_nonterminals = order]
    BY DEF FFInit, Ordered
<1>3. Range(listed) \subseteq NonTerminal /\ DOMAIN listed = 1 .. Len(listed) /\ Len(listed) \in Nat
    BY <1>1 DEF Range
<1>4. order \in Seq(NonTerminal)
    BY <1>2, <1>3
<1>5. /\ grammar.start = Grammars[name].start /\ grammar.rules = Grammars[name].rules
      /\ grammar.m_nonterminals = order
    BY <1>1, <1>2 DEF Grammar
<1>6. grammar \in Grammar
    BY <1>1, <1>2, <1>4 DEF Grammar
<1>7. GrammarKept
    BY <1>1, <1>2, <1>5, <1>6, GrammarAssumption DEF GrammarKept, Listed
<1>8. todo \in Seq(NonTerminal) /\ Range(todo) = Listed
    BY <1>4, <1>5 DEF FFInit, Listed
<1>9. m_first = <<>> /\ m_follow = <<>> /\ frames = <<>>
    BY DEF FFInit
<1>10. FramesOK
    BY <1>9 DEF FramesOK, Range
<1>11. DOMAIN m_first = {} /\ DOMAIN m_follow = {}
    BY <1>9
<1> QED  BY <1>7, <1>8, <1>9, <1>10, <1>11 DEF AnalysisOK, FirstMade

LEMMA Stack ==
    ASSUME NEW S, frames \in Seq(S), frames # <<>>
    PROVE  /\ callers \in Seq(S) /\ Range(callers) \subseteq Range(frames)
           /\ top \in S /\ top \in Range(frames)
           /\ frames[1] = IF callers = <<>> THEN top ELSE callers[1]
           /\ \A x \in S :
                  /\ Append(callers, x) \in Seq(S) /\ Append(callers, x) # <<>>
                  /\ Range(Append(callers, x)) \subseteq Range(frames) \cup {x}
                  /\ Append(callers, x)[1] = IF callers = <<>> THEN x ELSE frames[1]
<1>1. callers \in Seq(S)
    BY Below DEF callers
<1>2. Len(callers) = Len(frames) - 1
    BY Below DEF callers
<1>3. \A k \in 1 .. Len(callers) : callers[k] = frames[k]
    BY Below DEF callers
<1>4. top = frames[Len(frames)]
    BY DEF top
<1>5. top \in S
    BY <1>4
<1>6. ASSUME NEW x \in S
      PROVE  /\ frames[Len(frames)] \in Range(frames)
             /\ Range(callers) \subseteq Range(frames)
             /\ callers = <<>> => frames[1] = frames[Len(frames)]
             /\ callers # <<>> => callers[1] = frames[1]
             /\ Append(callers, x) \in Seq(S) /\ Append(callers, x) # <<>>
             /\ Range(Append(callers, x)) \subseteq Range(frames) \cup {x}
             /\ Append(callers, x)[1] = IF callers = <<>> THEN x ELSE frames[1]
    BY <1>1, <1>2, <1>3, ReplaceBelow
<1> QED  BY <1>1, <1>4, <1>5, <1>6

\* A call that comes to its next rule or symbol.
LEMMA NextRuleCall ==
    ASSUME NEW f \in FirstFrames
    PROVE  /\ NextRule(f) \in FirstFrames
           /\ NextRule(f).nonterm = f.nonterm /\ NextRule(f).found = f.found
           /\ NextRule(f).rule = f.rule + 1 /\ NextRule(f).sym = 1
<1> DEFINE x == NextRule(f)
<1>1. DOMAIN x = {"nonterm", "rule", "sym", "found"}
    BY DEF FirstFrames, NextRule
<1>2. x.nonterm = f.nonterm /\ x.found = f.found /\ x.sym = 1 /\ x.rule = f.rule + 1
    BY DEF FirstFrames, NextRule
<1>3. x = [i \in DOMAIN x |-> x[i]]
    BY DEF FirstFrames, NextRule
<1>4. /\ f.nonterm \in NonTerminal /\ f.rule + 1 \in Nat \ {0}
      /\ f.found \in UNION {[1 .. n -> SUBSET Symbol] : n \in Nat}
    BY DEF FirstFrames
<1> HIDE DEF x
<1>5. x = [nonterm |-> x.nonterm, rule |-> x.rule, sym |-> x.sym, found |-> x.found]
    BY <1>1, <1>3
<1>6. /\ x.nonterm \in NonTerminal /\ x.rule \in Nat \ {0} /\ x.sym \in Nat \ {0}
      /\ x.found \in UNION {[1 .. n -> SUBSET Symbol] : n \in Nat}
    BY <1>2, <1>4
<1>7. x \in FirstFrames
    BY <1>5, <1>6 DEF FirstFrames
<1> QED  BY <1>2, <1>7 DEF x

LEMMA NextSymbolCall ==
    ASSUME NEW f \in FirstFrames
    PROVE  /\ NextSymbol(f) \in FirstFrames
           /\ NextSymbol(f).nonterm = f.nonterm /\ NextSymbol(f).found = f.found
           /\ NextSymbol(f).rule = f.rule /\ NextSymbol(f).sym = f.sym + 1
BY DEF FirstFrames, NextSymbol

LEMMA FoundMoreCall ==
    ASSUME NEW f \in FirstFrames, NEW set \in UNION {[1 .. n -> SUBSET Symbol] : n \in Nat}
    PROVE  LET x == [f EXCEPT !.found = set]
           IN  /\ x \in FirstFrames /\ x.nonterm = f.nonterm /\ x.found = set
               /\ x.rule = f.rule /\ x.sym = f.sym
BY DEF FirstFrames

\* What is the same for every change of the newest call of calc_first.
LEMMA FirstReplaced ==
    ASSUME AnalysisOK, phase = "first", frames # <<>>,
           NEW x \in FirstFrames, x.nonterm = top.nonterm, DOMAIN x.found = DOMAIN top.found,
           frames' = Append(callers, x),
           UNCHANGED <<grammar, phase, todo, m_follow>>,
           DOMAIN m_first \subseteq DOMAIN m_first', DOMAIN m_first' \subseteq NonTerminal,
           \A N \in DOMAIN m_first' : m_first'[N] \subseteq Symbol
    PROVE  AnalysisOK'
<1>1. frames \in Seq(FirstFrames) /\ \A f \in Range(frames) : DOMAIN f.found = DOMAIN grammar.rules[f.nonterm]
    BY DEF AnalysisOK, FramesOK
<1>2. /\ frames' \in Seq(FirstFrames) /\ frames' # <<>>
      /\ Range(frames') \subseteq Range(frames) \cup {x}
      /\ frames'[1] = IF callers = <<>> THEN x ELSE frames[1]
      /\ frames[1] = IF callers = <<>> THEN top ELSE callers[1]
      /\ top \in Range(frames)
    BY <1>1, Stack
<1>3. DOMAIN x.found = DOMAIN grammar.rules[x.nonterm]
    BY <1>1, <1>2
<1>4. FramesOK'
    BY <1>1, <1>2, <1>3 DEF FramesOK, FirstFrames
<1>5. frames'[1].nonterm = frames[1].nonterm
    BY <1>2
<1>6. FirstMade'
    BY <1>2, <1>5 DEF AnalysisOK, FirstMade, Listed
<1>7. GrammarKept'
    BY DEF AnalysisOK, GrammarKept, Listed
<1> QED  BY <1>4, <1>6, <1>7 DEF AnalysisOK

\* A call of calc_first that finds more, or goes on, remains a call.
LEMMA FirstFrameChanged ==
    ASSUME AnalysisOK, phase = "first", AtSymbol, NEW more \in SUBSET Symbol
    PROVE  LET found == AlsoFound(more)
           IN  /\ top \in FirstFrames
               /\ DOMAIN top.found = DOMAIN grammar.rules[top.nonterm]
               /\ top.rule \in DOMAIN top.found
               /\ rhs_ \in Seq(Symbol) /\ top.sym \in DOMAIN rhs_
               /\ found \in UNION {[1 .. n -> SUBSET Symbol] : n \in Nat}
               /\ DOMAIN found = DOMAIN top.found
               /\ \A r \in DOMAIN found :
                      found[r] = IF r = top.rule THEN top.found[r] \cup more ELSE top.found[r]
<1> DEFINE found == AlsoFound(more)
<1>1. /\ frames \in Seq(FirstFrames) /\ frames # <<>>
      /\ \A f \in Range(frames) : DOMAIN f.found = DOMAIN grammar.rules[f.nonterm]
    BY DEF AnalysisOK, FramesOK, AtSymbol, InRule
<1>2. top \in FirstFrames /\ top \in Range(frames)
    BY <1>1, Stack
<1>3. DOMAIN top.found = DOMAIN grammar.rules[top.nonterm]
    BY <1>1, <1>2
<1>4. /\ top.nonterm \in NonTerminal /\ top.rule \in Nat \ {0} /\ top.sym \in Nat \ {0}
      /\ top.found \in UNION {[1 .. n -> SUBSET Symbol] : n \in Nat}
    BY <1>2 DEF FirstFrames
<1>5. grammar.rules[top.nonterm] \in Seq(Seq(Symbol))
    BY <1>4 DEF AnalysisOK, GrammarKept, Grammar
<1>6. top.rule \in DOMAIN grammar.rules[top.nonterm]
    BY <1>4, <1>5 DEF AtSymbol, InRule
<1>7. rhs_ \in Seq(Symbol)
    BY <1>5, <1>6 DEF rhs_
<1>8. top.sym \in DOMAIN rhs_
    BY <1>4, <1>7 DEF AtSymbol
<1>9. PICK n \in Nat : top.found \in [1 .. n -> SUBSET Symbol]
    BY <1>4
<1>10. found \in [1 .. n -> SUBSET Symbol]
    BY <1>3, <1>6, <1>9 DEF AlsoFound
<1>11. \A r \in DOMAIN found :
           found[r] = IF r = top.rule THEN top.found[r] \cup more ELSE top.found[r]
    BY <1>3, <1>6, <1>9 DEF AlsoFound
<1> QED  BY <1>2, <1>3, <1>6, <1>7, <1>8, <1>9, <1>10, <1>11

LEMMA FirstFrameTyped ==
    ASSUME AnalysisOK, NEW N \in NonTerminal
    PROVE  /\ FirstFrame(N) \in FirstFrames
           /\ FirstFrame(N).nonterm = N
           /\ DOMAIN FirstFrame(N).found = DOMAIN grammar.rules[N]
<1>1. grammar.rules[N] \in Seq(Seq(Symbol))
    BY DEF AnalysisOK, GrammarKept, Grammar
<1>2. [r \in DOMAIN grammar.rules[N] |-> {}] \in [1 .. Len(grammar.rules[N]) -> SUBSET Symbol]
    BY <1>1
<1> QED  BY <1>1, <1>2 DEF FirstFrame, FirstFrames

LEMMA FirstStep ==
    ASSUME AnalysisOK, phase = "first",
           CalcFirst \/ AddTerminal \/ CallFirst \/ AddFirst \/ EndOfRule \/ StoreFirst
    PROVE  AnalysisOK'
<1>1. /\ frames \in Seq(FirstFrames)
      /\ \A f \in Range(frames) : DOMAIN f.found = DOMAIN grammar.rules[f.nonterm]
    BY DEF AnalysisOK, FramesOK
<1>2. ASSUME NEW N \in NonTerminal
      PROVE  /\ FirstFrame(N) \in FirstFrames
             /\ FirstFrame(N).nonterm = N
             /\ DOMAIN FirstFrame(N).found = DOMAIN grammar.rules[N]
    BY FirstFrameTyped
<1>3. CASE CalcFirst
    <2>1. frames = <<>> /\ todo # <<>> /\ todo' = Tail(todo)
        BY <1>3 DEF CalcFirst
    <2>2. /\ Head(todo) \in NonTerminal /\ todo' \in Seq(NonTerminal)
          /\ Range(todo) = {Head(todo)} \cup Range(todo')
        BY <2>1, RangeOfTail DEF AnalysisOK
    <2>3. CASE Head(todo) \in DOMAIN m_first
        <3>1. frames' = <<>> /\ UNCHANGED <<grammar, phase, m_first, m_follow>>
            BY <1>3, <2>3 DEF CalcFirst
        <3>2. FramesOK' /\ GrammarKept'
            BY <2>1, <3>1 DEF AnalysisOK, FramesOK, GrammarKept, Listed, Uses
        <3>3. FirstMade'
            BY <2>1, <2>2, <2>3, <3>1 DEF AnalysisOK, FirstMade, Listed
        <3> QED  BY <2>2, <3>1, <3>2, <3>3 DEF AnalysisOK
    <2>4. CASE Head(todo) \notin DOMAIN m_first
        <3> DEFINE f == FirstFrame(Head(todo))
        <3>1. frames' = <<f>> /\ UNCHANGED <<grammar, phase, m_first, m_follow>>
            BY <1>3, <2>4 DEF CalcFirst
        <3>2. f \in FirstFrames /\ f.nonterm = Head(todo) /\ DOMAIN f.found = DOMAIN grammar.rules[f.nonterm]
            BY <1>2, <2>2
        <3> HIDE DEF f
        <3>3. frames' \in Seq(FirstFrames) /\ Range(frames') = {f} /\ frames'[1] = f /\ frames' # <<>>
            BY <3>1, <3>2 DEF Range
        <3>4. FramesOK'
            BY <3>1, <3>2, <3>3 DEF FramesOK
        <3>a. GrammarKept'
            BY <3>1 DEF AnalysisOK, GrammarKept, Listed
        <3>5. FirstMade'
            BY <2>1, <2>2, <3>1, <3>2, <3>3 DEF AnalysisOK, FirstMade, Listed
        <3> QED  BY <2>2, <3>1, <3>4, <3>a, <3>5 DEF AnalysisOK
    <2> QED  BY <2>3, <2>4
<1>4. CASE AddTerminal
    <2> DEFINE found == AlsoFound({sym_})
               more == [top EXCEPT !.found = found]
    <2>1. AtSymbol /\ frames # <<>> /\ frames' = Append(callers, NextRule(more))
        BY <1>4 DEF AddTerminal
    <2>2. top \in FirstFrames /\ rhs_ \in Seq(Symbol) /\ top.sym \in DOMAIN rhs_
        BY <2>1, FirstFrameChanged
    <2>3. sym_ \in Symbol
        BY <2>2 DEF sym_
    <2>4. found \in UNION {[1 .. n -> SUBSET Symbol] : n \in Nat} /\ DOMAIN found = DOMAIN top.found
        BY <2>1, <2>3, FirstFrameChanged
    <2> HIDE DEF found
    <2>5. more \in FirstFrames /\ more.nonterm = top.nonterm /\ more.found = found
        BY <2>2, <2>4, FoundMoreCall
    <2> HIDE DEF more
    <2>6. /\ NextRule(more) \in FirstFrames /\ NextRule(more).nonterm = top.nonterm
          /\ DOMAIN NextRule(more).found = DOMAIN top.found
        BY <2>4, <2>5, NextRuleCall
    <2>7. UNCHANGED <<grammar, phase, todo, m_first, m_follow>>
        BY <1>4 DEF AddTerminal
    <2> QED  BY <2>1, <2>6, <2>7, FirstReplaced DEF AnalysisOK
<1>5. CASE CallFirst
    <2>1. /\ frames # <<>> /\ frames' = Append(frames, FirstFrame(sym_)) /\ sym_ \in NonTerminal
          /\ UNCHANGED <<grammar, phase, todo, m_first, m_follow>>
        BY <1>5 DEF CallFirst
    <2> DEFINE f == FirstFrame(sym_)
    <2>2. f \in FirstFrames /\ DOMAIN f.found = DOMAIN grammar.rules[f.nonterm]
        BY <1>2, <2>1
    <2>3. frames' = Append(frames, f)
        BY <2>1
    <2> HIDE DEF f
    <2>4. /\ frames' \in Seq(FirstFrames) /\ frames' # <<>>
          /\ Range(frames') = Range(frames) \cup {f} /\ frames'[1] = frames[1]
        BY <1>1, <2>1, <2>2, <2>3, PushTop
    <2>5. FramesOK' /\ GrammarKept'
        BY <1>1, <2>1, <2>2, <2>4 DEF AnalysisOK, FramesOK, GrammarKept, Listed
    <2>6. FirstMade'
        BY <2>1, <2>4 DEF AnalysisOK, FirstMade, Listed
    <2> QED  BY <2>1, <2>5, <2>6 DEF AnalysisOK
<1>6. CASE AddFirst
    <2> DEFINE set == At(m_first, sym_)
               found == AlsoFound(Inserted(set))
               more == [top EXCEPT !.found = found]
               x == IF g_eps \in set THEN NextSymbol(more) ELSE NextRule(more)
    <2>1. /\ AtSymbol /\ frames # <<>> /\ frames' = Append(callers, x) /\ sym_ \in NonTerminal
          /\ m_first' = Put(m_first, sym_, set)
        BY <1>6 DEF AddFirst
    <2>2. set \subseteq Symbol
        BY DEF At, AnalysisOK
    <2>3. Inserted(set) \subseteq Symbol
        BY <2>2 DEF Inserted
    <2>4. top \in FirstFrames
        BY <2>1, FirstFrameChanged
    <2>5. found \in UNION {[1 .. n -> SUBSET Symbol] : n \in Nat} /\ DOMAIN found = DOMAIN top.found
        BY <2>1, <2>3, FirstFrameChanged
    <2> HIDE DEF found
    <2>6. more \in FirstFrames /\ more.nonterm = top.nonterm /\ more.found = found
        BY <2>4, <2>5, FoundMoreCall
    <2> HIDE DEF more
    <2>7. x \in FirstFrames /\ x.nonterm = top.nonterm /\ x.found = found
        BY <2>6, NextRuleCall, NextSymbolCall
    <2> HIDE DEF x
    <2>8. x \in FirstFrames /\ x.nonterm = top.nonterm /\ DOMAIN x.found = DOMAIN top.found
        BY <2>5, <2>7
    <2>9. UNCHANGED <<grammar, phase, todo, m_follow>>
        BY <1>6 DEF AddFirst
    <2>10. /\ DOMAIN m_first' = DOMAIN m_first \cup {sym_}
           /\ \A N \in DOMAIN m_first' : m_first'[N] = IF N = sym_ THEN set ELSE m_first[N]
        BY <2>1 DEF Put
    <2> HIDE DEF set
    <2>11. /\ DOMAIN m_first \subseteq DOMAIN m_first' /\ DOMAIN m_first' \subseteq NonTerminal
           /\ \A N \in DOMAIN m_first' : m_first'[N] \subseteq Symbol
        BY <2>1, <2>2, <2>10 DEF AnalysisOK
    <2> QED  BY <2>1, <2>8, <2>9, <2>11, FirstReplaced
<1>7. CASE EndOfRule
    <2>1. /\ frames # <<>> /\ frames' = Append(callers, NextRule(top))
          /\ UNCHANGED <<grammar, phase, todo, m_first, m_follow>>
        BY <1>7 DEF EndOfRule, InRule
    <2>2. top \in FirstFrames
        BY <1>1, <2>1, Stack
    <2>3. /\ NextRule(top) \in FirstFrames /\ NextRule(top).nonterm = top.nonterm
          /\ DOMAIN NextRule(top).found = DOMAIN top.found
        BY <2>2, NextRuleCall
    <2> QED  BY <2>1, <2>3, FirstReplaced DEF AnalysisOK
<1>8. CASE StoreFirst
    <2> DEFINE set == UNION {top.found[r] : r \in DOMAIN top.found}
    <2>1. /\ frames # <<>> /\ frames' = callers /\ m_first' = Put(m_first, top.nonterm, set)
          /\ UNCHANGED <<grammar, phase, todo, m_follow>>
        BY <1>8 DEF StoreFirst
    <2>2. /\ callers \in Seq(FirstFrames) /\ Range(callers) \subseteq Range(frames)
          /\ top \in FirstFrames /\ frames[1] = IF callers = <<>> THEN top ELSE callers[1]
        BY <1>1, <2>1, Stack
    <2>3. set \subseteq Symbol /\ top.nonterm \in NonTerminal
        BY <2>2 DEF FirstFrames
    <2>4. /\ DOMAIN m_first' = DOMAIN m_first \cup {top.nonterm}
          /\ \A N \in DOMAIN m_first' : m_first'[N] = IF N = top.nonterm THEN set ELSE m_first[N]
        BY <2>1 DEF Put
    <2> HIDE DEF set
    <2>5. /\ DOMAIN m_first' \subseteq NonTerminal
          /\ \A N \in DOMAIN m_first' : m_first'[N] \subseteq Symbol
        BY <2>3, <2>4 DEF AnalysisOK
    <2>6. FramesOK' /\ GrammarKept'
        BY <1>1, <2>1, <2>2 DEF AnalysisOK, FramesOK, GrammarKept, Listed
    <2>7. FirstMade'
        BY <2>1, <2>2, <2>4 DEF AnalysisOK, FirstMade, Listed
    <2> QED  BY <2>1, <2>5, <2>6, <2>7 DEF AnalysisOK
<1> QED  BY <1>3, <1>4, <1>5, <1>6, <1>7, <1>8

-----------------------------------------------------------------------------
LEMMA UsesArePlaces ==
    ASSUME GrammarKept, NEW N, NEW u \in Uses(N)
    PROVE  LET X == grammar.m_nonterminals[u[1]]
           IN  /\ u \in Nat \X Nat \X Nat
               /\ X \in Listed /\ X \in NonTerminal
               /\ u[2] \in DOMAIN grammar.rules[X]
               /\ u[3] \in DOMAIN grammar.rules[X][u[2]]
               /\ grammar.rules[X][u[2]] \in Seq(Symbol)
               /\ grammar.rules[X][u[2]][u[3]] = N
<1>1. PICK k \in DOMAIN grammar.m_nonterminals :
          \E r \in DOMAIN grammar.rules[grammar.m_nonterminals[k]] :
              \E i \in DOMAIN grammar.rules[grammar.m_nonterminals[k]][r] :
                  u = <<k, r, i>> /\ grammar.rules[grammar.m_nonterminals[k]][r][i] = N
    BY DEF Uses
<1> DEFINE X == grammar.m_nonterminals[k]
<1>2. grammar.m_nonterminals \in Seq(NonTerminal) /\ grammar.rules \in [NonTerminal -> Seq(Seq(Symbol))]
    BY DEF GrammarKept, Grammar
<1>3. k \in Nat /\ X \in NonTerminal /\ X \in Listed
    BY <1>2 DEF Listed, Range
<1>4. grammar.rules[X] \in Seq(Seq(Symbol))
    BY <1>2, <1>3
<1>5. PICK r \in DOMAIN grammar.rules[X] :
          \E i \in DOMAIN grammar.rules[X][r] : u = <<k, r, i>> /\ grammar.rules[X][r][i] = N
    BY <1>1
<1>6. r \in Nat /\ grammar.rules[X][r] \in Seq(Symbol)
    BY <1>4
<1>7. PICK i \in DOMAIN grammar.rules[X][r] : u = <<k, r, i>> /\ grammar.rules[X][r][i] = N
    BY <1>5
<1>8. i \in Nat
    BY <1>6
<1>9. u[1] = k /\ u[2] = r /\ u[3] = i /\ u \in Nat \X Nat \X Nat
    BY <1>3, <1>6, <1>7, <1>8
<1> QED  BY <1>3, <1>5, <1>6, <1>7, <1>9

\* What calc_follow looks at: the first use that is left, and what is behind it.
LEMMA AtTheUse ==
    ASSUME AnalysisOK, AtUse
    PROVE  /\ top \in FollowFrames /\ top \in Range(frames)
           /\ use \in top.uses
           /\ lhs \in NonTerminal
           /\ use[2] \in DOMAIN grammar.rules[lhs]
           /\ use[3] \in DOMAIN grammar.rules[lhs][use[2]]
           /\ grammar.rules[lhs][use[2]] \in Seq(Symbol)
           /\ grammar.rules[lhs][use[2]][use[3]] = top.nonterm
           /\ rest \in Seq(Symbol)
           /\ \A i \in DOMAIN rest :
                  /\ rest[i] # g_eps
                  /\ rest[i] \in NonTerminal => rest[i] \in DOMAIN m_first
<1>1. /\ frames \in Seq(FollowFrames) /\ frames # <<>> /\ top.uses # {}
      /\ \A f \in Range(frames) : f.uses \subseteq Uses(f.nonterm)
    BY DEF AnalysisOK, FramesOK, AtUse
<1>2. top \in FollowFrames /\ top \in Range(frames)
    BY <1>1, Stack
<1>3. top.uses \subseteq Uses(top.nonterm) /\ top.uses \subseteq Nat \X Nat \X Nat
    BY <1>1, <1>2 DEF FollowFrames
<1>4. use \in top.uses
    BY <1>1, <1>3, FirstPlace DEF use
<1>5. GrammarKept
    BY DEF AnalysisOK
<1> DEFINE rhs == grammar.rules[lhs][use[2]]
<1>6. /\ use \in Nat \X Nat \X Nat /\ lhs \in NonTerminal
      /\ use[2] \in DOMAIN grammar.rules[lhs] /\ use[3] \in DOMAIN rhs
      /\ rhs \in Seq(Symbol) /\ rhs[use[3]] = top.nonterm
    BY <1>3, <1>4, <1>5, UsesArePlaces DEF lhs
<1>7. \A i \in DOMAIN rhs : /\ rhs[i] = g_eps => rhs = <<g_eps>>
                            /\ rhs[i] \in NonTerminal => rhs[i] \in Listed
    BY <1>5, <1>6 DEF GrammarKept
<1>8. rest = SubSeq(rhs, use[3] + 1, Len(rhs))
    BY DEF rest
<1>9. Listed \subseteq DOMAIN m_first
    BY DEF AnalysisOK, FirstMade, AtUse
<1> HIDE DEF rhs
<1>10. /\ rest \in Seq(Symbol)
       /\ \A i \in DOMAIN rest : use[3] + i \in DOMAIN rhs /\ rest[i] = rhs[use[3] + i] /\ i \in Nat \ {0}
    BY <1>6, <1>8
<1>11. ASSUME NEW i \in DOMAIN rest PROVE rest[i] # g_eps
    <2>1. SUFFICES ASSUME rest[i] = g_eps PROVE FALSE
        OBVIOUS
    <2>2. rhs = <<g_eps>>
        BY <1>7, <1>10, <2>1
    <2>3. DOMAIN rhs = 1 .. 1
        BY <2>2
    <2>4. use[3] \in 1 .. 1 /\ use[3] + i \in 1 .. 1 /\ i \in Nat \ {0}
        BY <1>6, <1>10, <2>3
    <2> QED  BY <2>4
<1>12. ASSUME NEW i \in DOMAIN rest, rest[i] \in NonTerminal PROVE rest[i] \in DOMAIN m_first
    BY <1>7, <1>9, <1>10, <1>12
<1> QED  BY <1>2, <1>4, <1>6, <1>10, <1>11, <1>12 DEF rhs

LEMMA FollowFrameTyped ==
    ASSUME AnalysisOK, NEW N \in NonTerminal
    PROVE  FollowFrame(N) \in FollowFrames /\ FollowFrame(N).uses \subseteq Uses(FollowFrame(N).nonterm)
<1>1. Uses(N) \subseteq Nat \X Nat \X Nat
    BY UsesArePlaces DEF AnalysisOK
<1>2. (IF N = grammar.start THEN {g_end} ELSE {}) \subseteq Symbol
    BY GrammarAssumption DEF Symbol
<1> QED  BY <1>1, <1>2 DEF FollowFrame, FollowFrames

LEMMA FollowStep ==
    ASSUME AnalysisOK, phase = "follow", CalcFollow \/ CallFollow \/ AddFollow \/ StoreFollow
    PROVE  AnalysisOK'
<1>1. /\ frames \in Seq(FollowFrames)
      /\ \A f \in Range(frames) : f.uses \subseteq Uses(f.nonterm)
    BY DEF AnalysisOK, FramesOK
<1>2. UNCHANGED <<grammar, phase, m_first>>
    BY DEF CalcFollow, CallFollow, AddFollow, StoreFollow
<1>3. GrammarKept' /\ FirstMade' /\ \A N : Uses(N)' = Uses(N)
    BY <1>2 DEF AnalysisOK, GrammarKept, FirstMade, Listed, Uses
<1>4. ASSUME NEW N \in NonTerminal
      PROVE  FollowFrame(N) \in FollowFrames /\ FollowFrame(N).uses \subseteq Uses(FollowFrame(N).nonterm)
    BY FollowFrameTyped
<1>5. CASE CalcFollow
    <2>1. frames = <<>> /\ todo # <<>> /\ todo' = Tail(todo) /\ UNCHANGED m_follow
        BY <1>5 DEF CalcFollow
    <2>2. Head(todo) \in NonTerminal /\ todo' \in Seq(NonTerminal)
        BY <2>1, RangeOfTail DEF AnalysisOK
    <2> DEFINE f == FollowFrame(Head(todo))
    <2>3. f \in FollowFrames /\ f.uses \subseteq Uses(f.nonterm)
        BY <1>4, <2>2
    <2>4. frames' = <<>> \/ frames' = <<f>>
        BY <1>5 DEF CalcFollow
    <2> HIDE DEF f
    <2>5. frames' \in Seq(FollowFrames) /\ Range(frames') \subseteq {f}
        <3>1. CASE frames' = <<>>
            BY <3>1 DEF Range
        <3>2. CASE frames' = <<f>>
            BY <2>3, <3>2 DEF Range
        <3> QED  BY <2>4, <3>1, <3>2
    <2>6. FramesOK'
        BY <1>2, <1>3, <2>3, <2>5 DEF FramesOK
    <2> QED  BY <1>2, <1>3, <2>1, <2>2, <2>6 DEF AnalysisOK
<1>6. CASE CallFollow
    <2>1. frames' = Append(frames, FollowFrame(lhs)) /\ AtUse /\ UNCHANGED <<todo, m_follow>>
        BY <1>6 DEF CallFollow
    <2> DEFINE f == FollowFrame(lhs)
    <2>2. f \in FollowFrames /\ f.uses \subseteq Uses(f.nonterm)
        BY <1>4, <2>1, AtTheUse
    <2> HIDE DEF f
    <2>3. frames' \in Seq(FollowFrames) /\ Range(frames') = Range(frames) \cup {f}
        BY <1>1, <2>1, <2>2, PushTop DEF f
    <2>4. FramesOK'
        BY <1>1, <1>2, <1>3, <2>2, <2>3 DEF FramesOK
    <2> QED  BY <1>2, <1>3, <2>1, <2>4 DEF AnalysisOK
<1>7. CASE AddFollow
    <2> DEFINE set == IF NothingBehind THEN At(m_follow, lhs) ELSE {}
               x == [top EXCEPT !.uses = @ \ {use}, !.found = @ \cup Following \cup set]
    <2>1. /\ AtUse /\ frames # <<>> /\ frames' = Append(callers, x) /\ UNCHANGED todo
          /\ m_follow' = IF NothingBehind THEN Put(m_follow, lhs, set) ELSE m_follow
        BY <1>7 DEF AddFollow, AtUse
    <2>2. set \subseteq Symbol
        BY DEF At, AnalysisOK
    <2>3. Following \subseteq Symbol
        BY <2>1, AtTheUse DEF Following, AnalysisOK
    <2>4. top \in FollowFrames /\ top \in Range(frames)
        BY <2>1, AtTheUse
    <2>5. \A N \in DOMAIN m_follow' : m_follow'[N] \subseteq Symbol
        BY <2>1, <2>2 DEF Put, AnalysisOK
    <2> HIDE DEF set
    <2>6. x \in FollowFrames /\ x.nonterm = top.nonterm /\ x.uses \subseteq top.uses
        BY <2>2, <2>3, <2>4 DEF FollowFrames
    <2> HIDE DEF x
    <2>7. frames' \in Seq(FollowFrames) /\ Range(frames') \subseteq Range(frames) \cup {x}
        BY <1>1, <2>1, <2>6, Stack
    <2>8. x.uses \subseteq Uses(x.nonterm)
        BY <1>1, <2>4, <2>6
    <2>9. FramesOK'
        BY <1>1, <1>2, <1>3, <2>7, <2>8 DEF FramesOK
    <2> QED  BY <1>2, <1>3, <2>1, <2>5, <2>9 DEF AnalysisOK
<1>8. CASE StoreFollow
    <2>1. /\ frames # <<>> /\ frames' = callers /\ UNCHANGED todo
          /\ m_follow' = Put(m_follow, top.nonterm, top.found)
        BY <1>8 DEF StoreFollow
    <2>2. /\ frames' \in Seq(FollowFrames) /\ Range(frames') \subseteq Range(frames)
          /\ top \in FollowFrames
        BY <1>1, <2>1, Stack
    <2>3. \A N \in DOMAIN m_follow' : m_follow'[N] \subseteq Symbol
        BY <2>1, <2>2 DEF Put, AnalysisOK, FollowFrames
    <2>4. FramesOK'
        BY <1>1, <1>2, <1>3, <2>2 DEF FramesOK
    <2> QED  BY <1>2, <1>3, <2>1, <2>3, <2>4 DEF AnalysisOK
<1> QED  BY <1>5, <1>6, <1>7, <1>8

LEMMA AnalysisStep == ASSUME AnalysisOK, FFStep PROVE AnalysisOK'
<1>1. phase # "recursion"
    BY DEF AnalysisOK
<1>2. CASE NextPhase
    <2>1. /\ todo = <<>> /\ frames = <<>> /\ phase \in {"first", "follow"}
          /\ phase' = IF phase = "first" THEN "follow" ELSE "done"
          /\ todo' = IF phase' = "done" THEN <<>> ELSE grammar.m_nonterminals
          /\ UNCHANGED <<grammar, m_first, m_follow, frames>>
        BY <1>2 DEF NextPhase, AnalysisOK
    <2>2. GrammarKept'
        BY <2>1 DEF AnalysisOK, GrammarKept, Listed
    <2>3. todo' \in Seq(NonTerminal)
        BY <2>1 DEF AnalysisOK, GrammarKept, Grammar
    <2>4. FramesOK'
        BY <2>1 DEF FramesOK, Range
    <2>5. Range(todo) = {}
        BY <2>1 DEF Range
    <2>6. FirstMade'
        BY <2>1, <2>5 DEF AnalysisOK, FirstMade, Listed
    <2> QED  BY <2>1, <2>2, <2>3, <2>4, <2>6 DEF AnalysisOK
<1>3. CASE CalcFirst \/ AddTerminal \/ CallFirst \/ AddFirst \/ EndOfRule \/ StoreFirst
    <2>1. phase = "first"
        BY <1>3 DEF CalcFirst, AddTerminal, CallFirst, AddFirst, EndOfRule, StoreFirst
    <2> QED  BY <1>3, <2>1, FirstStep
<1>4. CASE CalcFollow \/ CallFollow \/ AddFollow \/ StoreFollow
    <2>1. phase = "follow"
        BY <1>4 DEF CalcFollow, CallFollow, AddFollow, StoreFollow, AtUse
    <2> QED  BY <1>4, <2>1, FollowStep
<1>5. ~RemoveLeftRecursion
    BY <1>1 DEF RemoveLeftRecursion
<1> QED  BY <1>2, <1>3, <1>4, <1>5 DEF FFStep

LEMMA AnalysisKept == ASSUME AnalysisOK, UNCHANGED ffvars PROVE AnalysisOK'
BY DEF AnalysisOK, ffvars, GrammarKept, FramesOK, FirstMade, Listed, Uses

\* What LL1Next does to the analysis.
LEMMA AnalysisOrNot ==
    ASSUME [LL1Next]_<<ffvars, ll1vars>>
    PROVE  FFStep \/ UNCHANGED ffvars
BY DEF LL1Next, Analyse, CalcTable, Begin, Choose, Match, CallFunction, ReturnFunction, LL1Done

THEOREM AnalysisAlways == LL1Spec /\ phase = "first" => []AnalysisOK
<1>1. LL1Init /\ phase = "first" => AnalysisOK
    BY InitOK DEF LL1Init
<1>2. AnalysisOK /\ [LL1Next]_<<ffvars, ll1vars>> => AnalysisOK'
    BY AnalysisOrNot, AnalysisStep, AnalysisKept
<1> QED  BY <1>1, <1>2, PTL DEF LL1Spec

-----------------------------------------------------------------------------
(***************************************************************************)
(* Soundness, for sets F and G that have all that the rules imply.  What a   *)
(* call has found in a rule belongs to the FIRST set of its nonterminal, as  *)
(* it has come only past nonterminals that may be empty.                     *)
(***************************************************************************)
FirstFramesSound(F) ==
    phase = "first" =>
        \A f \in Range(frames) :
            /\ \A r \in DOMAIN f.found : f.found[r] \subseteq F[f.nonterm]
            /\ f.rule \in DOMAIN grammar.rules[f.nonterm] =>
                   LET rhs == grammar.rules[f.nonterm][f.rule]
                   IN  \A j \in DOMAIN rhs : j < f.sym =>
                           rhs[j] \in NonTerminal /\ g_eps \in F[rhs[j]]

FollowFramesSound(G) ==
    phase = "follow" => \A f \in Range(frames) : f.found \subseteq G[f.nonterm]

AllSound(F, G) ==
    FirstClosed(F) /\ FollowClosed(F, G) =>
        /\ \A N \in DOMAIN m_first : m_first[N] \subseteq F[N]
        /\ \A N \in DOMAIN m_follow : m_follow[N] \subseteq G[N]
        /\ FirstFramesSound(F)
        /\ FollowFramesSound(G)

\* Calculated sets that belong to one word: what FirstOf consists of.
LEMMA InFirstOf ==
    ASSUME NEW F, NEW word \in Seq(Symbol), NEW i \in DOMAIN word,
           \A j \in DOMAIN word : j < i => word[j] \in NonTerminal /\ g_eps \in F[word[j]]
    PROVE  /\ word[i] \notin NonTerminal => {word[i]} \ {g_eps} \subseteq FirstOf(F, word)
           /\ word[i] \in NonTerminal => F[word[i]] \ {g_eps} \subseteq FirstOf(F, word)
           /\ i = Len(word) /\ word[i] = g_eps => g_eps \in FirstOf(F, word)
           /\ i = Len(word) /\ word[i] \in NonTerminal /\ g_eps \in F[word[i]] => g_eps \in FirstOf(F, word)
<1> DEFINE Sets(X) == IF X \in NonTerminal THEN F[X] ELSE {X}
           Reached(k) == \A j \in 1 .. k - 1 : g_eps \in Sets(word[j])
<1>1. FirstOf(F, word) = (UNION {Sets(word[k]) \ {g_eps} : k \in {l \in DOMAIN word : Reached(l)}})
                             \cup (IF Reached(Len(word) + 1) THEN {g_eps} ELSE {})
    BY DEF FirstOf
<1>2. i \in Nat \ {0} /\ Len(word) \in Nat /\ DOMAIN word = 1 .. Len(word)
    OBVIOUS
<1>3. Reached(i)
    BY <1>2
<1>4. Sets(word[i]) \ {g_eps} \subseteq FirstOf(F, word)
    BY <1>1, <1>3
<1>5. ASSUME i = Len(word), g_eps \in Sets(word[i]) PROVE g_eps \in FirstOf(F, word)
    <2>1. ASSUME NEW j \in 1 .. (Len(word) + 1) - 1 PROVE g_eps \in Sets(word[j])
        <3>1. j = i \/ j \in 1 .. i - 1
            <4>1. (Len(word) + 1) - 1 = i
                BY <1>2, <1>5
            <4>2. j \in 1 .. i
                BY <4>1
            <4> QED  BY <1>2, <4>2
        <3> QED  BY <1>3, <1>5, <3>1
    <2>2. Reached(Len(word) + 1)
        BY <2>1
    <2> QED  BY <1>1, <2>2
<1>6. g_eps \notin NonTerminal
    BY GrammarAssumption
<1> QED  BY <1>4, <1>5, <1>6

\* A word of which every symbol may be empty, and the word without symbols.
LEMMA AllEmpty ==
    ASSUME NEW F, NEW word \in Seq(Symbol),
           \A j \in DOMAIN word : word[j] \in NonTerminal /\ g_eps \in F[word[j]]
    PROVE  g_eps \in FirstOf(F, word)
<1> DEFINE Sets(X) == IF X \in NonTerminal THEN F[X] ELSE {X}
<1>1. \A j \in 1 .. (Len(word) + 1) - 1 : g_eps \in Sets(word[j])
    <2>1. (Len(word) + 1) - 1 = Len(word) /\ DOMAIN word = 1 .. Len(word)
        OBVIOUS
    <2> QED  BY <2>1
<1> QED  BY <1>1 DEF FirstOf

LEMMA FirstSound ==
    ASSUME NEW F, NEW G, AnalysisOK, FirstClosed(F), FollowClosed(F, G), AllSound(F, G),
           phase = "first",
           CalcFirst \/ AddTerminal \/ CallFirst \/ AddFirst \/ EndOfRule \/ StoreFirst
    PROVE  AllSound(F, G)'
<1>1. /\ frames \in Seq(FirstFrames)
      /\ \A f \in Range(frames) : DOMAIN f.found = DOMAIN grammar.rules[f.nonterm]
    BY DEF AnalysisOK, FramesOK
<1>2. /\ \A N \in DOMAIN m_first : m_first[N] \subseteq F[N]
      /\ \A N \in DOMAIN m_follow : m_follow[N] \subseteq G[N]
      /\ FirstFramesSound(F)
    BY DEF AllSound
<1>3. UNCHANGED <<grammar, phase, m_follow>>
    BY DEF CalcFirst, AddTerminal, CallFirst, AddFirst, EndOfRule, StoreFirst
<1>4. FollowFramesSound(G)'
    BY <1>3 DEF FollowFramesSound
<1> DEFINE FrameSound(f) ==
               /\ \A r \in DOMAIN f.found : f.found[r] \subseteq F[f.nonterm]
               /\ f.rule \in DOMAIN grammar.rules[f.nonterm] =>
                      LET rhs == grammar.rules[f.nonterm][f.rule]
                      IN  \A j \in DOMAIN rhs : j < f.sym =>
                              rhs[j] \in NonTerminal /\ g_eps \in F[rhs[j]]
<1>5. \A f \in Range(frames) : FrameSound(f)
    BY <1>2 DEF FirstFramesSound
<1>6. (\A f \in Range(frames') : FrameSound(f)) => FirstFramesSound(F)'
    BY <1>3 DEF FirstFramesSound
<1>7. ASSUME NEW N \in NonTerminal PROVE FrameSound(FirstFrame(N))
    <2>1. FirstFrame(N).sym = 1 /\ FirstFrame(N).rule = 1 /\ FirstFrame(N).nonterm = N
        BY DEF FirstFrame
    <2>2. \A r \in DOMAIN FirstFrame(N).found : FirstFrame(N).found[r] = {}
        BY DEF FirstFrame
    <2>3. grammar.rules[N] \in Seq(Seq(Symbol))
        BY DEF AnalysisOK, GrammarKept, Grammar
    <2> QED  BY <2>1, <2>2, <2>3
\* The newest call, when it is at a symbol.
<1>8. ASSUME AtSymbol
      PROVE  /\ top \in FirstFrames /\ FrameSound(top)
             /\ top.rule \in DOMAIN grammar.rules[top.nonterm]
             /\ rhs_ = grammar.rules[top.nonterm][top.rule]
             /\ rhs_ \in Seq(Symbol) /\ top.sym \in DOMAIN rhs_ /\ top.sym \in Nat \ {0}
             /\ \A j \in DOMAIN rhs_ : j < top.sym => rhs_[j] \in NonTerminal /\ g_eps \in F[rhs_[j]]
             /\ FirstOf(F, rhs_) \subseteq F[top.nonterm]
    <2>1. frames # <<>>
        BY <1>8 DEF AtSymbol, InRule
    <2>2. top \in Range(frames)
        BY <1>1, <2>1, Stack
    <2>3. /\ top \in FirstFrames /\ DOMAIN top.found = DOMAIN grammar.rules[top.nonterm]
          /\ top.rule \in DOMAIN top.found /\ rhs_ \in Seq(Symbol) /\ top.sym \in DOMAIN rhs_
        BY <1>8, FirstFrameChanged
    <2>4. FrameSound(top)
        BY <1>5, <2>2
    <2>5. top.nonterm \in NonTerminal /\ top.sym \in Nat \ {0}
        BY <2>3 DEF FirstFrames
    <2>6. FirstOf(F, rhs_) \subseteq F[top.nonterm]
        BY <2>3, <2>5 DEF FirstClosed, rhs_
    <2> QED  BY <2>3, <2>4, <2>5, <2>6 DEF rhs_
\* In the rule that comes next nothing is passed yet.
<1>a. ASSUME NEW f \in FirstFrames, \A r \in DOMAIN f.found : f.found[r] \subseteq F[f.nonterm]
      PROVE  FrameSound(NextRule(f))
    <2>1. /\ NextRule(f).nonterm = f.nonterm /\ NextRule(f).found = f.found
          /\ NextRule(f).rule = f.rule + 1 /\ NextRule(f).sym = 1
        BY NextRuleCall
    <2>2. grammar.rules[f.nonterm] \in Seq(Seq(Symbol))
        BY DEF AnalysisOK, GrammarKept, Grammar, FirstFrames
    <2>3. \A r \in DOMAIN grammar.rules[f.nonterm] :
              \A j \in DOMAIN grammar.rules[f.nonterm][r] : ~(j < 1)
        BY <2>2
    <2> QED  BY <1>a, <2>1, <2>3
<1>b. ASSUME AtSymbol, NEW set \in SUBSET Symbol, set \subseteq F[top.nonterm]
      PROVE  LET more == [top EXCEPT !.found = AlsoFound(set)]
             IN  /\ more \in FirstFrames
                 /\ more.nonterm = top.nonterm /\ more.rule = top.rule /\ more.sym = top.sym
                 /\ \A r \in DOMAIN more.found : more.found[r] \subseteq F[more.nonterm]
    <2> DEFINE found == AlsoFound(set)
               more == [top EXCEPT !.found = found]
    <2>1. /\ found \in UNION {[1 .. n -> SUBSET Symbol] : n \in Nat}
          /\ DOMAIN found = DOMAIN top.found
          /\ \A r \in DOMAIN found :
                 found[r] = IF r = top.rule THEN top.found[r] \cup set ELSE top.found[r]
        BY <1>b, FirstFrameChanged
    <2> HIDE DEF found
    <2>2. /\ more \in FirstFrames /\ more.nonterm = top.nonterm /\ more.found = found
          /\ more.rule = top.rule /\ more.sym = top.sym
        BY <1>8, <1>b, <2>1, FoundMoreCall
    <2> HIDE DEF more
    <2>3. \A r \in DOMAIN top.found : top.found[r] \subseteq F[top.nonterm]
        BY <1>8, <1>b
    <2>4. \A r \in DOMAIN more.found : more.found[r] \subseteq F[more.nonterm]
        BY <1>b, <2>1, <2>2, <2>3
    <2> QED  BY <2>2, <2>4 DEF more, found
<1>c. ASSUME NEW x \in FirstFrames, FrameSound(x), frames # <<>>, frames' = Append(callers, x)
      PROVE  FirstFramesSound(F)'
    <2>1. Range(frames') \subseteq Range(frames) \cup {x}
        BY <1>1, <1>c, Stack
    <2> QED  BY <1>5, <1>6, <1>c, <2>1
<1> HIDE DEF FrameSound
<1>9. CASE CalcFirst
    <2>1. frames' = <<>> \/ frames' = <<FirstFrame(Head(todo))>>
        BY <1>9 DEF CalcFirst
    <2>2. Head(todo) \in NonTerminal /\ UNCHANGED m_first
        BY <1>9, RangeOfTail DEF CalcFirst, AnalysisOK
    <2>3. \A f \in Range(frames') : FrameSound(f)
        BY <1>7, <2>1, <2>2 DEF Range
    <2> QED  BY <1>2, <1>3, <1>4, <1>6, <2>2, <2>3 DEF AllSound
<1>10. CASE AddTerminal
    <2> DEFINE more == [top EXCEPT !.found = AlsoFound({sym_})]
    <2>1. /\ AtSymbol /\ frames # <<>> /\ sym_ \notin NonTerminal
          /\ frames' = Append(callers, NextRule(more)) /\ UNCHANGED m_first
        BY <1>10 DEF AddTerminal
    <2>2. sym_ = rhs_[top.sym] /\ sym_ \in Symbol
        BY <1>8, <2>1 DEF sym_
    <2>3. sym_ \in F[top.nonterm]
        <3>1. CASE sym_ # g_eps
            BY <1>8, <2>1, <2>2, <3>1, InFirstOf
        <3>2. CASE sym_ = g_eps
            <4>1. rhs_ = <<g_eps>>
                <5>1. top.nonterm \in NonTerminal
                    BY <1>8, <2>1 DEF FirstFrames
                <5>2. \A i \in DOMAIN rhs_ : rhs_[i] = g_eps => rhs_ = <<g_eps>>
                    <6>1. GrammarKept
                        BY DEF AnalysisOK
                    <6> QED  BY <1>8, <2>1, <5>1, <6>1 DEF GrammarKept
                <5> QED  BY <1>8, <2>1, <2>2, <3>2, <5>2
            <4>2. top.sym = Len(rhs_)
                BY <1>8, <2>1, <4>1
            <4> QED  BY <1>8, <2>1, <2>2, <3>2, <4>2, InFirstOf
        <3> QED  BY <3>1, <3>2
    <2>4. more \in FirstFrames /\ \A r \in DOMAIN more.found : more.found[r] \subseteq F[more.nonterm]
        BY <1>b, <2>1, <2>2, <2>3
    <2> HIDE DEF more
    <2>5. NextRule(more) \in FirstFrames /\ FrameSound(NextRule(more))
        BY <1>a, <2>4, NextRuleCall
    <2>6. FirstFramesSound(F)'
        BY <1>c, <2>1, <2>5
    <2> QED  BY <1>2, <1>3, <1>4, <2>1, <2>6 DEF AllSound
<1>11. CASE CallFirst
    <2>1. frames' = Append(frames, FirstFrame(sym_)) /\ sym_ \in NonTerminal /\ UNCHANGED m_first
        BY <1>11 DEF CallFirst
    <2>2. FirstFrame(sym_) \in FirstFrames
        BY <2>1, FirstFrameTyped
    <2>3. Range(frames') = Range(frames) \cup {FirstFrame(sym_)}
        BY <1>1, <2>1, <2>2, PushTop
    <2>4. \A f \in Range(frames') : FrameSound(f)
        BY <1>5, <1>7, <2>1, <2>3
    <2> QED  BY <1>2, <1>3, <1>4, <1>6, <2>1, <2>4 DEF AllSound
<1>12. CASE AddFirst
    <2> DEFINE set == At(m_first, sym_)
               more == [top EXCEPT !.found = AlsoFound(Inserted(set))]
               x == IF g_eps \in set THEN NextSymbol(more) ELSE NextRule(more)
    <2>1. /\ AtSymbol /\ frames # <<>> /\ frames' = Append(callers, x) /\ sym_ \in NonTerminal
          /\ m_first' = Put(m_first, sym_, set)
        BY <1>12 DEF AddFirst
    <2>2. sym_ = rhs_[top.sym]
        BY DEF sym_
    <2>3. set \subseteq F[sym_] /\ set \subseteq Symbol
        BY <1>2 DEF At, AnalysisOK
    <2>4. Inserted(set) \subseteq F[top.nonterm] /\ Inserted(set) \subseteq Symbol
        <3>1. F[sym_] \ {g_eps} \subseteq F[top.nonterm]
            BY <1>8, <2>1, <2>2, InFirstOf
        <3>2. top.sym = Len(rhs_) /\ g_eps \in F[sym_] => g_eps \in F[top.nonterm]
            BY <1>8, <2>1, <2>2, InFirstOf
        <3> QED  BY <2>3, <3>1, <3>2 DEF Inserted
    <2>5. /\ more \in FirstFrames
          /\ more.nonterm = top.nonterm /\ more.rule = top.rule /\ more.sym = top.sym
          /\ \A r \in DOMAIN more.found : more.found[r] \subseteq F[more.nonterm]
        BY <1>b, <2>1, <2>4
    <2>6. \A N \in DOMAIN m_first' : m_first'[N] \subseteq F[N]
        BY <1>2, <2>1, <2>3 DEF Put
    <2> HIDE DEF set, more
    <2>7. x \in FirstFrames /\ FrameSound(x)
        <3>1. CASE g_eps \notin set
            BY <1>a, <2>5, <3>1, NextRuleCall
        <3>2. CASE g_eps \in set
            <4> DEFINE y == NextSymbol(more)
            <4>1. /\ y \in FirstFrames /\ y.nonterm = top.nonterm /\ y.found = more.found
                  /\ y.rule = top.rule /\ y.sym = top.sym + 1
                BY <2>5, NextSymbolCall
            <4> HIDE DEF y
            <4>2. g_eps \in F[rhs_[top.sym]] /\ rhs_[top.sym] \in NonTerminal
                BY <2>1, <2>2, <2>3, <3>2
            <4>3. \A j \in DOMAIN rhs_ : j < top.sym + 1 => j < top.sym \/ j = top.sym
                BY <1>8, <2>1
            <4>4. \A j \in DOMAIN rhs_ : j < y.sym => rhs_[j] \in NonTerminal /\ g_eps \in F[rhs_[j]]
                BY <1>8, <2>1, <4>1, <4>2, <4>3
            <4>5. FrameSound(y)
                BY <2>5, <4>1, <4>4 DEF FrameSound, rhs_
            <4> QED  BY <3>2, <4>1, <4>5 DEF y
        <3> QED  BY <3>1, <3>2
    <2> HIDE DEF x
    <2>8. FirstFramesSound(F)'
        BY <1>c, <2>1, <2>7
    <2> QED  BY <1>2, <1>3, <1>4, <2>6, <2>8 DEF AllSound
<1>13. CASE EndOfRule
    <2>1. frames # <<>> /\ frames' = Append(callers, NextRule(top)) /\ UNCHANGED m_first
        BY <1>13 DEF EndOfRule, InRule
    <2>2. top \in FirstFrames /\ FrameSound(top)
        BY <1>1, <1>5, <2>1, Stack
    <2>3. \A r \in DOMAIN top.found : top.found[r] \subseteq F[top.nonterm]
        BY <2>2 DEF FrameSound
    <2>4. NextRule(top) \in FirstFrames /\ FrameSound(NextRule(top))
        BY <1>a, <2>2, <2>3, NextRuleCall
    <2>5. FirstFramesSound(F)'
        BY <1>c, <2>1, <2>4
    <2> QED  BY <1>2, <1>3, <1>4, <2>1, <2>5 DEF AllSound
<1>14. CASE StoreFirst
    <2> DEFINE set == UNION {top.found[r] : r \in DOMAIN top.found}
    <2>1. /\ frames # <<>> /\ frames' = callers /\ m_first' = Put(m_first, top.nonterm, set)
        BY <1>14 DEF StoreFirst
    <2>2. Range(frames') \subseteq Range(frames) /\ top \in Range(frames)
        BY <1>1, <2>1, Stack
    <2>3. set \subseteq F[top.nonterm]
        BY <1>5, <2>2 DEF FrameSound
    <2>4. \A N \in DOMAIN m_first' : m_first'[N] \subseteq F[N]
        BY <1>2, <2>1, <2>3 DEF Put
    <2>5. FirstFramesSound(F)'
        BY <1>5, <1>6, <2>2
    <2> QED  BY <1>2, <1>3, <1>4, <2>4, <2>5 DEF AllSound
<1> QED  BY <1>9, <1>10, <1>11, <1>12, <1>13, <1>14

LEMMA FollowSound ==
    ASSUME NEW F, NEW G, AnalysisOK, FirstClosed(F), FollowClosed(F, G), AllSound(F, G),
           phase = "follow", CalcFollow \/ CallFollow \/ AddFollow \/ StoreFollow
    PROVE  AllSound(F, G)'
<1>1. frames \in Seq(FollowFrames)
    BY DEF AnalysisOK, FramesOK
<1>2. /\ \A N \in DOMAIN m_first : m_first[N] \subseteq F[N]
      /\ \A N \in DOMAIN m_follow : m_follow[N] \subseteq G[N]
      /\ \A f \in Range(frames) : f.found \subseteq G[f.nonterm]
    BY DEF AllSound, FollowFramesSound
<1>3. UNCHANGED <<grammar, phase, m_first>>
    BY DEF CalcFollow, CallFollow, AddFollow, StoreFollow
<1>4. FirstFramesSound(F)'
    BY <1>3 DEF FirstFramesSound
<1>5. \A N : FollowFrame(N).nonterm = N /\ FollowFrame(N).found \subseteq G[N]
    BY DEF FollowFrame, FollowClosed
<1>6. CASE CalcFollow
    <2>1. frames' \in {<<>>, <<FollowFrame(Head(todo))>>} /\ UNCHANGED m_follow
        BY <1>6 DEF CalcFollow
    <2>2. Range(frames') \subseteq {FollowFrame(Head(todo))}
        BY <2>1 DEF Range
    <2> QED  BY <1>2, <1>3, <1>4, <1>5, <2>1, <2>2 DEF AllSound, FollowFramesSound
<1>7. CASE CallFollow
    <2>1. frames' = Append(frames, FollowFrame(lhs)) /\ AtUse /\ UNCHANGED m_follow
        BY <1>7 DEF CallFollow
    <2>2. FollowFrame(lhs) \in FollowFrames
        BY <2>1, AtTheUse, FollowFrameTyped
    <2>3. Range(frames') = Range(frames) \cup {FollowFrame(lhs)}
        BY <1>1, <2>1, <2>2, PushTop
    <2> QED  BY <1>2, <1>3, <1>4, <1>5, <2>1, <2>3 DEF AllSound, FollowFramesSound
<1>8. CASE AddFollow
    <2> DEFINE set == IF NothingBehind THEN At(m_follow, lhs) ELSE {}
               x == [top EXCEPT !.uses = @ \ {use}, !.found = @ \cup Following \cup set]
    <2>1. /\ AtUse /\ frames # <<>> /\ frames' = Append(callers, x)
          /\ m_follow' = IF NothingBehind THEN Put(m_follow, lhs, set) ELSE m_follow
        BY <1>8 DEF AddFollow, AtUse
    <2> DEFINE rhs == grammar.rules[lhs][use[2]]
    <2>2. /\ top \in FollowFrames /\ top \in Range(frames)
          /\ lhs \in NonTerminal /\ use[2] \in DOMAIN grammar.rules[lhs] /\ use[3] \in DOMAIN rhs
          /\ rhs \in Seq(Symbol) /\ rhs[use[3]] = top.nonterm
          /\ rest \in Seq(Symbol) /\ rest = SubSeq(rhs, use[3] + 1, Len(rhs))
          /\ \A i \in DOMAIN rest : /\ rest[i] # g_eps
                                    /\ rest[i] \in NonTerminal => rest[i] \in DOMAIN m_first
        BY <2>1, AtTheUse DEF rest
    \* What the rules imply for the nonterminal that is used.
    <2>3. /\ FirstOf(F, rest) \ {g_eps} \subseteq G[top.nonterm]
          /\ g_eps \in FirstOf(F, rest) => G[lhs] \subseteq G[top.nonterm]
        <3>1. top.nonterm \in NonTerminal
            BY <2>2 DEF FollowFrames
        <3> QED  BY <2>2, <3>1 DEF FollowClosed
    <2>4. ASSUME NEW X, MayBeEmpty(X) PROVE X \in NonTerminal /\ g_eps \in F[X]
        <3>1. X \in NonTerminal
            BY <2>4 DEF MayBeEmpty
        <3>2. PICK r \in DOMAIN grammar.rules[X] : grammar.rules[X][r] = <<g_eps>>
            BY <2>4 DEF MayBeEmpty, HasEpsRule
        <3>3. g_eps \in FirstOf(F, <<g_eps>>)
            <4>1. <<g_eps>> \in Seq(Symbol) /\ 1 \in DOMAIN <<g_eps>> /\ Len(<<g_eps>>) = 1 /\ <<g_eps>>[1] = g_eps
                BY DEF Symbol
            <4>2. \A j \in DOMAIN <<g_eps>> : ~(j < 1)
                OBVIOUS
            <4> QED  BY <4>1, <4>2, InFirstOf
        <3> QED  BY <3>1, <3>2, <3>3 DEF FirstClosed
    <2>5. Following \subseteq G[top.nonterm]
        <3>1. SUFFICES ASSUME NEW i \in DOMAIN rest, \A k \in 1 .. i - 1 : MayBeEmpty(rest[k])
                       PROVE  (IF rest[i] \in NonTerminal THEN m_first[rest[i]] \ {g_eps} ELSE {rest[i]})
                                  \subseteq G[top.nonterm]
            BY DEF Following
        <3>2. \A j \in DOMAIN rest : j < i => rest[j] \in NonTerminal /\ g_eps \in F[rest[j]]
            <4>1. \A j \in DOMAIN rest : j < i => j \in 1 .. i - 1
                BY <2>2, <3>1
            <4> QED  BY <2>4, <3>1, <4>1
        <3>3. CASE rest[i] \in NonTerminal
            <4>1. F[rest[i]] \ {g_eps} \subseteq FirstOf(F, rest)
                BY <2>2, <3>2, <3>3, InFirstOf
            <4>2. m_first[rest[i]] \subseteq F[rest[i]]
                BY <1>2, <2>2, <3>3
            <4> QED  BY <2>3, <3>3, <4>1, <4>2
        <3>4. CASE rest[i] \notin NonTerminal
            <4>1. {rest[i]} \ {g_eps} \subseteq FirstOf(F, rest)
                BY <2>2, <3>2, <3>4, InFirstOf
            <4> QED  BY <2>2, <2>3, <3>4, <4>1
        <3> QED  BY <3>3, <3>4
    <2>6. NothingBehind => g_eps \in FirstOf(F, rest)
        <3>1. SUFFICES ASSUME NothingBehind PROVE g_eps \in FirstOf(F, rest)
            OBVIOUS
        <3>2. \A i \in DOMAIN rest : rest[i] \in NonTerminal /\ g_eps \in F[rest[i]]
            BY <2>4, <3>1 DEF NothingBehind
        <3> QED  BY <2>2, <3>2, AllEmpty
    <2>7. set \subseteq G[lhs] /\ set \subseteq G[top.nonterm]
        BY <1>2, <2>3, <2>6 DEF At
    <2>8. \A N \in DOMAIN m_follow' : m_follow'[N] \subseteq G[N]
        BY <1>2, <2>1, <2>7 DEF Put
    <2> HIDE DEF set
    <2>9. x \in FollowFrames /\ x.nonterm = top.nonterm /\ x.found \subseteq G[top.nonterm]
        <3>1. x.nonterm = top.nonterm /\ x.found = top.found \cup Following \cup set
            BY <2>2 DEF FollowFrames
        <3>2. top.found \subseteq G[top.nonterm]
            BY <1>2, <2>2
        <3>3. x \in FollowFrames
            <4>1. set \subseteq Symbol
                BY DEF At, AnalysisOK, set
            <4>2. Following \subseteq Symbol
                BY <2>1, AtTheUse DEF Following, AnalysisOK
            <4> QED  BY <2>2, <4>1, <4>2 DEF FollowFrames
        <3> QED  BY <2>5, <2>7, <3>1, <3>2, <3>3
    <2> HIDE DEF x
    <2>10. Range(frames') \subseteq Range(frames) \cup {x}
        BY <1>1, <2>1, <2>9, Stack
    <2> QED  BY <1>2, <1>3, <1>4, <2>8, <2>9, <2>10 DEF AllSound, FollowFramesSound
<1>9. CASE StoreFollow
    <2>1. frames # <<>> /\ frames' = callers /\ m_follow' = Put(m_follow, top.nonterm, top.found)
        BY <1>9 DEF StoreFollow
    <2>2. Range(frames') \subseteq Range(frames) /\ top \in Range(frames)
        BY <1>1, <2>1, Stack
    <2>3. \A N \in DOMAIN m_follow' : m_follow'[N] \subseteq G[N]
        BY <1>2, <2>1, <2>2 DEF Put
    <2> QED  BY <1>2, <1>3, <1>4, <2>2, <2>3 DEF AllSound, FollowFramesSound
<1> QED  BY <1>6, <1>7, <1>8, <1>9

\* The sets of calc_first and calc_follow are sound at every time of an
\* analysis, in whatever order it comes to the nonterminals and whatever calls
\* are in progress: they hold no symbol that is not in the textbook's sets.
THEOREM SetsAlwaysSound ==
    ASSUME NEW F, NEW G
    PROVE  LL1Spec /\ phase = "first" => []SetsSound(F, G)
<1> DEFINE IInv == AnalysisOK /\ AllSound(F, G)
<1>1. LL1Init /\ phase = "first" => IInv
    <2> SUFFICES ASSUME LL1Init, phase = "first" PROVE IInv
        OBVIOUS
    <2>1. m_first = <<>> /\ m_follow = <<>> /\ frames = <<>>
        BY DEF LL1Init, FFInit
    <2>2. DOMAIN m_first = {} /\ DOMAIN m_follow = {} /\ Range(frames) = {}
        BY <2>1 DEF Range
    <2>3. AllSound(F, G)
        BY <2>2 DEF AllSound, FirstFramesSound, FollowFramesSound
    <2> QED  BY <2>3, InitOK DEF LL1Init
<1>2. IInv /\ [LL1Next]_<<ffvars, ll1vars>> => IInv'
    <2> SUFFICES ASSUME IInv, FFStep \/ UNCHANGED ffvars PROVE IInv'
        BY AnalysisOrNot
    <2>1. AnalysisOK'
        BY AnalysisStep, AnalysisKept
    <2>2. grammar' = grammar
        BY DEF AnalysisOK, FFStep, ffvars, RemoveLeftRecursion, NextPhase, CalcFirst, AddTerminal,
               CallFirst, AddFirst, EndOfRule, StoreFirst, CalcFollow, CallFollow, AddFollow, StoreFollow
    <2>3. (FirstClosed(F) /\ FollowClosed(F, G))' => FirstClosed(F) /\ FollowClosed(F, G)
        BY <2>2 DEF FirstClosed, FollowClosed
    <2>4. SUFFICES ASSUME FirstClosed(F), FollowClosed(F, G) PROVE AllSound(F, G)'
        BY <2>1, <2>3 DEF AllSound
    <2>5. CASE UNCHANGED ffvars
        BY <2>4, <2>5 DEF AllSound, FirstFramesSound, FollowFramesSound, ffvars
    <2>6. CASE NextPhase
        <3>1. frames' = <<>> /\ UNCHANGED <<m_first, m_follow>>
            BY <2>6 DEF NextPhase
        <3>2. Range(frames') = {}
            BY <3>1 DEF Range
        <3> QED  BY <2>4, <3>1, <3>2 DEF AllSound, FirstFramesSound, FollowFramesSound
    <2>7. CASE CalcFirst \/ AddTerminal \/ CallFirst \/ AddFirst \/ EndOfRule \/ StoreFirst
        <3>1. phase = "first"
            BY <2>7 DEF CalcFirst, AddTerminal, CallFirst, AddFirst, EndOfRule, StoreFirst
        <3> QED  BY <2>4, <2>7, <3>1, FirstSound
    <2>8. CASE CalcFollow \/ CallFollow \/ AddFollow \/ StoreFollow
        <3>1. phase = "follow"
            BY <2>8 DEF CalcFollow, CallFollow, AddFollow, StoreFollow, AtUse
        <3> QED  BY <2>4, <2>8, <3>1, FollowSound
    <2>9. ~RemoveLeftRecursion
        BY DEF AnalysisOK, RemoveLeftRecursion
    <2> QED  BY <2>5, <2>6, <2>7, <2>8, <2>9 DEF FFStep
<1>3. IInv => SetsSound(F, G)
    BY DEF AllSound, SetsSound
<1> QED  BY <1>1, <1>2, <1>3, PTL DEF LL1Spec

-----------------------------------------------------------------------------
(***************************************************************************)
(* The invariant of the printed parser: the table is that of the analysis,   *)
(* which has ended; every call is that of a listed nonterminal; and the      *)
(* look-ahead is not past the end symbol, which no function matches.         *)
(***************************************************************************)
GrammarGiven == \E g \in DOMAIN Grammars : grammar \in Ordered(Grammars[g])

Calls == [nonterm : NonTerminal, rule : Nat, sym : Nat \ {0}]

TableMade ==
    result # "none" =>
        /\ phase = "done"
        /\ DOMAIN m_table = Listed
        /\ \A N \in Listed :
               m_table[N] = [t \in {u \in Terminal : RulesAt(N, u) # {}} |-> Entry(N, t)]

CallsOK ==
    /\ functions \in Seq(Calls)
    /\ \A f \in Range(functions) :
           f.nonterm \in Listed /\ (f.rule # 0 => f.rule \in DOMAIN grammar.rules[f.nonterm])

InputOK ==
    result = "running" =>
        /\ input \in Seq(Terminal) /\ input[Len(input)] = g_end
        /\ la \in DOMAIN input

ParserOK ==
    /\ AnalysisOK /\ GrammarGiven
    /\ result \in {"none", "ready"} => functions = <<>> /\ la = 1
    /\ TableMade /\ CallsOK /\ InputOK

LEMMA FunctionStack ==
    ASSUME CallsOK, functions # <<>>
    PROVE  /\ outer \in Seq(Calls) /\ Range(outer) \subseteq Range(functions)
           /\ active \in Calls /\ active \in Range(functions)
           /\ Len(functions) \in Nat /\ Len(outer) = Len(functions) - 1
           /\ \A x \in Calls :
                  /\ Append(outer, x) \in Seq(Calls)
                  /\ Range(Append(outer, x)) \subseteq Range(functions) \cup {x}
                  /\ Append(outer, x)[Len(functions)] = x
<1>0. functions \in Seq(Calls)
    BY DEF CallsOK
<1>1. outer \in Seq(Calls)
    BY <1>0, Below DEF outer
<1>2. Len(outer) = Len(functions) - 1
    BY <1>0, Below DEF outer
<1>3. \A k \in 1 .. Len(outer) : outer[k] = functions[k]
    BY <1>0, Below DEF outer
<1>4. active = functions[Len(functions)]
    BY DEF active
<1>5. active \in Calls
    BY <1>0, <1>4
<1>6. ASSUME NEW x \in Calls
      PROVE  /\ functions[Len(functions)] \in Range(functions)
             /\ Range(outer) \subseteq Range(functions)
             /\ Append(outer, x) \in Seq(Calls)
             /\ Range(Append(outer, x)) \subseteq Range(functions) \cup {x}
    BY <1>0, <1>1, <1>2, <1>3, ReplaceBelow
<1>7. Len(functions) \in Nat
    BY <1>0
<1>8. ASSUME NEW x \in Calls PROVE Append(outer, x)[Len(functions)] = x
    BY <1>1, <1>2, <1>7
<1> QED  BY <1>1, <1>2, <1>4, <1>5, <1>6, <1>7, <1>8

\* The first of the rules that have the look-ahead is one of them.
LEMMA FirstRule ==
    ASSUME AnalysisOK, NEW N \in NonTerminal, NEW t, RulesAt(N, t) # {}
    PROVE  FirstIn(RulesAt(N, t)) \in RulesAt(N, t) /\ RulesAt(N, t) \subseteq Nat \ {0}
<1>1. grammar.rules[N] \in Seq(Seq(Symbol))
    BY DEF AnalysisOK, GrammarKept, Grammar
<1>2. RulesAt(N, t) \subseteq Nat \ {0}
    BY <1>1 DEF RulesAt
<1>3. \E r \in RulesAt(N, t) : \A s \in RulesAt(N, t) : r <= s
    BY <1>2, LeastNatural
<1> QED  BY <1>2, <1>3 DEF FirstIn

\* The function of the table's row enters the rule of the table's cell.
LEMMA ChooseByTable ==
    ASSUME ParserOK, Choose
    PROVE  Cell(active.nonterm, input[la]) = functions'[Len(functions)].rule
<1> DEFINE N == active.nonterm
           t == input[la]
<1>1. /\ functions # <<>> /\ result = "running" /\ active.rule = 0
      /\ functions' = IF RulesAt(N, t) = {} THEN functions
                      ELSE Append(outer, [active EXCEPT !.rule = FirstIn(RulesAt(N, t))])
    BY DEF Choose, Running
<1>2. active \in Calls /\ active \in Range(functions)
    BY <1>1, FunctionStack DEF ParserOK
<1>3. N \in Listed /\ N \in NonTerminal
    BY <1>2 DEF ParserOK, CallsOK, Calls
<1>4. t \in Terminal
    BY <1>1 DEF ParserOK, InputOK
<1>5. m_table[N] = [u \in {v \in Terminal : RulesAt(N, v) # {}} |-> Entry(N, u)]
    BY <1>1, <1>3 DEF ParserOK, TableMade
<1> HIDE DEF N, t
<1>6. CASE RulesAt(N, t) = {}
    <2>1. Cell(N, t) = 0
        BY <1>5, <1>6 DEF Cell
    <2>2. functions'[Len(functions)] = active
        BY <1>1, <1>6 DEF active
    <2> QED  BY <1>1, <2>1, <2>2 DEF N, t
<1>7. CASE RulesAt(N, t) # {}
    <2>1. Cell(N, t) = FirstIn(RulesAt(N, t))
        BY <1>4, <1>5, <1>7 DEF Cell, Entry
    <2>2. FirstIn(RulesAt(N, t)) \in Nat
        BY <1>3, <1>7, FirstRule DEF ParserOK
    <2> DEFINE x == [active EXCEPT !.rule = FirstIn(RulesAt(N, t))]
    <2>3. x \in Calls /\ x.rule = FirstIn(RulesAt(N, t))
        BY <1>2, <2>2 DEF Calls
    <2>4. functions' = Append(outer, x)
        BY <1>1, <1>7
    <2> HIDE DEF x
    <2>5. functions'[Len(functions)] = x
        BY <1>1, <2>3, <2>4, FunctionStack DEF ParserOK
    <2> QED  BY <2>1, <2>3, <2>5 DEF N, t
<1> QED  BY <1>6, <1>7

LEMMA ParserInit == ASSUME LL1Init, phase = "first" PROVE ParserOK
<1>1. AnalysisOK
    BY InitOK DEF LL1Init
<1>2. GrammarGiven
    BY DEF LL1Init, FFInit, GrammarGiven
<1>3. functions = <<>> /\ result = "none" /\ la = 1
    BY DEF LL1Init
<1>4. CallsOK
    BY <1>3 DEF CallsOK, Range
<1> QED  BY <1>1, <1>2, <1>3, <1>4 DEF ParserOK, TableMade, InputOK

\* The parts that a step of the printed parser does not touch.
LEMMA ParserUntouched ==
    ASSUME ParserOK, UNCHANGED ffvars
    PROVE  /\ AnalysisOK' /\ GrammarGiven' /\ Listed' = Listed /\ grammar' = grammar
           /\ \A N, t : RulesAt(N, t)' = RulesAt(N, t) /\ Entry(N, t)' = Entry(N, t)
           /\ result # "none" /\ UNCHANGED m_table => TableMade'
<1>1. AnalysisOK' /\ GrammarGiven'
    BY AnalysisKept DEF ParserOK, GrammarGiven, ffvars
<1>2. Listed' = Listed /\ grammar' = grammar /\ phase' = phase
    BY DEF Listed, ffvars
<1>3. \A N, t : RulesAt(N, t)' = RulesAt(N, t)
    BY DEF RulesAt, GetLookaheads, ffvars
<1>4. \A N, t : Entry(N, t)' = Entry(N, t)
    BY <1>3 DEF Entry
<1>5. result # "none" /\ UNCHANGED m_table => TableMade'
    BY <1>2, <1>3, <1>4 DEF ParserOK, TableMade
<1> QED  BY <1>1, <1>2, <1>3, <1>4, <1>5

LEMMA ParserStep == ASSUME ParserOK, [LL1Next]_<<ffvars, ll1vars>> PROVE ParserOK'
<1>1. CASE Analyse
    <2>1. FFStep /\ UNCHANGED ll1vars
        BY <1>1 DEF Analyse
    <2>2. AnalysisOK'
        BY <2>1, AnalysisStep DEF ParserOK
    <2>3. grammar' = grammar /\ (phase = "done" => FALSE)
        BY <2>1 DEF ParserOK, AnalysisOK, FFStep, RemoveLeftRecursion, NextPhase, CalcFirst,
               AddTerminal, CallFirst, AddFirst, EndOfRule, StoreFirst, CalcFollow, CallFollow,
               AddFollow, StoreFollow, AtUse
    <2>4. result = "none"
        BY <2>3 DEF ParserOK, TableMade
    <2>5. GrammarGiven' /\ CallsOK'
        BY <2>1, <2>3 DEF ParserOK, GrammarGiven, CallsOK, Listed, ll1vars
    <2> QED  BY <2>1, <2>2, <2>4, <2>5 DEF ParserOK, TableMade, InputOK, ll1vars
<1>2. CASE CalcTable
    <2>1. UNCHANGED <<ffvars, functions, la>> /\ result = "none" /\ result' = "ready" /\ phase = "done"
        BY <1>2 DEF CalcTable
    <2>2. m_table' = [N \in Listed |-> [t \in {u \in Terminal : RulesAt(N, u) # {}} |-> Entry(N, t)]]
        BY <1>2 DEF CalcTable, Listed
    <2>3. TableMade'
        BY <2>1, <2>2, ParserUntouched DEF TableMade, ffvars
    <2>4. CallsOK'
        BY <2>1, ParserUntouched DEF ParserOK, CallsOK
    <2> QED  BY <2>1, <2>3, <2>4, ParserUntouched DEF ParserOK, InputOK
<1>3. CASE Begin
    <2>1. UNCHANGED <<ffvars, m_table, la>> /\ result = "ready" /\ result' = "running" /\ la = 1
        BY <1>3 DEF Begin, ParserOK
    <2>2. PICK tokens \in Inputs(grammar) : input' = tokens
        BY <1>3 DEF Begin
    <2>3. tokens \in Seq(Terminal) /\ tokens # <<>> /\ tokens[Len(tokens)] = g_end
        BY InputsAssumption DEF ParserOK, GrammarGiven
    <2>4. InputOK'
        BY <2>1, <2>2, <2>3 DEF InputOK
    <2> DEFINE f == Entered(grammar.start)
    <2>5. functions' = <<f>>
        BY <1>3 DEF Begin
    <2>6. f \in Calls /\ f.nonterm = grammar.start /\ f.rule = 0 /\ grammar.start \in Listed
        BY DEF Entered, Calls, ParserOK, AnalysisOK, GrammarKept, Grammar
    <2> HIDE DEF f
    <2>7. functions' \in Seq(Calls) /\ Range(functions') = {f}
        BY <2>5, <2>6 DEF Range
    <2>8. CallsOK'
        BY <2>1, <2>6, <2>7, ParserUntouched DEF CallsOK
    <2> QED  BY <2>1, <2>4, <2>8, ParserUntouched DEF ParserOK
<1>4. CASE Choose
    <2> DEFINE rules == RulesAt(active.nonterm, input[la])
    <2>1. /\ functions # <<>> /\ result = "running" /\ result' \in {"running", "error"}
          /\ UNCHANGED <<ffvars, m_table, input, la>>
          /\ functions' = IF rules = {} THEN functions ELSE Append(outer, [active EXCEPT !.rule = FirstIn(rules)])
        BY <1>4 DEF Choose, Running
    <2>2. InputOK'
        BY <2>1 DEF ParserOK, InputOK
    <2>3. CASE rules = {}
        <3>1. CallsOK'
            BY <2>1, <2>3, ParserUntouched DEF ParserOK, CallsOK
        <3> QED  BY <2>1, <2>2, <3>1, ParserUntouched DEF ParserOK
    <2>4. CASE rules # {}
        <3> DEFINE x == [active EXCEPT !.rule = FirstIn(rules)]
        <3>1. active \in Calls /\ active \in Range(functions)
            BY <2>1, FunctionStack DEF ParserOK
        <3>2. active.nonterm \in NonTerminal /\ active.nonterm \in Listed
            BY <3>1 DEF ParserOK, CallsOK, Calls
        <3>3. FirstIn(rules) \in rules /\ rules \subseteq Nat \ {0}
            BY <2>4, <3>2, FirstRule DEF ParserOK
        <3>4. FirstIn(rules) \in DOMAIN grammar.rules[active.nonterm]
            BY <3>3 DEF RulesAt
        <3> HIDE DEF rules
        <3>5. x \in Calls /\ x.nonterm = active.nonterm /\ x.rule = FirstIn(rules)
            BY <3>1, <3>3 DEF Calls
        <3>6. functions' = Append(outer, x)
            BY <2>1, <2>4
        <3> HIDE DEF x
        <3>7. functions' \in Seq(Calls) /\ Range(functions') \subseteq Range(functions) \cup {x}
            BY <2>1, <3>5, <3>6, FunctionStack DEF ParserOK
        <3>8. CallsOK'
            BY <2>1, <3>2, <3>4, <3>5, <3>7, ParserUntouched DEF ParserOK, CallsOK
        <3> QED  BY <2>1, <2>2, <3>8, ParserUntouched DEF ParserOK
    <2> QED  BY <2>3, <2>4
\* What a function finds in the rule that it has entered.
<1>5. ASSUME InBody
      PROVE  /\ functions # <<>> /\ result = "running"
             /\ active \in Calls /\ active \in Range(functions)
             /\ body[active.sym] \in Symbol /\ body[active.sym] # g_end
             /\ body[active.sym] \in NonTerminal => body[active.sym] \in Listed
             /\ next_ \in Seq(Calls) /\ Range(next_) \subseteq Range(functions) \cup {[active EXCEPT !.sym = @ + 1]}
             /\ LET x == [active EXCEPT !.sym = @ + 1]
                IN  x.nonterm = active.nonterm /\ x.rule = active.rule
    <2>1. functions # <<>> /\ result = "running" /\ active.rule # 0 /\ active.sym <= Len(body)
        BY <1>5 DEF InBody, Running
    <2>2. active \in Calls /\ active \in Range(functions)
        BY <2>1, FunctionStack DEF ParserOK
    <2>3. active.rule \in DOMAIN grammar.rules[active.nonterm] /\ active.nonterm \in NonTerminal
        BY <2>1, <2>2 DEF ParserOK, CallsOK, Calls
    <2>4. body \in Seq(Symbol)
        <3>1. grammar.rules[active.nonterm] \in Seq(Seq(Symbol))
            BY <2>3 DEF ParserOK, AnalysisOK, GrammarKept, Grammar
        <3> QED  BY <2>3, <3>1 DEF body
    <2>5. active.sym \in DOMAIN body
        BY <2>1, <2>2, <2>4 DEF Calls
    <2>6. GrammarKept
        BY DEF ParserOK, AnalysisOK
    <2>7. body[active.sym] # g_end /\ (body[active.sym] \in NonTerminal => body[active.sym] \in Listed)
        BY <2>3, <2>5, <2>6 DEF GrammarKept, body
    <2> DEFINE x == [active EXCEPT !.sym = @ + 1]
    <2>8. x \in Calls /\ x.nonterm = active.nonterm /\ x.rule = active.rule
        BY <2>2 DEF Calls
    <2> HIDE DEF x
    <2>9. Append(outer, x) \in Seq(Calls) /\ Range(Append(outer, x)) \subseteq Range(functions) \cup {x}
        BY <2>1, <2>8, FunctionStack DEF ParserOK
    <2> QED  BY <2>1, <2>2, <2>4, <2>5, <2>7, <2>8, <2>9 DEF next_, x
<1>6. CASE Match
    <2>1. /\ InBody /\ UNCHANGED <<ffvars, m_table, input>>
          /\ la' = IF body[active.sym] = input[la] THEN la + 1 ELSE la
          /\ functions' = functions \/ functions' = next_
          /\ result' \in {"running", "error"}
        BY <1>6, <1>5 DEF Match
    <2>2. InputOK'
        <3>1. input \in Seq(Terminal) /\ input[Len(input)] = g_end /\ la \in DOMAIN input
            BY <1>5, <2>1 DEF ParserOK, InputOK
        <3>2. CASE body[active.sym] = input[la]
            <4>1. la # Len(input)
                BY <1>5, <2>1, <3>1, <3>2
            <4>2. la + 1 \in DOMAIN input
                BY <3>1, <4>1
            <4> QED  BY <2>1, <3>1, <3>2, <4>2 DEF InputOK
        <3>3. CASE body[active.sym] # input[la]
            BY <2>1, <3>1, <3>3 DEF InputOK
        <3> QED  BY <3>2, <3>3
    <2>3. CallsOK'
        <3> DEFINE x == [active EXCEPT !.sym = @ + 1]
        <3>1. functions' \in Seq(Calls) /\ Range(functions') \subseteq Range(functions) \cup {x}
            BY <1>5, <2>1 DEF ParserOK, CallsOK
        <3>2. x.nonterm = active.nonterm /\ x.rule = active.rule /\ active \in Range(functions)
            BY <1>5, <2>1
        <3> HIDE DEF x
        <3> QED  BY <2>1, <3>1, <3>2, ParserUntouched DEF ParserOK, CallsOK
    <2> QED  BY <1>5, <2>1, <2>2, <2>3, ParserUntouched DEF ParserOK
<1>7. CASE CallFunction
    <2> DEFINE f == Entered(body[active.sym])
               x == [active EXCEPT !.sym = @ + 1]
    <2>1. /\ InBody /\ UNCHANGED <<ffvars, m_table, input, la, result>>
          /\ body[active.sym] \in NonTerminal /\ functions' = Append(next_, f)
        BY <1>7 DEF CallFunction
    <2>2. f \in Calls /\ f.nonterm = body[active.sym] /\ f.rule = 0
        BY <2>1 DEF Entered, Calls
    <2> HIDE DEF f
    <2>3. functions' \in Seq(Calls) /\ Range(functions') = Range(next_) \cup {f}
        BY <1>5, <2>1, <2>2, PushTop
    <2>4. /\ x.nonterm = active.nonterm /\ x.rule = active.rule /\ active \in Range(functions)
          /\ Range(next_) \subseteq Range(functions) \cup {x} /\ f.nonterm \in Listed
        BY <1>5, <2>1, <2>2
    <2> HIDE DEF x
    <2>5. CallsOK'
        BY <2>1, <2>2, <2>3, <2>4, ParserUntouched DEF ParserOK, CallsOK
    <2>6. InputOK'
        BY <2>1 DEF ParserOK, InputOK
    <2> QED  BY <1>5, <2>1, <2>5, <2>6, ParserUntouched DEF ParserOK
<1>8. CASE ReturnFunction
    <2>1. /\ functions # <<>> /\ result = "running" /\ functions' = outer
          /\ UNCHANGED <<ffvars, m_table, input, la>> /\ result' \in {"running", "returned"}
        BY <1>8 DEF ReturnFunction, Running
    <2>2. functions' \in Seq(Calls) /\ Range(functions') \subseteq Range(functions)
        BY <2>1, FunctionStack DEF ParserOK
    <2>3. CallsOK'
        BY <2>1, <2>2, ParserUntouched DEF ParserOK, CallsOK
    <2>4. InputOK'
        BY <2>1 DEF ParserOK, InputOK
    <2> QED  BY <2>1, <2>3, <2>4, ParserUntouched DEF ParserOK
<1>9. CASE LL1Done \/ UNCHANGED <<ffvars, ll1vars>>
    <2>1. UNCHANGED <<ffvars, ll1vars>>
        BY <1>9 DEF LL1Done
    <2>2. TableMade'
        BY <2>1, ParserUntouched DEF ParserOK, TableMade, ll1vars, ffvars
    <2>3. CallsOK' /\ InputOK'
        BY <2>1, ParserUntouched DEF ParserOK, CallsOK, InputOK, ll1vars
    <2> QED  BY <2>1, <2>2, <2>3, ParserUntouched DEF ParserOK, ll1vars
<1> QED  BY <1>1, <1>2, <1>3, <1>4, <1>6, <1>7, <1>8, <1>9 DEF LL1Next

\* The table and the printed parser agree, whatever the grammar: a function
\* enters the rule of its table cell, also where several rules compete for the
\* cell, and fails only where the table has no entry.
THEOREM ParserFollowsTable == LL1Spec /\ phase = "first" => TableIsParser
<1>1. LL1Init /\ phase = "first" => ParserOK
    BY ParserInit
<1>2. ParserOK /\ [LL1Next]_<<ffvars, ll1vars>> => ParserOK'
    BY ParserStep
<1>3. ParserOK /\ [LL1Next]_<<ffvars, ll1vars>> =>
          [Choose => Cell(active.nonterm, input[la]) =
                         functions'[Len(functions)].rule]_<<ffvars, ll1vars>>
    BY ChooseByTable
<1> QED  BY <1>1, <1>2, <1>3, PTL DEF LL1Spec, TableIsParser

=============================================================================
