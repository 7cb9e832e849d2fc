--------------------------- MODULE Closure_proofs ---------------------------
(* Proofs about module Closure, for every grammar, every elements to add,     *)
(* every order of the look-aheads and every size at which a set rehashes.     *)
EXTENDS Closure, FiniteSetTheorems, WellFoundedInduction, TLAPS

(***************************************************************************)
(* A call is sound for the elements els of the closure: it works on rules   *)
(* of the nonterminal at its cursor, on look-aheads that its element has,    *)
(* and the element it stored has kept its core.                             *)
(***************************************************************************)
GoodCall(f, els) ==
    /\ f \in Frame /\ f.rules # {}
    /\ GetSymbolAtCursor(f.elem.core) \in NonTerminal
    /\ f.rules \subseteq RulesOf(GetSymbolAtCursor(f.elem.core))
    /\ f.at \in 0 .. Len(els)
    /\ f.at # 0 => els[f.at].core = f.elem.core
    /\ f.left \subseteq (IF f.at = 0 THEN f.elem.las ELSE els[f.at].las)

GoodCalls(calls, els) ==
    calls \in Seq(Frame) /\ \A k \in DOMAIN calls : GoodCall(calls[k], els)

\* The inductive invariant.
CInv ==
    /\ kernel \in Kernels /\ todo \in Seq(Element)
    /\ m_elems \in Seq(Element)
    /\ GoodCalls(frames, m_elems)

-----------------------------------------------------------------------------
LEMMA LeastIn ==
    ASSUME NEW S \in SUBSET Nat, S # {}
    PROVE  Least(S) \in S
<1> DEFINE R == OpToRel(<, Nat)
<1>1. PICK x \in S : \A y \in S : ~(<<y, x>> \in R)
  BY NatLessThanWellFounded, WFMin
<1>2. \A y \in S : x <= y
  <2> SUFFICES ASSUME NEW y \in S PROVE x <= y
    OBVIOUS
  <2>1. ~(y < x)
    BY <1>1 DEF OpToRel
  <2> QED
    BY <2>1
<1> QED
  BY <1>2 DEF Least

\* What is read off a core has its type.
LEMMA SymbolsType ==
    ASSUME NEW core \in Core
    PROVE  /\ GetRhs(core) \in Seq(Terminal \cup NonTerminal \cup {g_eps})
           /\ core[1] \in RuleNr /\ core[2] \in Nat
BY GrammarAssumption DEF Core, GetRhs

LEMMA RulesStart ==
    ASSUME NEW X \in NonTerminal, NEW r \in RulesOf(X)
    PROVE  <<r, 0>> \in Core
BY GrammarAssumption DEF RulesOf, Core

LEMMA FirstType ==
    ASSUME NEW word \in Seq(Terminal \cup NonTerminal \cup {g_eps}),
           NEW la \in Terminal, NEW offs \in Nat
    PROVE  calc_first(word, la, offs) \subseteq Terminal
<1> DEFINE all == Append(word, la)
           FirstOf(X) == IF X \in NonTerminal THEN First[X] ELSE {X}
<1>1. \A i \in offs + 1 .. Len(all) : all[i] \in Terminal \cup NonTerminal \cup {g_eps}
  OBVIOUS
<1>2. \A X \in Terminal \cup NonTerminal \cup {g_eps} : FirstOf(X) \subseteq Terminal \cup {g_eps}
  BY GrammarAssumption
<1>3. \A i \in offs + 1 .. Len(all) : FirstOf(all[i]) \subseteq Terminal \cup {g_eps}
  BY <1>1, <1>2
<1> HIDE DEF FirstOf
<1> SUFFICES ASSUME NEW t \in calc_first(word, la, offs) PROVE t \in Terminal
  OBVIOUS
<1>4. t # g_eps /\ \E i \in offs + 1 .. Len(all) : t \in FirstOf(all[i])
  BY DEF calc_first, FirstOf
<1> QED
  BY <1>3, <1>4

\* The elements that an item implies are elements.
LEMMA ImpliedType ==
    ASSUME NEW f \in Frame, NEW els, GoodCall(f, els), NEW r \in f.rules, NEW la \in Terminal
    PROVE  [core |-> <<r, 0>>, las |-> calc_first(GetRhs(f.elem.core), la, f.elem.core[2] + 1)]
               \in Element
<1>1. f.elem.core \in Core
  BY DEF Frame, Element
<1>2. calc_first(GetRhs(f.elem.core), la, f.elem.core[2] + 1) \subseteq Terminal
  <2>1. /\ GetRhs(f.elem.core) \in Seq(Terminal \cup NonTerminal \cup {g_eps})
        /\ f.elem.core[2] + 1 \in Nat
    BY <1>1, SymbolsType
  <2> QED
    BY <2>1, FirstType
<1>3. <<r, 0>> \in Core
  BY RulesStart DEF GoodCall
<1> QED
  BY <1>2, <1>3 DEF Element

-----------------------------------------------------------------------------
(***************************************************************************)
(* What AddElement does to the elements: none is lost or changes its core,   *)
(* look-aheads only come from e, and so does what is new.                   *)
(***************************************************************************)
Grows(old, new, e) ==
    /\ new \in Seq(Element) /\ Len(old) <= Len(new)
    /\ \A i \in 1 .. Len(old) :
           /\ new[i].core = old[i].core /\ old[i].las \subseteq new[i].las
           /\ new[i].las \subseteq old[i].las \cup (IF new[i].core = e.core THEN e.las ELSE {})
    /\ \A i \in Len(old) + 1 .. Len(new) : new[i] = e

LEMMA AddElementGrows ==
    ASSUME NEW e \in Element, NEW calls, m_elems \in Seq(Element), AddElement(e, calls)
    PROVE  Grows(m_elems, m_elems', e) /\ (CoresUnique => CoresUnique')
<1>1. CASE HasElement(e) /\ frames' = calls /\ UNCHANGED m_elems
  BY <1>1 DEF Grows, CoresUnique
<1>2. CASE \E i \in DOMAIN m_elems :
              /\ m_elems[i].core = e.core
              /\ m_elems' = [m_elems EXCEPT ![i].las = @ \cup e.las]
  <2>1. PICK i \in DOMAIN m_elems : /\ m_elems[i].core = e.core
                                    /\ m_elems' = [m_elems EXCEPT ![i].las = @ \cup e.las]
    BY <1>2
  <2>a. m_elems[i] \in Element /\ [m_elems[i] EXCEPT !.las = @ \cup e.las] \in Element
    <3>1. \A x \in Element : [x EXCEPT !.las = @ \cup e.las] \in Element
      BY DEF Element
    <3>2. m_elems[i] \in Element
      BY <2>1
    <3> QED
      BY <3>1, <3>2
  <2>b. m_elems' = [m_elems EXCEPT ![i] = [m_elems[i] EXCEPT !.las = @ \cup e.las]]
    BY <2>1
  <2>2. /\ Len(m_elems') = Len(m_elems) /\ DOMAIN m_elems' = DOMAIN m_elems
        /\ \A j \in DOMAIN m_elems : j # i => m_elems'[j] = m_elems[j]
        /\ m_elems'[i] = [m_elems[i] EXCEPT !.las = @ \cup e.las]
    BY <2>b
  <2>c. m_elems'[i].core = e.core /\ m_elems'[i].las = m_elems[i].las \cup e.las
    <3>1. \A x \in Element : LET y == [x EXCEPT !.las = @ \cup e.las]
                             IN  y.core = x.core /\ y.las = x.las \cup e.las
      BY DEF Element
    <3> QED
      BY <3>1, <2>1, <2>2, <2>a
  <2>3. m_elems' \in Seq(Element)
    BY <2>b, <2>a
  <2>4. Grows(m_elems, m_elems', e)
    BY <2>1, <2>2, <2>c, <2>3 DEF Grows
  <2> QED
    BY <2>1, <2>2, <2>c, <2>4 DEF CoresUnique
<1>3. CASE /\ \A i \in DOMAIN m_elems : m_elems[i].core # e.core
           /\ m_elems' = Append(m_elems, e)
  BY <1>3 DEF Grows, CoresUnique
<1> QED
  BY <1>1, <1>2, <1>3 DEF AddElement

\* A call that was good stays good when the elements grow and its look-aheads
\* stay within its set.
LEMMA GoodCallStays ==
    ASSUME NEW f, NEW old \in Seq(Element), GoodCall(f, old),
           NEW e, NEW new, Grows(old, new, e),
           NEW left \in SUBSET Terminal,
           left \subseteq f.left \cup (IF f.at = 0 THEN {} ELSE new[f.at].las)
    PROVE  GoodCall([f EXCEPT !.left = left], new)
<1> DEFINE g == [f EXCEPT !.left = left]
<1>1. g \in Frame /\ g.elem = f.elem /\ g.at = f.at /\ g.rules = f.rules /\ g.left = left
  BY DEF GoodCall, Frame
<1>2. f.at \in 0 .. Len(new) /\ (f.at # 0 => new[f.at].core = f.elem.core)
  BY DEF GoodCall, Grows
<1>3. left \subseteq (IF f.at = 0 THEN f.elem.las ELSE new[f.at].las)
  BY DEF GoodCall, Grows
<1> SUFFICES GoodCall(g, new)
  OBVIOUS
<1> HIDE DEF g
<1> QED
  BY <1>1, <1>2, <1>3 DEF GoodCall

LEMMA GoodCallsStay ==
    ASSUME NEW calls, NEW old \in Seq(Element), GoodCalls(calls, old),
           NEW e, NEW new, Grows(old, new, e)
    PROVE  GoodCalls(calls, new)
<1> SUFFICES ASSUME NEW k \in DOMAIN calls PROVE GoodCall(calls[k], new)
  BY DEF GoodCalls
<1> DEFINE f == calls[k]
<1>1. GoodCall(f, old)
  BY DEF GoodCalls
<1> HIDE DEF f
<1>2. GoodCall(f, new)
  BY <1>1 DEF GoodCall, Grows
<1> QED
  BY <1>2 DEF f

LEMMA CallGood ==
    ASSUME NEW e \in Element, NEW els \in Seq(Element), NEW i \in 0 .. Len(els),
           i # 0 => els[i].core = e.core /\ e.las \subseteq els[i].las
    PROVE  GoodCalls(Call(e, i), els)
<1> DEFINE sym == GetSymbolAtCursor(e.core)
           c == [elem |-> e, at |-> i, rules |-> RulesOf(sym), left |-> e.las]
<1>1. CASE sym \in NonTerminal /\ RulesOf(sym) # {}
  <2>1. Call(e, i) = <<c>>
    BY <1>1 DEF Call
  <2>2. c \in Frame
    BY DEF Frame, Element, RulesOf
  <2>3. GoodCall(c, els)
    BY <1>1, <2>2 DEF GoodCall
  <2> HIDE DEF c
  <2> QED
    BY <2>1, <2>2, <2>3 DEF GoodCalls
<1>2. CASE ~(sym \in NonTerminal /\ RulesOf(sym) # {})
  BY <1>2 DEF Call, GoodCalls
<1> QED
  BY <1>1, <1>2

LEMMA ConcatGood ==
    ASSUME NEW a, NEW b, NEW els, GoodCalls(a, els), GoodCalls(b, els)
    PROVE  GoodCalls(a \o b, els)
<1>1. a \in Seq(Frame) /\ b \in Seq(Frame)
  BY DEF GoodCalls
<1>2. /\ a \o b \in Seq(Frame) /\ Len(a \o b) = Len(a) + Len(b)
      /\ \A k \in 1 .. Len(a) + Len(b) : (a \o b)[k] = IF k <= Len(a) THEN a[k] ELSE b[k - Len(a)]
  BY <1>1
<1>3. \A k \in DOMAIN (a \o b) : GoodCall((a \o b)[k], els)
  <2> TAKE k \in DOMAIN (a \o b)
  <2>1. k \in 1 .. Len(a) + Len(b)
    BY <1>2
  <2>2. k <= Len(a) => k \in DOMAIN a
    BY <1>1, <2>1
  <2>3. ~(k <= Len(a)) => k - Len(a) \in DOMAIN b
    BY <1>1, <2>1
  <2> QED
    BY <1>2, <2>1, <2>2, <2>3 DEF GoodCalls
<1> QED
  BY <1>2, <1>3 DEF GoodCalls

\* Insertion into the set a call iterates, rehashed or not.
LEMMA InterruptedGood ==
    ASSUME NEW calls, NEW old \in Seq(Element), GoodCalls(calls, old), m_elems = old,
           NEW e \in Element, NEW new, Grows(old, new, e),
           NEW i \in 1 .. Len(old), new[i].las = old[i].las \cup e.las,
           NEW after \in Interrupted(calls, i, e.las)
    PROVE  GoodCalls(after, new)
<1> DEFINE Owner == {k \in DOMAIN calls : calls[k].at = i}
           k == Least(Owner)
<1>0. GoodCalls(calls, new)
  BY GoodCallsStay
<1>1. CASE Owner = {}
  BY <1>0, <1>1 DEF Interrupted
<1>2. CASE Owner # {}
  <2>1. Owner \in SUBSET Nat
    BY DEF GoodCalls
  <2>2. k \in Owner
    BY <1>2, <2>1, LeastIn
  <2>3. PICK left \in Disturbed(calls[k], m_elems[i].las, e.las) :
            after = [calls EXCEPT ![k].left = left]
    BY <1>2 DEF Interrupted
  <2> HIDE DEF k
  <2>4. k \in DOMAIN calls /\ calls[k].at = i /\ GoodCall(calls[k], old) /\ calls[k] \in Frame
    BY <2>2 DEF GoodCalls, GoodCall
  <2>5. new[i].las \subseteq Terminal
    <3>1. new[i] \in Element
      BY DEF Grows
    <3> QED
      BY <3>1 DEF Element
  <2>6. left \subseteq calls[k].left \cup new[i].las
    BY <2>3 DEF Disturbed
  <2>7. left \subseteq Terminal
    BY <2>4, <2>5, <2>6 DEF Frame
  <2>8. GoodCall([calls[k] EXCEPT !.left = left], new)
    BY <2>4, <2>6, <2>7, GoodCallStays
  <2>9. after = [calls EXCEPT ![k] = [calls[k] EXCEPT !.left = left]]
    BY <2>3
  <2>10. [calls[k] EXCEPT !.left = left] \in Frame
    BY <2>8 DEF GoodCall
  <2> DEFINE f == [calls[k] EXCEPT !.left = left]
  <2> HIDE DEF f
  <2>11. GoodCall(f, new) /\ f \in Frame /\ after = [calls EXCEPT ![k] = f]
    BY <2>8, <2>9, <2>10 DEF f
  <2> QED
    BY <1>0, <2>4, <2>11 DEF GoodCalls
<1> QED
  BY <1>1, <1>2

\* The calls after a call of AddElement are good.
LEMMA AddElementCalls ==
    ASSUME NEW e \in Element, NEW calls, m_elems \in Seq(Element), GoodCalls(calls, m_elems),
           AddElement(e, calls)
    PROVE  m_elems' \in Seq(Element) /\ GoodCalls(frames', m_elems')
<1>1. Grows(m_elems, m_elems', e) /\ m_elems' \in Seq(Element)
  BY AddElementGrows DEF Grows
<1>2. GoodCalls(calls, m_elems')
  BY <1>1, GoodCallsStay
<1>3. CASE frames' = calls
  BY <1>1, <1>2, <1>3
<1>4. CASE \E i \in DOMAIN m_elems :
              /\ m_elems[i].core = e.core
              /\ m_elems' = [m_elems EXCEPT ![i].las = @ \cup e.las]
              /\ \E after \in Interrupted(calls, i, e.las) : frames' = after \o Call(e, 0)
  <2>1. PICK i \in DOMAIN m_elems :
              /\ m_elems[i].core = e.core
              /\ m_elems' = [m_elems EXCEPT ![i].las = @ \cup e.las]
              /\ \E after \in Interrupted(calls, i, e.las) : frames' = after \o Call(e, 0)
    BY <1>4
  <2>2. PICK after \in Interrupted(calls, i, e.las) : frames' = after \o Call(e, 0)
    BY <2>1
  <2>3. i \in 1 .. Len(m_elems) /\ m_elems'[i].las = m_elems[i].las \cup e.las
    <3>1. m_elems' = [m_elems EXCEPT ![i] = [m_elems[i] EXCEPT !.las = @ \cup e.las]]
      BY <2>1
    <3>2. m_elems'[i] = [m_elems[i] EXCEPT !.las = @ \cup e.las] /\ m_elems[i] \in Element
      BY <3>1
    <3>3. \A x \in Element : [x EXCEPT !.las = @ \cup e.las].las = x.las \cup e.las
      BY DEF Element
    <3> QED
      BY <3>2, <3>3
  <2>4. GoodCalls(after, m_elems')
    BY <1>1, <2>3, InterruptedGood
  <2>5. GoodCalls(Call(e, 0), m_elems')
    BY <1>1, CallGood
  <2> QED
    BY <1>1, <2>2, <2>4, <2>5, ConcatGood
<1>5. CASE /\ m_elems' = Append(m_elems, e)
           /\ frames' = calls \o Call(e, Len(m_elems) + 1)
  <2>1. GoodCalls(Call(e, Len(m_elems) + 1), m_elems')
    <3>1. /\ Len(m_elems) + 1 \in 0 .. Len(m_elems')
          /\ m_elems'[Len(m_elems) + 1] = e
      BY <1>5
    <3> QED
      BY <1>1, <3>1, CallGood
  <2> QED
    BY <1>1, <1>2, <1>5, <2>1, ConcatGood
<1> QED
  BY <1>3, <1>4, <1>5 DEF AddElement

-----------------------------------------------------------------------------
LEMMA InitCInv == ClosureInit => CInv /\ CoresUnique
<1> SUFFICES ASSUME ClosureInit PROVE CInv /\ CoresUnique
  OBVIOUS
<1>1. kernel \in Seq(Element)
  BY ClosureAssumption DEF ClosureInit
<1> QED
  BY <1>1 DEF ClosureInit, CInv, CoresUnique, GoodCalls

\* The elements in the loop's body.
LoopElement(la) ==
    [core |-> <<Least(top.rules), 0>>,
     las |-> calc_first(GetRhs(top.elem.core), la, top.elem.core[2] + 1)]

LEMMA TopGood ==
    ASSUME CInv, frames # <<>>
    PROVE  /\ top \in Frame /\ GoodCall(top, m_elems) /\ Len(frames) \in DOMAIN frames
           /\ GetLookaheads(top) \subseteq Terminal /\ top.left \subseteq GetLookaheads(top)
           /\ Least(top.rules) \in top.rules
<1>1. Len(frames) \in DOMAIN frames /\ top \in Frame /\ GoodCall(top, m_elems)
  BY DEF CInv, GoodCalls, top
<1> HIDE DEF top
<1>2. top.at # 0 => m_elems[top.at] \in Element
  BY <1>1 DEF GoodCall, CInv
<1>3. GetLookaheads(top) \subseteq Terminal /\ top.left \subseteq GetLookaheads(top)
  BY <1>1, <1>2 DEF GetLookaheads, GoodCall, Frame, Element
<1>4. top.rules \in SUBSET Nat /\ top.rules # {}
  BY <1>1, GrammarAssumption DEF GoodCall, Frame
<1> QED
  BY <1>1, <1>3, <1>4, LeastIn

\* The body of the loop works on good calls.
LEMMA LoopBody ==
    ASSUME CInv, frames # <<>>, NEW la \in top.left
    PROVE  /\ LoopElement(la) \in Element
           /\ GoodCalls([frames EXCEPT ![Len(frames)].left = @ \ {la}], m_elems)
<1>1. la \in Terminal
  BY TopGood
<1>2. LoopElement(la) \in Element
  BY <1>1, TopGood, ImpliedType DEF LoopElement
<1> DEFINE n == Len(frames)
           f == [top EXCEPT !.left = @ \ {la}]
<1>3. top \in Frame /\ GoodCall(top, m_elems) /\ n \in DOMAIN frames
  BY TopGood
<1>4. [frames EXCEPT ![n].left = @ \ {la}] = [frames EXCEPT ![n] = f]
  BY DEF top
<1>5. GoodCall(f, m_elems) /\ f \in Frame
  <2> HIDE DEF top
  <2>1. f \in Frame /\ f.elem = top.elem /\ f.at = top.at /\ f.rules = top.rules /\ f.left \subseteq top.left
    BY <1>3 DEF Frame
  <2> HIDE DEF f
  <2> QED
    BY <1>3, <2>1 DEF GoodCall
<1> HIDE DEF f
<1>6. GoodCalls([frames EXCEPT ![n] = f], m_elems)
  BY <1>3, <1>5 DEF CInv, GoodCalls
<1> QED
  BY <1>2, <1>4, <1>6

\* Every step keeps the invariant.
LEMMA StepCInv == CInv /\ [ClosureNext]_cvars => CInv'
<1> SUFFICES ASSUME CInv, [ClosureNext]_cvars PROVE CInv'
  OBVIOUS
<1>1. CASE AddKernel
  <2>1. Head(todo) \in Element /\ Tail(todo) \in Seq(Element) /\ m_elems \in Seq(Element)
    BY <1>1 DEF AddKernel, CInv
  <2>2. GoodCalls(frames, m_elems) /\ AddElement(Head(todo), frames)
    BY <1>1 DEF AddKernel, CInv
  <2>3. m_elems' \in Seq(Element) /\ GoodCalls(frames', m_elems')
    BY <2>1, <2>2, AddElementCalls
  <2> QED
    BY <1>1, <2>1, <2>3 DEF AddKernel, CInv
<1>2. CASE NextLookahead
  <2>1. PICK la \in top.left :
            AddElement(LoopElement(la), [frames EXCEPT ![Len(frames)].left = @ \ {la}])
    BY <1>2 DEF NextLookahead, LoopElement
  <2>2. LoopElement(la) \in Element /\ GoodCalls([frames EXCEPT ![Len(frames)].left = @ \ {la}], m_elems)
    BY <1>2, <2>1, LoopBody DEF NextLookahead
  <2>3. m_elems' \in Seq(Element) /\ GoodCalls(frames', m_elems')
    BY <2>1, <2>2, AddElementCalls DEF CInv
  <2> QED
    BY <1>2, <2>3 DEF NextLookahead, CInv
<1>3. CASE NextRule
  <2> DEFINE n == Len(frames)
             f == [top EXCEPT !.rules = @ \ {Least(@)}, !.left = GetLookaheads(top)]
  <2>1. /\ top \in Frame /\ GoodCall(top, m_elems) /\ n \in DOMAIN frames
        /\ GetLookaheads(top) \subseteq Terminal /\ Least(top.rules) \in top.rules
    BY <1>3, TopGood DEF NextRule
  <2>2. frames' = [frames EXCEPT ![n] = f]
    BY <1>3 DEF NextRule, top
  <2>3. top.rules \ {Least(top.rules)} # {}
    <3>1. SUFFICES ASSUME top.rules \ {Least(top.rules)} = {} PROVE FALSE
      OBVIOUS
    <3>2. top.rules = {Least(top.rules)}
      BY <2>1, <3>1
    <3>3. Cardinality(top.rules) = 1
      BY <3>2, FS_Singleton
    <3> QED
      BY <1>3, <3>3 DEF NextRule
  <2>4. /\ f \in Frame /\ f.elem = top.elem /\ f.at = top.at
        /\ f.rules = top.rules \ {Least(top.rules)} /\ f.left = GetLookaheads(top)
    <3> HIDE DEF top
    <3> QED
      BY <2>1 DEF Frame
  <2>5. GoodCall(f, m_elems)
    <3> HIDE DEF f, top
    <3> QED
      BY <2>1, <2>3, <2>4 DEF GoodCall, GetLookaheads
  <2> HIDE DEF f
  <2>6. GoodCalls([frames EXCEPT ![n] = f], m_elems)
    BY <2>1, <2>4, <2>5 DEF CInv, GoodCalls
  <2> QED
    BY <1>3, <2>2, <2>6 DEF NextRule, CInv
<1>4. CASE Return
  <2>1. GoodCalls(SubSeq(frames, 1, Len(frames) - 1), m_elems)
    BY <1>4 DEF Return, CInv, GoodCalls
  <2> QED
    BY <1>4, <2>1 DEF Return, CInv
<1>5. CASE ClosureDone \/ UNCHANGED cvars
  BY <1>5 DEF ClosureDone, cvars, CInv
<1> QED
  BY <1>1, <1>2, <1>3, <1>4, <1>5 DEF ClosureNext

LEMMA AlwaysCInv == ClosureSpec => []CInv
<1>1. ClosureInit => CInv
  BY InitCInv
<1> QED
  BY <1>1, StepCInv, PTL DEF ClosureSpec

\* The type invariant: elements and calls are what they should be, and a call
\* that is interrupted has not finished all its rules.
THEOREM TypeCorrect == ClosureSpec => []ClosureTypeOK
<1>1. CInv => ClosureTypeOK
  <2> SUFFICES ASSUME CInv PROVE ClosureTypeOK
    OBVIOUS
  <2>1. \A k \in DOMAIN frames : /\ frames[k].rules # {} /\ frames[k].rules \subseteq RuleNr
                                 /\ frames[k].at \in 0 .. Len(m_elems)
    BY DEF CInv, GoodCalls, GoodCall, Frame
  <2> QED
    BY <2>1 DEF CInv, GoodCalls, ClosureTypeOK
<1> QED
  BY <1>1, AlwaysCInv, PTL

\* A closure never gets two elements with the same core, whatever is added and
\* however the sets are iterated.
THEOREM UniqueCores == ClosureSpec => []CoresUnique
<1>1. CInv /\ CoresUnique /\ [ClosureNext]_cvars => CoresUnique'
  <2> SUFFICES ASSUME CInv, CoresUnique, [ClosureNext]_cvars PROVE CoresUnique'
    OBVIOUS
  <2>1. CASE AddKernel
    <3>1. Head(todo) \in Element /\ m_elems \in Seq(Element) /\ AddElement(Head(todo), frames)
      BY <2>1 DEF AddKernel, CInv
    <3> QED
      BY <3>1, AddElementGrows
  <2>2. CASE NextLookahead
    <3>1. PICK la \in top.left :
              AddElement(LoopElement(la), [frames EXCEPT ![Len(frames)].left = @ \ {la}])
      BY <2>2 DEF NextLookahead, LoopElement
    <3>2. LoopElement(la) \in Element /\ m_elems \in Seq(Element)
      BY <2>2, <3>1, LoopBody DEF NextLookahead, CInv
    <3> QED
      BY <3>1, <3>2, AddElementGrows
  <2>3. CASE UNCHANGED m_elems
    BY <2>3 DEF CoresUnique
  <2> QED
    BY <2>1, <2>2, <2>3 DEF ClosureNext, NextRule, Return, ClosureDone, cvars
<1>2. ClosureInit => CoresUnique
  BY InitCInv
<1> QED
  BY <1>1, <1>2, AlwaysCInv, PTL DEF ClosureSpec
-----------------------------------------------------------------------------
(***************************************************************************)
(* Soundness.  I is any closed set of items that holds the kernel's.  The    *)
(* elements, those still to be added and those of the calls stay within I.   *)
(***************************************************************************)
Within(e, I) == \A la \in e.las : <<e.core, la>> \in I
AllWithin(elems, I) == \A i \in DOMAIN elems : Within(elems[i], I)
CallsWithin(calls, I) == \A k \in DOMAIN calls : Within(calls[k].elem, I)

WithinInv(I) == AllWithin(m_elems, I) /\ AllWithin(todo, I) /\ CallsWithin(frames, I)

LEMMA ItemsWithin ==
    ASSUME NEW elems, NEW I
    PROVE  Items(elems) \subseteq I <=> AllWithin(elems, I)
BY DEF Items, AllWithin, Within

\* An interrupted call works on the element it worked on.
LEMMA InterruptedWithin ==
    ASSUME NEW calls, GoodCalls(calls, m_elems), NEW I, CallsWithin(calls, I),
           NEW i, NEW new, NEW after \in Interrupted(calls, i, new)
    PROVE  CallsWithin(after, I)
<1>1. calls \in Seq(Frame)
  BY DEF GoodCalls
<1>2. CASE after = calls
  BY <1>2
<1>3. CASE \E k \in DOMAIN calls : \E left : after = [calls EXCEPT ![k].left = left]
  <2>0. PICK k \in DOMAIN calls : \E left : after = [calls EXCEPT ![k].left = left]
    BY <1>3
  <2>1. PICK left : after = [calls EXCEPT ![k].left = left]
    BY <2>0
  <2>2. calls[k] \in Frame
    BY <1>1
  <2>3. [calls[k] EXCEPT !.left = left].elem = calls[k].elem
    BY <2>2 DEF Frame
  <2>4. \A j \in DOMAIN after : j \in DOMAIN calls /\ after[j].elem = calls[j].elem
    <3> TAKE j \in DOMAIN after
    <3>1. j \in DOMAIN calls
      BY <2>1
    <3>2. after[j] = IF j = k THEN [calls[k] EXCEPT !.left = left] ELSE calls[j]
      BY <2>1, <3>1
    <3> QED
      BY <2>3, <3>1, <3>2
  <2> QED
    BY <2>4 DEF CallsWithin
<1>4. \/ after = calls
      \/ \E k \in DOMAIN calls : \E left : after = [calls EXCEPT ![k].left = left]
  <2> DEFINE Owner == {k \in DOMAIN calls : calls[k].at = i}
  <2>1. CASE Owner = {}
    BY <2>1 DEF Interrupted
  <2>2. CASE Owner # {}
    <3>1. Owner \in SUBSET Nat
      BY <1>1
    <3>2. Least(Owner) \in Owner
      BY <2>2, <3>1, LeastIn
    <3> QED
      BY <2>2, <3>2 DEF Interrupted
  <2> QED
    BY <2>1, <2>2
<1> QED
  BY <1>2, <1>3, <1>4

LEMMA InterruptedType ==
    ASSUME NEW calls \in Seq(Frame), GoodCalls(calls, m_elems), m_elems \in Seq(Element),
           NEW i \in DOMAIN m_elems, NEW new \in SUBSET Terminal,
           NEW after \in Interrupted(calls, i, new)
    PROVE  after \in Seq(Frame)
<1> DEFINE Owner == {k \in DOMAIN calls : calls[k].at = i}
           k == Least(Owner)
<1>1. CASE Owner = {}
  BY <1>1 DEF Interrupted
<1>2. CASE Owner # {}
  <2>1. k \in DOMAIN calls
    BY <1>2, LeastIn
  <2>2. PICK left \in Disturbed(calls[k], m_elems[i].las, new) :
            after = [calls EXCEPT ![k].left = left]
    BY <1>2 DEF Interrupted
  <2> HIDE DEF k
  <2>3. calls[k] \in Frame
    BY <2>1
  <2>4. m_elems[i] \in Element
    OBVIOUS
  <2>5. left \subseteq Terminal
    BY <2>2, <2>3, <2>4 DEF Disturbed, Frame, Element
  <2> DEFINE f == [calls[k] EXCEPT !.left = left]
  <2>6. f \in Frame
    BY <2>3, <2>5 DEF Frame
  <2>7. after = [calls EXCEPT ![k] = f]
    BY <2>2
  <2> HIDE DEF f
  <2> QED
    BY <2>1, <2>6, <2>7
<1> QED
  BY <1>1, <1>2

LEMMA CallWithin ==
    ASSUME NEW e, NEW i, NEW I, Within(e, I), NEW calls \in Seq(Frame), CallsWithin(calls, I)
    PROVE  CallsWithin(calls \o Call(e, i), I)
<1> DEFINE sym == GetSymbolAtCursor(e.core)
           c == [elem |-> e, at |-> i, rules |-> RulesOf(sym), left |-> e.las]
<1>1. CASE Call(e, i) = <<>>
  BY <1>1
<1>2. CASE Call(e, i) = <<c>>
  <2>1. c.elem = e
    OBVIOUS
  <2> HIDE DEF c
  <2>2. \A k \in DOMAIN (calls \o <<c>>) :
            (calls \o <<c>>)[k] = IF k <= Len(calls) THEN calls[k] ELSE c
    OBVIOUS
  <2>3. \A k \in DOMAIN (calls \o <<c>>) : k <= Len(calls) => k \in DOMAIN calls
    OBVIOUS
  <2> QED
    BY <1>2, <2>1, <2>2, <2>3 DEF CallsWithin
<1> QED
  BY <1>1, <1>2 DEF Call

\* A call of AddElement with an element within I adds nothing else.
LEMMA AddElementWithin ==
    ASSUME NEW I, NEW e \in Element, Within(e, I), m_elems \in Seq(Element),
           AllWithin(m_elems, I), NEW calls, GoodCalls(calls, m_elems), CallsWithin(calls, I),
           AddElement(e, calls)
    PROVE  AllWithin(m_elems', I) /\ CallsWithin(frames', I)
<1>0. calls \in Seq(Frame)
  BY DEF GoodCalls
<1>1. Grows(m_elems, m_elems', e)
  BY AddElementGrows
<1>2. AllWithin(m_elems', I)
  <2> SUFFICES ASSUME NEW i \in DOMAIN m_elems', NEW la \in m_elems'[i].las
               PROVE  <<m_elems'[i].core, la>> \in I
    BY DEF AllWithin, Within
  <2>1. i \in 1 .. Len(m_elems')
    BY <1>1 DEF Grows
  <2>2. CASE i \in 1 .. Len(m_elems)
    BY <1>1, <2>2 DEF Grows, AllWithin, Within
  <2>3. CASE i \in Len(m_elems) + 1 .. Len(m_elems')
    BY <1>1, <2>3 DEF Grows, Within
  <2> QED
    BY <2>1, <2>2, <2>3
<1>3. CASE frames' = calls
  BY <1>2, <1>3
<1>4. CASE \E i \in DOMAIN m_elems :
              \E after \in Interrupted(calls, i, e.las) : frames' = after \o Call(e, 0)
  <2>0. PICK i \in DOMAIN m_elems :
            \E after \in Interrupted(calls, i, e.las) : frames' = after \o Call(e, 0)
    BY <1>4
  <2>1. PICK after \in Interrupted(calls, i, e.las) : frames' = after \o Call(e, 0)
    BY <2>0
  <2>2. CallsWithin(after, I)
    BY InterruptedWithin
  <2>3. after \in Seq(Frame)
    <3>1. e.las \in SUBSET Terminal
      BY DEF Element
    <3> QED
      BY <1>0, <3>1, InterruptedType
  <2> QED
    BY <1>2, <2>1, <2>2, <2>3, CallWithin
<1>5. CASE frames' = calls \o Call(e, Len(m_elems) + 1)
  BY <1>0, <1>2, <1>5, CallWithin
<1> QED
  BY <1>3, <1>4, <1>5 DEF AddElement

\* The loop's element is implied by an item of the closure.
LEMMA LoopWithin ==
    ASSUME NEW I, Closed(I), CInv, AllWithin(m_elems, I), CallsWithin(frames, I),
           frames # <<>>, NEW la \in top.left
    PROVE  Within(LoopElement(la), I)
<1>1. /\ top \in Frame /\ GoodCall(top, m_elems) /\ Len(frames) \in DOMAIN frames
      /\ la \in GetLookaheads(top) /\ Least(top.rules) \in top.rules
  BY TopGood
<1>2. Within(top.elem, I)
  BY <1>1 DEF CallsWithin, top
<1> HIDE DEF top
<1>3. <<top.elem.core, la>> \in I
  <2>1. CASE top.at = 0
    BY <1>1, <1>2, <2>1 DEF GetLookaheads, Within
  <2>2. CASE top.at # 0
    <3>1. top.at \in DOMAIN m_elems /\ m_elems[top.at].core = top.elem.core
      BY <1>1, <2>2 DEF GoodCall, CInv
    <3> QED
      BY <1>1, <2>2, <3>1 DEF GetLookaheads, AllWithin, Within
  <2> QED
    BY <2>1, <2>2
<1>4. Implied(top.elem.core, la) \subseteq I
  BY <1>3 DEF Closed
<1>5. \A t \in calc_first(GetRhs(top.elem.core), la, top.elem.core[2] + 1) :
          <<<<Least(top.rules), 0>>, t>> \in Implied(top.elem.core, la)
  BY <1>1 DEF GoodCall, Implied
<1> QED
  BY <1>4, <1>5 DEF Within, LoopElement

LEMMA StepWithin ==
    ASSUME NEW I, Closed(I), CInv, WithinInv(I), [ClosureNext]_cvars
    PROVE  WithinInv(I)'
<1>1. CASE AddKernel
  <2>1. /\ Head(todo) \in Element /\ m_elems \in Seq(Element) /\ GoodCalls(frames, m_elems)
        /\ AddElement(Head(todo), frames)
    BY <1>1 DEF AddKernel, CInv
  <2>2. Within(Head(todo), I) /\ AllWithin(Tail(todo), I)
    BY <1>1 DEF AddKernel, CInv, WithinInv, AllWithin
  <2>3. AllWithin(m_elems', I) /\ CallsWithin(frames', I)
    BY <2>1, <2>2, AddElementWithin DEF WithinInv
  <2> QED
    BY <1>1, <2>2, <2>3 DEF AddKernel, WithinInv
<1>2. CASE NextLookahead
  <2>1. PICK la \in top.left :
            AddElement(LoopElement(la), [frames EXCEPT ![Len(frames)].left = @ \ {la}])
    BY <1>2 DEF NextLookahead, LoopElement
  <2>2. /\ LoopElement(la) \in Element
        /\ GoodCalls([frames EXCEPT ![Len(frames)].left = @ \ {la}], m_elems)
    BY <1>2, <2>1, LoopBody DEF NextLookahead
  <2>3. Within(LoopElement(la), I)
    BY <1>2, <2>1, LoopWithin DEF NextLookahead, WithinInv
  <2>4. CallsWithin([frames EXCEPT ![Len(frames)].left = @ \ {la}], I)
    <3> DEFINE left == top.left \ {la}
    <3>1. [frames EXCEPT ![Len(frames)].left = @ \ {la}] =
              [frames EXCEPT ![Len(frames)] = [top EXCEPT !.left = left]]
      BY DEF top
    <3>2. top \in Frame /\ Len(frames) \in DOMAIN frames
      BY <1>2, TopGood DEF NextLookahead
    <3>3. [top EXCEPT !.left = left].elem = top.elem
      BY <3>2 DEF Frame
    <3> QED
      BY <3>1, <3>2, <3>3 DEF CallsWithin, WithinInv, top
  <2>5. AllWithin(m_elems', I) /\ CallsWithin(frames', I)
    BY <2>1, <2>2, <2>3, <2>4, AddElementWithin DEF WithinInv, CInv
  <2> QED
    BY <1>2, <2>5 DEF NextLookahead, WithinInv
<1>3. CASE NextRule
  <2> DEFINE f == [top EXCEPT !.rules = @ \ {Least(@)}, !.left = GetLookaheads(top)]
  <2>1. frames' = [frames EXCEPT ![Len(frames)] = f]
    BY <1>3 DEF NextRule, top
  <2>2. top \in Frame /\ Len(frames) \in DOMAIN frames
    BY <1>3, TopGood DEF NextRule
  <2>3. f.elem = top.elem
    <3> HIDE DEF top
    <3> QED
      BY <2>2 DEF Frame
  <2>4. CallsWithin(frames', I)
    BY <2>1, <2>2, <2>3 DEF CallsWithin, WithinInv, top
  <2> QED
    BY <1>3, <2>4 DEF NextRule, WithinInv
<1>4. CASE Return
  <2>1. CallsWithin(SubSeq(frames, 1, Len(frames) - 1), I)
    BY <1>4 DEF Return, CInv, GoodCalls, CallsWithin, WithinInv
  <2> QED
    BY <1>4, <2>1 DEF Return, WithinInv
<1>5. CASE ClosureDone \/ UNCHANGED cvars
  BY <1>5 DEF ClosureDone, cvars, WithinInv
<1> QED
  BY <1>1, <1>2, <1>3, <1>4, <1>5 DEF ClosureNext

\* No look-ahead is invented: every closed set that holds the kernel's items
\* holds those of the closure, also in the middle of the recursion, also when
\* a set rehashes while it is iterated.
THEOREM ClosureSound ==
    ASSUME NEW ClosedSets
    PROVE  ClosureSpec => []Sound(ClosedSets)
<1> DEFINE SoundInv ==
        \A I \in ClosedSets : Items(kernel) \subseteq I /\ Closed(I) => WithinInv(I)
<1>1. ClosureInit => SoundInv
  <2> SUFFICES ASSUME ClosureInit, NEW I \in ClosedSets, Items(kernel) \subseteq I
               PROVE  WithinInv(I)
    OBVIOUS
  <2>1. AllWithin(kernel, I)
    BY ItemsWithin
  <2> QED
    BY <2>1 DEF ClosureInit, WithinInv, AllWithin, CallsWithin
<1>2. CInv /\ SoundInv /\ [ClosureNext]_cvars => SoundInv'
  <2> SUFFICES ASSUME CInv, SoundInv, [ClosureNext]_cvars, NEW I \in ClosedSets,
                      Items(kernel') \subseteq I, Closed(I)
               PROVE  WithinInv(I)'
    OBVIOUS
  <2>1. kernel' = kernel
    BY DEF ClosureNext, AddKernel, NextLookahead, NextRule, Return, ClosureDone, cvars
  <2> QED
    BY <2>1, StepWithin
<1>3. CInv /\ SoundInv => Sound(ClosedSets)
  BY ItemsWithin DEF Sound, WithinInv
<1> QED
  BY <1>1, <1>2, <1>3, AlwaysCInv, PTL DEF ClosureSpec

-----------------------------------------------------------------------------
(***************************************************************************)
(* The converse of the soundness of closures: if no set is so large that it  *)
(* rehashes, AddElement leaves nothing out, for every grammar, every         *)
(* elements to add and every order of the look-aheads.                      *)
(***************************************************************************)

\* The grammar is finite, and every set of look-aheads stays below the size at
\* which it rehashes.
NoRehash ==
    /\ IsFiniteSet(RuleNr) /\ IsFiniteSet(Terminal)
    /\ Cardinality(Terminal) <= BucketLimit

\* The elements have this core with this look-ahead.
Has(els, c, la) == \E i \in DOMAIN els : els[i].core = c /\ la \in els[i].las

\* The rules an item makes AddElement go through, and what it finds there.
Wanted(c) ==
    LET sym == GetSymbolAtCursor(c) IN IF sym \in NonTerminal THEN RulesOf(sym) ELSE {}
Found(els, c, la, r) ==
    \A t \in calc_first(GetRhs(c), la, c[2] + 1) : Has(els, <<r, 0>>, t)

\* The call will still come to this look-ahead of its own element for this rule.
Owes(f, c, la, r) ==
    /\ f.elem.core = c /\ la \in f.elem.las /\ r \in f.rules
    /\ r = Least(f.rules) => la \in f.left
Owed(calls, c, la, r) == \E k \in DOMAIN calls : Owes(calls[k], c, la, r)

\* The element a call stored has kept its look-aheads.
Kept(els, calls) ==
    \A k \in DOMAIN calls : calls[k].at # 0 => calls[k].elem.las \subseteq els[calls[k].at].las

\* For every item, what it implies is there or some call owes it.
Accounted ==
    \A c \in Core, la \in Terminal, r \in RuleNr :
        Has(m_elems, c, la) /\ r \in Wanted(c) =>
            Found(m_elems, c, la, r) \/ Owed(frames, c, la, r)

\* The kernel is there or still to be added.
KernelAdded ==
    \A i \in DOMAIN kernel :
        \/ \E j \in DOMAIN todo : todo[j] = kernel[i]
        \/ \A la \in kernel[i].las : Has(m_elems, kernel[i].core, la)

CompleteInv == Kept(m_elems, frames) /\ Accounted /\ KernelAdded

-----------------------------------------------------------------------------
(* What there is, while the elements grow. *)

LEMMA HasStays ==
    ASSUME NEW old \in Seq(Element), NEW new, NEW e, Grows(old, new, e),
           NEW c, NEW la, Has(old, c, la)
    PROVE  Has(new, c, la)
BY DEF Grows, Has

LEMMA HasSource ==
    ASSUME NEW old \in Seq(Element), NEW new, NEW e, Grows(old, new, e),
           NEW c, NEW la, Has(new, c, la)
    PROVE  Has(old, c, la) \/ (c = e.core /\ la \in e.las)
<1>1. PICK i \in DOMAIN new : new[i].core = c /\ la \in new[i].las
  BY DEF Has
<1>2. CASE i \in 1 .. Len(old)
  BY <1>1, <1>2 DEF Grows, Has
<1>3. CASE i \in Len(old) + 1 .. Len(new)
  BY <1>1, <1>3 DEF Grows
<1>. QED
  BY <1>1, <1>2, <1>3 DEF Grows

LEMMA FoundStays ==
    ASSUME NEW old \in Seq(Element), NEW new, NEW e, Grows(old, new, e),
           NEW c, NEW la, NEW r, Found(old, c, la, r)
    PROVE  Found(new, c, la, r)
BY HasStays DEF Found

\* What is added is there.
LEMMA AddElementHas ==
    ASSUME NEW e \in Element, NEW calls, m_elems \in Seq(Element), AddElement(e, calls),
           NEW la \in e.las
    PROVE  Has(m_elems', e.core, la)
<1>1. CASE HasElement(e) /\ UNCHANGED m_elems
  BY <1>1 DEF HasElement, Has
<1>2. CASE \E i \in DOMAIN m_elems :
              /\ m_elems[i].core = e.core
              /\ m_elems' = [m_elems EXCEPT ![i].las = @ \cup e.las]
  <2>1. PICK i \in DOMAIN m_elems : /\ m_elems[i].core = e.core
                                    /\ m_elems' = [m_elems EXCEPT ![i].las = @ \cup e.las]
    BY <1>2
  <2>2. m_elems[i] \in Element
    BY <2>1
  <2>3. \A x \in Element : LET y == [x EXCEPT !.las = @ \cup e.las]
                           IN  y.core = x.core /\ y.las = x.las \cup e.las
    BY DEF Element
  <2>4. i \in DOMAIN m_elems' /\ m_elems'[i] = [m_elems[i] EXCEPT !.las = @ \cup e.las]
    BY <2>1
  <2>. QED
    BY <2>1, <2>2, <2>3, <2>4 DEF Has
<1>3. CASE m_elems' = Append(m_elems, e)
  <2>1. Len(m_elems) + 1 \in DOMAIN m_elems' /\ m_elems'[Len(m_elems) + 1] = e
    BY <1>3
  <2>. QED
    BY <2>1 DEF Has
<1>. QED
  BY <1>1, <1>2, <1>3 DEF AddElement

-----------------------------------------------------------------------------
(* What the calls owe. *)

\* An iterator that stays valid comes to all look-aheads it would have come to.
LEMMA DisturbedKeeps ==
    ASSUME NoRehash, NEW f \in Frame, NEW las \in SUBSET Terminal, NEW new \in SUBSET Terminal,
           NEW left \in Disturbed(f, las, new)
    PROVE  f.left \subseteq left /\ left \subseteq Terminal
<1>1. las \cup new \subseteq Terminal
  OBVIOUS
<1>2. Cardinality(las \cup new) <= Cardinality(Terminal)
      /\ Cardinality(las \cup new) \in Nat /\ Cardinality(Terminal) \in Nat
  BY <1>1, FS_Subset, FS_CardinalityType DEF NoRehash
<1>3. ~(Cardinality(las \cup new) > BucketLimit)
  BY <1>2, ClosureAssumption DEF NoRehash
<1>4. left \in {f.left \cup S : S \in SUBSET (new \ las)}
  BY <1>3 DEF Disturbed
<1>. QED
  BY <1>4 DEF Frame

\* An interrupted call owes what it owed, and is of the same element.
LEMMA InterruptedOwes ==
    ASSUME NoRehash, m_elems \in Seq(Element), NEW calls \in Seq(Frame),
           NEW i \in DOMAIN m_elems, NEW new \in SUBSET Terminal,
           NEW after \in Interrupted(calls, i, new)
    PROVE  /\ after \in Seq(Frame) /\ Len(after) = Len(calls)
           /\ \A k \in DOMAIN calls : /\ after[k].elem = calls[k].elem /\ after[k].at = calls[k].at
                                      /\ after[k].rules = calls[k].rules
                                      /\ calls[k].left \subseteq after[k].left
<1> DEFINE Owner == {k \in DOMAIN calls : calls[k].at = i}
           k == Least(Owner)
<1>1. CASE Owner = {}
  BY <1>1 DEF Interrupted
<1>2. CASE Owner # {}
  <2>1. k \in DOMAIN calls
    <3>1. Owner \in SUBSET Nat
      OBVIOUS
    <3>2. k \in Owner
      BY <1>2, <3>1, LeastIn
    <3>. QED
      BY <3>2
  <2>2. PICK left \in Disturbed(calls[k], m_elems[i].las, new) :
            after = [calls EXCEPT ![k].left = left]
    BY <1>2 DEF Interrupted
  <2> HIDE DEF k
  <2>3. calls[k] \in Frame /\ m_elems[i].las \in SUBSET Terminal
    <3>1. calls[k] \in Frame /\ m_elems[i] \in Element
      BY <2>1
    <3>. QED
      BY <3>1 DEF Element
  <2>4. calls[k].left \subseteq left /\ left \subseteq Terminal
    BY <2>2, <2>3, DisturbedKeeps
  <2> DEFINE f == [calls[k] EXCEPT !.left = left]
  <2>5. /\ f \in Frame /\ f.elem = calls[k].elem /\ f.at = calls[k].at
        /\ f.rules = calls[k].rules /\ f.left = left
    BY <2>3, <2>4 DEF Frame
  <2>6. after = [calls EXCEPT ![k] = f]
    BY <2>2
  <2> HIDE DEF f
  <2>7. /\ after \in Seq(Frame) /\ Len(after) = Len(calls)
        /\ \A j \in DOMAIN calls : after[j] = IF j = k THEN f ELSE calls[j]
    BY <2>1, <2>5, <2>6
  <2>. QED
    BY <2>4, <2>5, <2>7
<1>. QED
  BY <1>1, <1>2

LEMMA OwedByMore ==
    ASSUME NEW calls \in Seq(Frame), NEW more \in Seq(Frame), NEW c, NEW la, NEW r,
           Owed(calls, c, la, r) \/ Owed(more, c, la, r)
    PROVE  Owed(calls \o more, c, la, r)
<1>1. /\ Len(calls \o more) = Len(calls) + Len(more)
      /\ \A k \in DOMAIN calls : k \in DOMAIN (calls \o more) /\ (calls \o more)[k] = calls[k]
      /\ \A k \in DOMAIN more : /\ Len(calls) + k \in DOMAIN (calls \o more)
                                /\ (calls \o more)[Len(calls) + k] = more[k]
  OBVIOUS
<1>. QED
  BY <1>1 DEF Owed

LEMMA KeptByMore ==
    ASSUME NEW calls \in Seq(Frame), NEW more \in Seq(Frame), NEW els,
           Kept(els, calls), Kept(els, more)
    PROVE  Kept(els, calls \o more)
<1>1. /\ Len(calls \o more) = Len(calls) + Len(more)
      /\ \A k \in 1 .. Len(calls) + Len(more) :
             (calls \o more)[k] = IF k <= Len(calls) THEN calls[k] ELSE more[k - Len(calls)]
  OBVIOUS
<1>2. SUFFICES ASSUME NEW k \in DOMAIN (calls \o more), (calls \o more)[k].at # 0
               PROVE  (calls \o more)[k].elem.las \subseteq els[(calls \o more)[k].at].las
  BY DEF Kept
<1>3. k \in 1 .. Len(calls) + Len(more)
  BY <1>1
<1>4. CASE k <= Len(calls)
  <2>1. k \in DOMAIN calls /\ (calls \o more)[k] = calls[k]
    BY <1>1, <1>3, <1>4
  <2>. QED
    BY <1>2, <2>1 DEF Kept
<1>5. CASE ~(k <= Len(calls))
  <2>1. k - Len(calls) \in DOMAIN more /\ (calls \o more)[k] = more[k - Len(calls)]
    BY <1>1, <1>3, <1>5
  <2>. QED
    BY <1>2, <2>1 DEF Kept
<1>. QED
  BY <1>4, <1>5

\* A new call owes everything its element implies.
LEMMA CallOwes ==
    ASSUME NEW e \in Element, NEW i \in Nat
    PROVE  /\ Call(e, i) \in Seq(Frame)
           /\ \A k \in DOMAIN Call(e, i) : Call(e, i)[k].elem = e /\ Call(e, i)[k].at = i
           /\ \A la \in e.las, r \in Wanted(e.core) : Owed(Call(e, i), e.core, la, r)
<1> DEFINE sym == GetSymbolAtCursor(e.core)
           f == [elem |-> e, at |-> i, rules |-> RulesOf(sym), left |-> e.las]
<1>1. CASE sym \in NonTerminal /\ RulesOf(sym) # {}
  <2>1. f \in Frame /\ f.elem = e /\ f.at = i /\ f.rules = RulesOf(sym) /\ f.left = e.las
    BY DEF Frame, Element, RulesOf
  <2>2. Call(e, i) = <<f>>
    BY <1>1 DEF Call
  <2>3. Wanted(e.core) = RulesOf(sym)
    BY <1>1 DEF Wanted
  <2> HIDE DEF f, sym
  <2>4. \A la \in e.las, r \in Wanted(e.core) : Owes(f, e.core, la, r)
    BY <2>1, <2>3 DEF Owes
  <2>5. <<f>> \in Seq(Frame) /\ DOMAIN <<f>> = {1} /\ <<f>>[1] = f
    BY <2>1
  <2>. QED
    BY <2>1, <2>2, <2>4, <2>5 DEF Owed
<1>2. CASE ~(sym \in NonTerminal /\ RulesOf(sym) # {})
  <2>1. Wanted(e.core) = {}
    BY <1>2 DEF Wanted
  <2>2. Call(e, i) = <<>>
    BY <1>2 DEF Call
  <2>. QED
    BY <2>1, <2>2
<1>. QED
  BY <1>1, <1>2

\* The calls and the elements after a call of AddElement: debts stay, those of new
\* items come to them.
LEMMA AddElementOwes ==
    ASSUME NoRehash, NEW e \in Element, m_elems \in Seq(Element),
           NEW calls, GoodCalls(calls, m_elems), Kept(m_elems, calls), AddElement(e, calls)
    PROVE  /\ Kept(m_elems', frames')
           /\ \A c, la, r :
                  Owed(calls, c, la, r) => Owed(frames', c, la, r)
           /\ \A c, la, r :
                  Has(m_elems', c, la) /\ r \in Wanted(c) =>
                      Has(m_elems, c, la) \/ Owed(frames', c, la, r)
<1>1. Grows(m_elems, m_elems', e) /\ calls \in Seq(Frame) /\ e.las \in SUBSET Terminal
  BY AddElementGrows DEF GoodCalls, Element
<1>2. Kept(m_elems', calls)
  <2> SUFFICES ASSUME NEW k \in DOMAIN calls, calls[k].at # 0
               PROVE  calls[k].elem.las \subseteq m_elems'[calls[k].at].las
    BY DEF Kept
  <2>1. calls[k].at \in 1 .. Len(m_elems)
    BY DEF GoodCalls, GoodCall
  <2>. QED
    BY <1>1, <2>1 DEF Kept, Grows
<1>3. CASE HasElement(e) /\ frames' = calls /\ UNCHANGED m_elems
  BY <1>2, <1>3
<1>4. ASSUME NEW after \in Seq(Frame), NEW i \in Nat, frames' = after \o Call(e, i),
             Kept(m_elems', after), i # 0 => e.las \subseteq m_elems'[i].las,
             \A c, la, r : Owed(calls, c, la, r) => Owed(after, c, la, r)
      PROVE  /\ Kept(m_elems', frames')
             /\ \A c, la, r :
                    Owed(calls, c, la, r) => Owed(frames', c, la, r)
             /\ \A c, la, r :
                    Has(m_elems', c, la) /\ r \in Wanted(c) =>
                        Has(m_elems, c, la) \/ Owed(frames', c, la, r)
  <2>1. Call(e, i) \in Seq(Frame) /\ Kept(m_elems', Call(e, i))
    <3> DEFINE new == Call(e, i)
    <3>1. new \in Seq(Frame) /\ \A k \in DOMAIN new : new[k].elem = e /\ new[k].at = i
      BY <1>4, CallOwes
    <3> HIDE DEF new
    <3>2. Kept(m_elems', new)
      BY <1>4, <3>1 DEF Kept
    <3>. QED
      BY <3>1, <3>2 DEF new
  <2>2. Kept(m_elems', frames')
    BY <1>4, <2>1, KeptByMore
  <2>3. ASSUME NEW c, NEW la, NEW r, Owed(calls, c, la, r)
        PROVE  Owed(frames', c, la, r)
    BY <1>4, <2>1, <2>3, OwedByMore
  <2>4. ASSUME NEW c, NEW la, NEW r, Has(m_elems', c, la), r \in Wanted(c), ~ Has(m_elems, c, la)
        PROVE  Owed(frames', c, la, r)
    <3>1. c = e.core /\ la \in e.las
      BY <1>1, <2>4, HasSource
    <3>2. Owed(Call(e, i), c, la, r)
      BY <2>4, <3>1, CallOwes
    <3>. QED
      BY <1>4, <2>1, <3>2, OwedByMore
  <2>. QED
    BY <2>2, <2>3, <2>4
<1>5. CASE \E i \in DOMAIN m_elems :
              \E after \in Interrupted(calls, i, e.las) : frames' = after \o Call(e, 0)
  <2>0. PICK i \in DOMAIN m_elems :
            \E after \in Interrupted(calls, i, e.las) : frames' = after \o Call(e, 0)
    BY <1>5
  <2>1. PICK after \in Interrupted(calls, i, e.las) : frames' = after \o Call(e, 0)
    BY <2>0
  <2>2. /\ after \in Seq(Frame) /\ Len(after) = Len(calls)
        /\ \A k \in DOMAIN calls : /\ after[k].elem = calls[k].elem /\ after[k].at = calls[k].at
                                   /\ after[k].rules = calls[k].rules
                                   /\ calls[k].left \subseteq after[k].left
    BY <1>1, <2>1, InterruptedOwes
  <2>3. DOMAIN after = DOMAIN calls
    BY <1>1, <2>2
  <2>4. Kept(m_elems', after)
    BY <1>2, <2>2, <2>3 DEF Kept
  <2>5. ASSUME NEW c, NEW la, NEW r, Owed(calls, c, la, r)
        PROVE  Owed(after, c, la, r)
    <3>1. PICK k \in DOMAIN calls : Owes(calls[k], c, la, r)
      BY <2>5 DEF Owed
    <3>2. Owes(after[k], c, la, r)
      BY <2>2, <3>1 DEF Owes
    <3>. QED
      BY <2>3, <3>1, <3>2 DEF Owed
  <2>. QED
    BY <1>4, <2>1, <2>2, <2>4, <2>5
<1>6. CASE /\ m_elems' = Append(m_elems, e)
           /\ frames' = calls \o Call(e, Len(m_elems) + 1)
  <2>1. Len(m_elems) + 1 \in Nat /\ m_elems'[Len(m_elems) + 1] = e
    BY <1>6
  <2>. QED
    BY <1>1, <1>2, <1>4, <1>6, <2>1
<1>. QED
  BY <1>3, <1>5, <1>6 DEF AddElement

-----------------------------------------------------------------------------
(* The steps. *)

LEMMA InitComplete == ClosureInit => CompleteInv
<1> SUFFICES ASSUME ClosureInit PROVE CompleteInv
  OBVIOUS
<1>1. Kept(m_elems, frames) /\ Accounted
  BY DEF ClosureInit, Kept, Accounted, Has
<1>2. KernelAdded
  BY DEF ClosureInit, KernelAdded
<1>. QED
  BY <1>1, <1>2 DEF CompleteInv

LEMMA AddKernelComplete ==
    ASSUME NoRehash, CInv, CompleteInv, AddKernel
    PROVE  CompleteInv'
<1>1. /\ Head(todo) \in Element /\ m_elems \in Seq(Element) /\ GoodCalls(frames, m_elems)
      /\ AddElement(Head(todo), frames) /\ Kept(m_elems, frames)
  BY DEF AddKernel, CInv, CompleteInv
<1>2. Grows(m_elems, m_elems', Head(todo))
  BY <1>1, AddElementGrows
<1>3. /\ Kept(m_elems', frames')
      /\ \A c, la, r : Owed(frames, c, la, r) => Owed(frames', c, la, r)
      /\ \A c, la, r : Has(m_elems', c, la) /\ r \in Wanted(c) =>
                           Has(m_elems, c, la) \/ Owed(frames', c, la, r)
  BY <1>1, AddElementOwes
<1>4. Accounted'
  <2> SUFFICES ASSUME NEW c \in Core, NEW la \in Terminal, NEW r \in RuleNr,
                      Has(m_elems', c, la), r \in Wanted(c), ~ Owed(frames', c, la, r)
               PROVE  Found(m_elems', c, la, r)
    BY DEF Accounted
  <2>1. Has(m_elems, c, la) /\ ~ Owed(frames, c, la, r)
    BY <1>3
  <2>2. Found(m_elems, c, la, r)
    BY <2>1 DEF CompleteInv, Accounted
  <2>. QED
    BY <1>1, <1>2, <2>2, FoundStays
<1>5. KernelAdded'
  <2> SUFFICES ASSUME NEW i \in DOMAIN kernel, ~ \E j \in DOMAIN todo' : todo'[j] = kernel[i],
                      NEW la \in kernel[i].las
               PROVE  Has(m_elems', kernel[i].core, la)
    BY DEF KernelAdded, AddKernel
  <2>1. CASE kernel[i] = Head(todo)
    BY <1>1, <2>1, AddElementHas
  <2>2. CASE kernel[i] # Head(todo)
    <3>1. ASSUME NEW j \in DOMAIN todo, todo[j] = kernel[i]
          PROVE  FALSE
      <4>1. todo \in Seq(Element) /\ todo # <<>> /\ todo' = Tail(todo)
        BY DEF CInv, AddKernel
      <4>2. j # 1
        BY <2>2, <3>1, <4>1
      <4>3. j - 1 \in DOMAIN todo' /\ todo'[j - 1] = todo[j]
        BY <4>1, <4>2
      <4>. QED
        BY <3>1, <4>3
    <3>2. Has(m_elems, kernel[i].core, la)
      BY <3>1 DEF CompleteInv, KernelAdded
    <3>. QED
      BY <1>1, <1>2, <3>2, HasStays
  <2>. QED
    BY <2>1, <2>2
<1>. QED
  BY <1>3, <1>4, <1>5 DEF CompleteInv

\* The call that visits a look-ahead pays one debt, with the call of AddElement.
LEMMA NextLookaheadComplete ==
    ASSUME NoRehash, CInv, CompleteInv, NextLookahead
    PROVE  CompleteInv'
<1>1. frames # <<>>
  BY DEF NextLookahead
<1>2. PICK x \in top.left :
          AddElement(LoopElement(x), [frames EXCEPT ![Len(frames)].left = @ \ {x}])
  BY DEF NextLookahead, LoopElement
<1> DEFINE calls == [frames EXCEPT ![Len(frames)].left = @ \ {x}]
           f == [top EXCEPT !.left = @ \ {x}]
           n == Len(frames)
<1>3. LoopElement(x) \in Element /\ GoodCalls(calls, m_elems) /\ m_elems \in Seq(Element)
  BY <1>1, LoopBody DEF CInv
<1>4. /\ top \in Frame /\ top = frames[n] /\ n \in DOMAIN frames
      /\ calls = [frames EXCEPT ![n] = f] /\ frames \in Seq(Frame)
  BY <1>1, TopGood DEF top, CInv, GoodCalls
<1>5. f.elem = top.elem /\ f.at = top.at /\ f.rules = top.rules /\ f.left = top.left \ {x}
  <2> HIDE DEF top
  <2>. QED
    BY <1>4 DEF Frame
<1> HIDE DEF f, calls, top
<1>6. /\ DOMAIN calls = DOMAIN frames
      /\ \A k \in DOMAIN frames : calls[k] = IF k = n THEN f ELSE frames[k]
  BY <1>4
<1>7. Kept(m_elems, calls)
  BY <1>4, <1>5, <1>6 DEF CompleteInv, Kept
<1>8. ASSUME NEW c, NEW la, NEW r, Owed(frames, c, la, r)
      PROVE  \/ Owed(calls, c, la, r)
             \/ c = top.elem.core /\ la = x /\ r = Least(top.rules)
  <2>1. PICK k \in DOMAIN frames : Owes(frames[k], c, la, r)
    BY <1>8 DEF Owed
  <2>2. CASE k # n
    BY <1>6, <2>1, <2>2 DEF Owed
  <2>3. CASE k = n
    <3>1. Owes(f, c, la, r) \/ (c = top.elem.core /\ la = x /\ r = Least(top.rules))
      BY <1>4, <1>5, <2>1, <2>3 DEF Owes
    <3>. QED
      BY <1>6, <2>1, <2>3, <3>1 DEF Owed
  <2>. QED
    BY <2>2, <2>3
<1>9. AddElement(LoopElement(x), calls)
  BY <1>2 DEF calls
<1>10. Grows(m_elems, m_elems', LoopElement(x))
  BY <1>3, <1>9, AddElementGrows
<1>11. /\ Kept(m_elems', frames')
       /\ \A c, la, r : Owed(calls, c, la, r) => Owed(frames', c, la, r)
       /\ \A c, la, r : Has(m_elems', c, la) /\ r \in Wanted(c) =>
                            Has(m_elems, c, la) \/ Owed(frames', c, la, r)
  BY <1>3, <1>7, <1>9, AddElementOwes
<1>12. Found(m_elems', top.elem.core, x, Least(top.rules))
  <2>1. \A t \in LoopElement(x).las : Has(m_elems', LoopElement(x).core, t)
    BY <1>3, <1>9, AddElementHas
  <2>. QED
    BY <2>1 DEF LoopElement, Found
<1>13. Accounted'
  <2> SUFFICES ASSUME NEW c \in Core, NEW la \in Terminal, NEW r \in RuleNr,
                      Has(m_elems', c, la), r \in Wanted(c), ~ Owed(frames', c, la, r)
               PROVE  Found(m_elems', c, la, r)
    BY DEF Accounted
  <2>1. CASE c = top.elem.core /\ la = x /\ r = Least(top.rules)
    BY <1>12, <2>1
  <2>2. CASE ~(c = top.elem.core /\ la = x /\ r = Least(top.rules))
    <3>1. Has(m_elems, c, la) /\ ~ Owed(frames, c, la, r)
      BY <1>8, <1>11, <2>2
    <3>2. Found(m_elems, c, la, r)
      BY <3>1 DEF CompleteInv, Accounted
    <3>. QED
      BY <1>3, <1>10, <3>2, FoundStays
  <2>. QED
    BY <2>1, <2>2
<1>14. KernelAdded'
  <2>1. kernel' = kernel /\ todo' = todo
    BY DEF NextLookahead
  <2>2. \A c, la : Has(m_elems, c, la) => Has(m_elems', c, la)
    BY <1>3, <1>10, HasStays
  <2>. QED
    BY <2>1, <2>2 DEF CompleteInv, KernelAdded
<1>. QED
  BY <1>11, <1>13, <1>14 DEF CompleteInv

\* The next rule is begun with all look-aheads the call owes for it.
LEMMA NextRuleComplete ==
    ASSUME CInv, CompleteInv, NextRule
    PROVE  CompleteInv'
<1> DEFINE n == Len(frames)
           f == [top EXCEPT !.rules = @ \ {Least(@)}, !.left = GetLookaheads(top)]
<1>1. frames # <<>> /\ top.left = {}
  BY DEF NextRule
<1>2. /\ top \in Frame /\ top = frames[n] /\ n \in DOMAIN frames /\ frames \in Seq(Frame)
      /\ frames' = [frames EXCEPT ![n] = f]
  BY <1>1, TopGood DEF NextRule, top, CInv, GoodCalls
<1>3. /\ f.elem = top.elem /\ f.at = top.at
      /\ f.rules = top.rules \ {Least(top.rules)} /\ f.left = GetLookaheads(top)
  <2> HIDE DEF top
  <2>. QED
    BY <1>2 DEF Frame
<1>4. top.elem.las \subseteq GetLookaheads(top)
  <2>1. top.at # 0 => top.elem.las \subseteq m_elems[top.at].las
    BY <1>2 DEF CompleteInv, Kept
  <2> HIDE DEF top
  <2>. QED
    BY <2>1 DEF GetLookaheads
<1> HIDE DEF f, top
<1>5. /\ DOMAIN frames' = DOMAIN frames
      /\ \A k \in DOMAIN frames : frames'[k] = IF k = n THEN f ELSE frames[k]
  BY <1>2
<1>6. Kept(m_elems, frames')
  BY <1>2, <1>3, <1>5 DEF CompleteInv, Kept
<1>7. ASSUME NEW c, NEW la, NEW r, Owed(frames, c, la, r)
      PROVE  Owed(frames', c, la, r)
  <2>1. PICK k \in DOMAIN frames : Owes(frames[k], c, la, r)
    BY <1>7 DEF Owed
  <2>2. Owes(frames'[k], c, la, r)
    BY <1>1, <1>2, <1>3, <1>4, <1>5, <2>1 DEF Owes
  <2>. QED
    BY <1>5, <2>1, <2>2 DEF Owed
<1>8. UNCHANGED <<kernel, todo, m_elems>>
  BY DEF NextRule
<1>. QED
  BY <1>6, <1>7, <1>8 DEF CompleteInv, Accounted, KernelAdded

\* A call that returns owes nothing.
LEMMA ReturnComplete ==
    ASSUME NoRehash, CInv, CompleteInv, Return
    PROVE  CompleteInv'
<1> DEFINE n == Len(frames)
<1>1. frames # <<>> /\ top.left = {} /\ Cardinality(top.rules) = 1
  BY DEF Return
<1>2. /\ top \in Frame /\ top = frames[n] /\ n \in DOMAIN frames /\ frames \in Seq(Frame)
      /\ frames' = SubSeq(frames, 1, n - 1) /\ Least(top.rules) \in top.rules
  BY <1>1, TopGood DEF Return, top, CInv, GoodCalls
<1>3. \A r \in top.rules : r = Least(top.rules)
  <2> HIDE DEF top
  <2>1. IsFiniteSet(top.rules)
    BY <1>2, FS_Subset DEF NoRehash, Frame
  <2>2. \E x : top.rules = {x}
    BY <1>1, <2>1, FS_Singleton
  <2>. QED
    BY <1>2, <2>2
<1>4. /\ DOMAIN frames' = 1 .. n - 1
      /\ \A k \in 1 .. n - 1 : frames'[k] = frames[k] /\ k \in DOMAIN frames
  BY <1>2
<1>5. ASSUME NEW c, NEW la, NEW r, Owed(frames, c, la, r)
      PROVE  Owed(frames', c, la, r)
  <2>1. PICK k \in DOMAIN frames : Owes(frames[k], c, la, r)
    BY <1>5 DEF Owed
  <2>2. k # n
    BY <1>1, <1>2, <1>3, <2>1 DEF Owes
  <2>3. k \in 1 .. n - 1
    BY <1>2, <2>1, <2>2
  <2>. QED
    BY <1>4, <2>1, <2>3 DEF Owed
<1>6. Kept(m_elems, frames')
  BY <1>4 DEF CompleteInv, Kept
<1>7. UNCHANGED <<kernel, todo, m_elems>>
  BY DEF Return
<1>. QED
  BY <1>5, <1>6, <1>7 DEF CompleteInv, Accounted, KernelAdded

\* When nothing is left to do, all debts are paid.
LEMMA DoneComplete ==
    ASSUME CInv, CompleteInv
    PROVE  Complete
<1> SUFFICES ASSUME Finished
             PROVE  Items(kernel) \subseteq Items(m_elems) /\ Closed(Items(m_elems))
  BY DEF Complete
<1>1. \A c, la : <<c, la>> \in Items(m_elems) <=> Has(m_elems, c, la)
  BY DEF Items, Has
<1>2. Items(kernel) \subseteq Items(m_elems)
  <2> SUFFICES ASSUME NEW i \in DOMAIN kernel, NEW la \in kernel[i].las
               PROVE  <<kernel[i].core, la>> \in Items(m_elems)
    BY DEF Items
  <2>. QED
    BY <1>1 DEF Finished, CompleteInv, KernelAdded
<1>3. ASSUME NEW i \in DOMAIN m_elems, NEW la \in m_elems[i].las,
             NEW y \in Implied(m_elems[i].core, la)
      PROVE  y \in Items(m_elems)
  <2> DEFINE c == m_elems[i].core
  <2>1. c \in Core /\ la \in Terminal /\ Has(m_elems, c, la)
    <3>1. m_elems[i] \in Element
      BY DEF CInv
    <3>. QED
      BY <3>1 DEF Element, Has
  <2> HIDE DEF c
  <2>2. PICK r \in Wanted(c), t \in calc_first(GetRhs(c), la, c[2] + 1) : y = <<<<r, 0>>, t>>
    BY <1>3 DEF Implied, Wanted, c
  <2>3. r \in RuleNr
    BY DEF Wanted, RulesOf
  <2>4. ~ Owed(frames, c, la, r)
    BY DEF Finished, Owed
  <2>5. Has(m_elems, <<r, 0>>, t)
    BY <2>1, <2>3, <2>4 DEF CompleteInv, Accounted, Found
  <2>. QED
    BY <1>1, <2>2, <2>5
<1>4. Closed(Items(m_elems))
  BY <1>3 DEF Closed, Items
<1>. QED
  BY <1>2, <1>4

\* Nothing is left out: if no set of look-aheads can become so large that it
\* rehashes, then whenever AddElement has returned, the closure holds the kernel
\* and is closed.
THEOREM ClosureComplete ==
    ASSUME NoRehash
    PROVE  ClosureSpec => []Complete
<1>1. CInv /\ CompleteInv /\ [ClosureNext]_cvars => CompleteInv'
  <2> SUFFICES ASSUME CInv, CompleteInv, [ClosureNext]_cvars PROVE CompleteInv'
    OBVIOUS
  <2>1. CASE ClosureDone \/ UNCHANGED cvars
    BY <2>1 DEF ClosureDone, cvars, CompleteInv, Kept, Accounted, KernelAdded
  <2>. QED
    BY <2>1, AddKernelComplete, NextLookaheadComplete, NextRuleComplete, ReturnComplete
       DEF ClosureNext
<1>2. CInv /\ CompleteInv => Complete
  BY DoneComplete
<1>. QED
  BY <1>1, <1>2, InitComplete, AlwaysCInv, PTL DEF ClosureSpec

-----------------------------------------------------------------------------
(***************************************************************************)
(* What the collections rely on (LocalClosureCorrect of Collection): the     *)
(* cores of the kernel are there, and what else is there opens a rule for a  *)
(* symbol behind a cursor.  The order of the look-aheads and the size of the *)
(* sets do not matter for this.                                             *)
(***************************************************************************)
Cores(elems) == {elems[i].core : i \in DOMAIN elems}

\* The elements come from the kernel or open a rule.
Explained(elems) ==
    \A i \in DOMAIN elems :
        \/ OpensRule(Cores(elems), elems[i].core)
        \/ /\ elems[i].core \in Cores(kernel)
           /\ \A la \in elems[i].las : <<elems[i].core, la>> \in Items(kernel)

KernelInv ==
    /\ Explained(m_elems)
    /\ \A j \in DOMAIN todo : \E i \in DOMAIN kernel : todo[j] = kernel[i]
    /\ \A i \in DOMAIN kernel :
           (\E j \in DOMAIN todo : todo[j] = kernel[i]) \/ kernel[i].core \in Cores(m_elems)
    /\ CallsWithin(frames, Cores(m_elems) \X Terminal)

KernelClosure ==
    Finished => ClosureOfKernel(Cores(m_elems), Items(m_elems), Cores(kernel), Items(kernel))

LEMMA CoresGrow ==
    ASSUME NEW old \in Seq(Element), NEW new, NEW e, Grows(old, new, e)
    PROVE  Cores(old) \subseteq Cores(new) /\ Cores(new) \subseteq Cores(old) \cup {e.core}
<1>1. new \in Seq(Element) /\ DOMAIN new = 1 .. Len(new) /\ DOMAIN old = 1 .. Len(old)
  BY DEF Grows
<1>2. Cores(old) \subseteq Cores(new)
  BY <1>1 DEF Grows, Cores
<1>3. ASSUME NEW i \in DOMAIN new
      PROVE  new[i].core \in Cores(old) \cup {e.core}
  <2>1. CASE i \in 1 .. Len(old)
    BY <1>1, <2>1 DEF Grows, Cores
  <2>2. CASE i \in Len(old) + 1 .. Len(new)
    BY <2>2 DEF Grows
  <2>. QED
    BY <1>1, <2>1, <2>2
<1>. QED
  BY <1>2, <1>3 DEF Cores

LEMMA ExplainedStays ==
    ASSUME NEW old \in Seq(Element), NEW new, NEW e \in Element, Grows(old, new, e),
           Explained(old),
           \/ OpensRule(Cores(old), e.core)
           \/ \E i \in DOMAIN kernel : e = kernel[i]
    PROVE  Explained(new)
<1>1. Cores(old) \subseteq Cores(new)
  BY CoresGrow
<1>2. \A c : OpensRule(Cores(old), c) => OpensRule(Cores(new), c)
  BY <1>1 DEF OpensRule
<1>3. new \in Seq(Element) /\ DOMAIN new = 1 .. Len(new) /\ DOMAIN old = 1 .. Len(old)
  BY DEF Grows
<1>4. \/ OpensRule(Cores(new), e.core)
      \/ /\ e.core \in Cores(kernel)
         /\ \A la \in e.las : <<e.core, la>> \in Items(kernel)
  <2>1. ASSUME NEW i \in DOMAIN kernel, e = kernel[i]
        PROVE  e.core \in Cores(kernel) /\ \A la \in e.las : <<e.core, la>> \in Items(kernel)
    BY <2>1 DEF Cores, Items
  <2>. QED
    BY <1>2, <2>1
<1> SUFFICES ASSUME NEW i \in DOMAIN new, ~OpensRule(Cores(new), new[i].core)
             PROVE  /\ new[i].core \in Cores(kernel)
                    /\ \A la \in new[i].las : <<new[i].core, la>> \in Items(kernel)
  BY DEF Explained
<1>5. CASE i \in 1 .. Len(old)
  <2>1. /\ new[i].core = old[i].core
        /\ new[i].las \subseteq old[i].las \cup (IF new[i].core = e.core THEN e.las ELSE {})
    BY <1>5 DEF Grows
  <2>2. ~OpensRule(Cores(old), old[i].core)
    BY <1>2, <2>1
  <2>3. /\ old[i].core \in Cores(kernel)
        /\ \A la \in old[i].las : <<old[i].core, la>> \in Items(kernel)
    BY <1>3, <1>5, <2>2 DEF Explained
  <2>. QED
    BY <1>4, <2>1, <2>3
<1>6. CASE i \in Len(old) + 1 .. Len(new)
  <2>1. new[i] = e
    BY <1>6 DEF Grows
  <2>. QED
    BY <1>4, <2>1
<1>. QED
  BY <1>3, <1>5, <1>6

\* What is added has its core there.
LEMMA AddElementCore ==
    ASSUME NEW e \in Element, NEW calls, m_elems \in Seq(Element), AddElement(e, calls)
    PROVE  e.core \in Cores(m_elems')
<1>1. Grows(m_elems, m_elems', e)
  BY AddElementGrows
<1>2. Cores(m_elems) \subseteq Cores(m_elems')
  BY <1>1, CoresGrow
<1>3. CASE \E i \in DOMAIN m_elems : m_elems[i].core = e.core
  BY <1>2, <1>3 DEF Cores
<1>4. CASE m_elems' = Append(m_elems, e)
  <2>1. Len(m_elems) + 1 \in DOMAIN m_elems' /\ m_elems'[Len(m_elems) + 1] = e
    BY <1>4
  <2>. QED
    BY <2>1 DEF Cores
<1>. QED
  BY <1>3, <1>4 DEF AddElement, HasElement

\* A call of AddElement with an element that may be added.
LEMMA AddElementExplained ==
    ASSUME CInv, Explained(m_elems), NEW e \in Element,
           NEW calls, GoodCalls(calls, m_elems),
           CallsWithin(calls, Cores(m_elems) \X Terminal),
           AddElement(e, calls),
           \/ OpensRule(Cores(m_elems), e.core)
           \/ \E i \in DOMAIN kernel : e = kernel[i]
    PROVE  /\ Explained(m_elems')
           /\ Cores(m_elems) \subseteq Cores(m_elems') /\ e.core \in Cores(m_elems')
           /\ CallsWithin(frames', Cores(m_elems') \X Terminal)
<1>1. m_elems \in Seq(Element) /\ Grows(m_elems, m_elems', e)
  BY AddElementGrows DEF CInv
<1>2. Cores(m_elems) \subseteq Cores(m_elems') /\ e.core \in Cores(m_elems')
  BY <1>1, CoresGrow, AddElementCore
<1>3. Explained(m_elems')
  BY <1>1, ExplainedStays
<1> DEFINE I == Cores(m_elems') \X Terminal
<1>4. Within(e, I) /\ AllWithin(m_elems, I)
  <2>1. \A x \in Element : x.las \subseteq Terminal
    BY DEF Element
  <2>2. \A i \in DOMAIN m_elems : m_elems[i].core \in Cores(m_elems') /\ m_elems[i].las \subseteq Terminal
    <3>1. \A i \in DOMAIN m_elems : m_elems[i] \in Element /\ m_elems[i].core \in Cores(m_elems)
      BY <1>1 DEF Cores
    <3>. QED
      BY <1>2, <2>1, <3>1
  <2>. QED
    BY <1>2, <2>1, <2>2 DEF AllWithin, Within
<1>5. CallsWithin(calls, I)
  BY <1>2 DEF CallsWithin, Within
<1> HIDE DEF I
<1>6. CallsWithin(frames', I)
  BY <1>1, <1>4, <1>5, AddElementWithin
<1>. QED
  BY <1>2, <1>3, <1>6 DEF I

LEMMA StepKernel ==
    ASSUME CInv, KernelInv, [ClosureNext]_cvars
    PROVE  KernelInv'
<1>1. CASE AddKernel
  <2>1. /\ Head(todo) \in Element /\ todo \in Seq(Element) /\ todo # <<>>
        /\ GoodCalls(frames, m_elems) /\ AddElement(Head(todo), frames)
        /\ todo' = Tail(todo) /\ kernel' = kernel
    BY <1>1 DEF AddKernel, CInv
  <2>2. \E i \in DOMAIN kernel : Head(todo) = kernel[i]
    BY <2>1 DEF KernelInv
  <2>3. /\ Explained(m_elems')
        /\ Cores(m_elems) \subseteq Cores(m_elems') /\ Head(todo).core \in Cores(m_elems')
        /\ CallsWithin(frames', Cores(m_elems') \X Terminal)
    BY <2>1, <2>2, AddElementExplained DEF KernelInv
  <2>4. Explained(m_elems)'
    BY <2>1, <2>3 DEF Explained
  <2>5. \A j \in DOMAIN todo : j # 1 => j - 1 \in DOMAIN todo' /\ todo'[j - 1] = todo[j]
    BY <2>1
  <2>6. \A j \in DOMAIN todo' : j + 1 \in DOMAIN todo /\ todo'[j] = todo[j + 1]
    BY <2>1
  <2>7. \A j \in DOMAIN todo' : \E i \in DOMAIN kernel : todo'[j] = kernel[i]
    BY <2>6 DEF KernelInv
  <2>8. ASSUME NEW i \in DOMAIN kernel, kernel[i].core \notin Cores(m_elems')
        PROVE  \E j \in DOMAIN todo' : todo'[j] = kernel[i]
    <3>1. PICK j \in DOMAIN todo : todo[j] = kernel[i]
      BY <2>3, <2>8 DEF KernelInv
    <3>2. j # 1
      BY <2>1, <2>3, <2>8, <3>1
    <3>. QED
      BY <2>5, <3>1, <3>2
  <2>. QED
    BY <2>1, <2>3, <2>4, <2>7, <2>8 DEF KernelInv
<1>2. CASE NextLookahead
  <2> DEFINE calls(la) == [frames EXCEPT ![Len(frames)].left = @ \ {la}]
  <2>0. frames # <<>> /\ kernel' = kernel /\ todo' = todo
    BY <1>2 DEF NextLookahead
  <2>1. PICK la \in top.left : AddElement(LoopElement(la), calls(la))
    BY <1>2 DEF NextLookahead, LoopElement
  <2>2. LoopElement(la) \in Element /\ GoodCalls(calls(la), m_elems)
    BY <2>0, <2>1, LoopBody
  <2>3. top \in Frame /\ GoodCall(top, m_elems) /\ Len(frames) \in DOMAIN frames
        /\ la \in GetLookaheads(top) /\ Least(top.rules) \in top.rules
    BY <2>0, TopGood
  <2>4. top.elem.core \in Cores(m_elems)
    <3>1. CASE top.at = 0
      <4>1. la \in top.elem.las
        BY <2>3, <3>1 DEF GetLookaheads
      <4>2. Within(top.elem, Cores(m_elems) \X Terminal)
        BY <2>3 DEF KernelInv, CallsWithin, top
      <4>. QED
        BY <4>1, <4>2 DEF Within
    <3>2. CASE top.at # 0
      BY <2>3, <3>2 DEF GoodCall, CInv, Cores
    <3>. QED
      BY <3>1, <3>2
  <2>5. OpensRule(Cores(m_elems), LoopElement(la).core)
    <3>1. LoopElement(la).core = <<Least(top.rules), 0>>
      BY DEF LoopElement
    <3>2. GetLhs(LoopElement(la).core) = GetSymbolAtCursor(top.elem.core)
      BY <2>3, <3>1 DEF GoodCall, RulesOf, GetLhs
    <3>. QED
      BY <2>4, <3>1, <3>2 DEF OpensRule
  <2>6. CallsWithin(calls(la), Cores(m_elems) \X Terminal)
    <3> DEFINE left == top.left \ {la}
    <3>1. calls(la) = [frames EXCEPT ![Len(frames)] = [top EXCEPT !.left = left]]
      BY DEF top
    <3>2. [top EXCEPT !.left = left].elem = top.elem
      BY <2>3 DEF Frame
    <3>. QED
      BY <2>3, <3>1, <3>2 DEF CallsWithin, KernelInv, top
  <2> HIDE DEF calls
  <2>7. /\ Explained(m_elems') /\ Cores(m_elems) \subseteq Cores(m_elems')
        /\ CallsWithin(frames', Cores(m_elems') \X Terminal)
    BY <2>1, <2>2, <2>5, <2>6, AddElementExplained DEF KernelInv
  <2>. QED
    BY <2>0, <2>7 DEF KernelInv, Explained
<1>3. CASE NextRule
  <2> DEFINE f == [top EXCEPT !.rules = @ \ {Least(@)}, !.left = GetLookaheads(top)]
  <2>1. frames' = [frames EXCEPT ![Len(frames)] = f] /\ UNCHANGED <<kernel, todo, m_elems>>
    BY <1>3 DEF NextRule, top
  <2>2. top \in Frame /\ Len(frames) \in DOMAIN frames
    BY <1>3, TopGood DEF NextRule
  <2>3. f.elem = top.elem
    <3> HIDE DEF top
    <3>. QED
      BY <2>2 DEF Frame
  <2>4. CallsWithin(frames', Cores(m_elems) \X Terminal)
    BY <2>1, <2>2, <2>3 DEF CallsWithin, KernelInv, top
  <2>. QED
    BY <2>1, <2>4 DEF KernelInv, Explained
<1>4. CASE Return
  <2> DEFINE I == Cores(m_elems) \X Terminal
  <2>0. CallsWithin(frames, I)
    BY DEF KernelInv
  <2> HIDE DEF I
  <2>1. CallsWithin(SubSeq(frames, 1, Len(frames) - 1), I)
    BY <1>4, <2>0 DEF Return, CInv, GoodCalls, CallsWithin
  <2> USE DEF I
  <2>. QED
    BY <1>4, <2>1 DEF Return, KernelInv, Explained
<1>5. CASE ClosureDone \/ UNCHANGED cvars
  BY <1>5 DEF ClosureDone, cvars, KernelInv, Explained
<1>. QED
  BY <1>1, <1>2, <1>3, <1>4, <1>5 DEF ClosureNext

\* When AddElement has returned, the closure has the cores of its kernel, and
\* every other core and every look-ahead that is not the kernel's belongs to the
\* beginning of a rule that is called for: for every order of the look-aheads,
\* and also if a set rehashes while it is iterated.
THEOREM ClosureOfItsKernel == ClosureSpec => []KernelClosure
<1>1. ClosureInit => KernelInv
  BY DEF ClosureInit, KernelInv, Explained, CallsWithin
<1>2. CInv /\ KernelInv /\ [ClosureNext]_cvars => KernelInv'
  BY StepKernel
<1>3. KernelInv => KernelClosure
  <2> SUFFICES ASSUME KernelInv, Finished
               PROVE  /\ Cores(kernel) \subseteq Cores(m_elems)
                      /\ \A core \in Cores(m_elems) \ Cores(kernel) : OpensRule(Cores(m_elems), core)
                      /\ \A x \in Items(m_elems) \ Items(kernel) : OpensRule(Cores(m_elems), x[1])
    BY DEF KernelClosure, ClosureOfKernel
  <2>1. Cores(kernel) \subseteq Cores(m_elems)
    BY DEF KernelInv, Finished, Cores
  <2>2. \A core \in Cores(m_elems) \ Cores(kernel) : OpensRule(Cores(m_elems), core)
    BY DEF KernelInv, Explained, Cores
  <2>3. ASSUME NEW i \in DOMAIN m_elems, NEW la \in m_elems[i].las
        PROVE  OpensRule(Cores(m_elems), m_elems[i].core) \/ <<m_elems[i].core, la>> \in Items(kernel)
    BY DEF KernelInv, Explained
  <2>4. \A x \in Items(m_elems) :
            \E i \in DOMAIN m_elems : \E la \in m_elems[i].las : x = <<m_elems[i].core, la>>
    BY DEF Items
  <2>5. \A x \in Items(m_elems) \ Items(kernel) : OpensRule(Cores(m_elems), x[1])
    BY <2>3, <2>4
  <2>. QED
    BY <2>1, <2>2, <2>5
<1>. QED
  BY <1>1, <1>2, <1>3, AlwaysCInv, PTL DEF ClosureSpec
=============================================================================
