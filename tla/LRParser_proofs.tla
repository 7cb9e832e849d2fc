--------------------------- MODULE LRParser_proofs ---------------------------
(* Proofs about module LRParser, for every grammar, every tables that belong *)
(* to an automaton of it and every input.                                    *)
EXTENDS LRParser, TLAPS

Symbol == Terminal \cup NonTerminal

(***************************************************************************)
(* The two stacks ss and ns walk the automaton, and what the items of a     *)
(* state say of the way to it is true of the stack: an item with cursor d   *)
(* has been carried on from cursor 0 over exactly the first d symbols of    *)
(* its rule.                                                               *)
(***************************************************************************)
PathOK(ss, ns) ==
    /\ Len(ss) = Len(ns) + 1
    /\ ss[1] = 0
    /\ \A i \in 1 .. Len(ns) : Goto(ss[i], ns[i].sym) = ss[i + 1] /\ ss[i + 1] # 0

ItemsOK(ss, ns) ==
    \A i \in 1 .. Len(ss), r \in RuleNr, d \in Nat :
        <<r, d>> \in Items[ss[i]] =>
            /\ d < i
            /\ \A k \in 0 .. d : <<r, d - k>> \in Items[ss[i - k]]
            /\ \A k \in 1 .. d : ns[i - k].sym = Rhs(r)[d + 1 - k]

StackOK(ss, ns) == PathOK(ss, ns) /\ ItemsOK(ss, ns)

(***************************************************************************)
(* The nodes cover what has been read.  The first conjunct follows from the *)
(* others by an induction along the stack; stating it for every pair keeps  *)
(* that induction in the steps of the parser.                              *)
(***************************************************************************)
SpansOK(ns, read) ==
    /\ \A i, j \in 1 .. Len(ns) : i <= j => ns[i].from <= ns[j].to
    /\ \A i \in 1 .. Len(ns) - 1 : ns[i].to = ns[i + 1].from
    /\ Len(ns) > 0 => ns[1].from = 1 /\ ns[Len(ns)].to = read
    /\ Len(ns) = 0 => read = 1

Read == IF result = "underflow" THEN inputidx + 1 ELSE inputidx

\* The inductive invariant.
IInv ==
    /\ ParserTypeOK
    /\ StackOK(states, symbols)
    /\ SpansOK(symbols, Read)
    /\ NeverUndefined
    /\ result = "accept" => <<0, 1>> \in Items[topstate] /\ curtok = END

-----------------------------------------------------------------------------
LEMMA GotoType ==
    ASSUME NEW s \in State, NEW X \in Symbol, Goto(s, X) # ERROR_VAL
    PROVE  Goto(s, X) \in State
BY SymbolsAssumption, TablesTypeAssumption DEF Goto, Symbol

\* Pushing a transition of the automaton keeps the stacks in order.
LEMMA PushOK ==
    ASSUME NEW ss \in Seq(State), NEW ns \in Seq(Node), StackOK(ss, ns),
           NEW node \in Node, NEW t \in State,
           Goto(ss[Len(ss)], node.sym) = t, t # ERROR_VAL
    PROVE  StackOK(Append(ss, t), Append(ns, node))
<1> DEFINE ss2 == Append(ss, t)
           ns2 == Append(ns, node)
<1>1. /\ Len(ss) \in Nat /\ Len(ns) \in Nat /\ Len(ss) = Len(ns) + 1
      /\ Len(ss2) = Len(ss) + 1 /\ Len(ns2) = Len(ns) + 1
      /\ \A i \in 1 .. Len(ss) : ss2[i] = ss[i] /\ ss[i] \in State
      /\ \A i \in 1 .. Len(ns) : ns2[i] = ns[i]
      /\ ss2[Len(ss2)] = t /\ ns2[Len(ns2)] = node
  BY DEF StackOK, PathOK
<1>2. node.sym \in Terminal \cup NonTerminal /\ ss[Len(ss)] \in State
  BY <1>1 DEF Node
<1>3. /\ t # 0
      /\ \A r \in RuleNr, d \in Nat : <<r, d>> \in Items[t] /\ d > 0 =>
             <<r, d - 1>> \in Items[ss[Len(ss)]] /\ Rhs(r)[d] = node.sym
  <2>1. /\ t # 0
        /\ \A item \in Items[t] : item[2] > 0 =>
               /\ <<item[1], item[2] - 1>> \in Items[ss[Len(ss)]]
               /\ Rhs(item[1])[item[2]] = node.sym
    BY <1>2, TablesAssumption
  <2>2. ASSUME NEW r \in RuleNr, NEW d \in Nat, <<r, d>> \in Items[t], d > 0
        PROVE  <<r, d - 1>> \in Items[ss[Len(ss)]] /\ Rhs(r)[d] = node.sym
    <3>1. <<r, d>>[1] = r /\ <<r, d>>[2] = d
      OBVIOUS
    <3> QED BY <2>1, <2>2, <3>1
  <2> QED BY <2>1, <2>2
<1>4. PathOK(ss2, ns2)
  BY <1>1, <1>3 DEF StackOK, PathOK
<1>5. ItemsOK(ss2, ns2)
  <2> SUFFICES ASSUME NEW i \in 1 .. Len(ss2), NEW r \in RuleNr, NEW d \in Nat,
                      <<r, d>> \in Items[ss2[i]]
               PROVE  /\ d < i
                      /\ \A k \in 0 .. d : <<r, d - k>> \in Items[ss2[i - k]]
                      /\ \A k \in 1 .. d : ns2[i - k].sym = Rhs(r)[d + 1 - k]
    BY DEF ItemsOK
  <2>1. CASE i \in 1 .. Len(ss)
    <3>1. /\ d < i
          /\ \A k \in 0 .. d : <<r, d - k>> \in Items[ss[i - k]]
          /\ \A k \in 1 .. d : ns[i - k].sym = Rhs(r)[d + 1 - k]
      BY <1>1, <2>1 DEF StackOK, ItemsOK
    <3>2. ASSUME NEW k \in 0 .. d PROVE ss2[i - k] = ss[i - k]
      BY <1>1, <2>1, <3>1
    <3>3. ASSUME NEW k \in 1 .. d PROVE ns2[i - k] = ns[i - k]
      BY <1>1, <2>1, <3>1
    <3> QED BY <3>1, <3>2, <3>3
  <2>2. CASE i = Len(ss) + 1 /\ d = 0
    BY <1>1, <2>2
  <2>3. CASE i = Len(ss) + 1 /\ d > 0
    <3> PICK e \in Nat : d = e + 1
      BY <2>3
    <3>1. <<r, d>> \in Items[t] /\ d - 1 = e
      BY <1>1, <2>3
    <3>2. <<r, e>> \in Items[ss[Len(ss)]] /\ Rhs(r)[d] = node.sym
      BY <1>3, <2>3, <3>1
    <3>3. /\ e < Len(ss)
          /\ \A k \in 0 .. e : <<r, e - k>> \in Items[ss[Len(ss) - k]]
          /\ \A k \in 1 .. e : ns[Len(ss) - k].sym = Rhs(r)[e + 1 - k]
      <4>1. Len(ss) \in 1 .. Len(ss)
        BY <1>1
      <4> HIDE DEF ss2, ns2
      <4> QED BY <4>1, <3>2 DEF StackOK, ItemsOK
    <3>4. d < i
      BY <1>1, <2>3, <3>3
    <3>5. ASSUME NEW k \in 0 .. d
          PROVE  <<r, d - k>> \in Items[ss2[i - k]]
      <4>1. CASE k = 0
        <5>1. i - k = i /\ d - k = d
          BY <1>1, <2>3, <4>1
        <5> QED BY <5>1
      <4>2. CASE k # 0
        <5>1. k - 1 \in 0 .. e /\ e - (k - 1) = d - k
          BY <4>2
        <5>2. <<r, d - k>> \in Items[ss[Len(ss) - (k - 1)]]
          BY <3>3, <5>1
        <5>3. Len(ss) - (k - 1) = i - k /\ i - k \in 1 .. Len(ss)
          BY <1>1, <2>3, <3>3, <4>2
        <5> QED BY <1>1, <5>2, <5>3
      <4> QED BY <4>1, <4>2
    <3>6. ASSUME NEW k \in 1 .. d
          PROVE  ns2[i - k].sym = Rhs(r)[d + 1 - k]
      <4>1. CASE k = 1
        <5>1. i - k = Len(ns2) /\ d + 1 - k = d
          BY <1>1, <2>3, <4>1
        <5>2. ns2[i - k].sym = node.sym
          BY <1>1, <5>1
        <5>3. Rhs(r)[d + 1 - k] = Rhs(r)[d]
          BY <5>1
        <5> QED BY <3>2, <5>2, <5>3
      <4>2. CASE k # 1
        <5>1. k - 1 \in 1 .. e /\ e + 1 - (k - 1) = d + 1 - k
          BY <4>2
        <5>2. ns[Len(ss) - (k - 1)].sym = Rhs(r)[d + 1 - k]
          BY <3>3, <5>1
        <5>3. Len(ss) - (k - 1) = i - k /\ i - k \in 1 .. Len(ns)
          BY <1>1, <2>3, <3>3, <4>2
        <5> QED BY <1>1, <5>2, <5>3
      <4> QED BY <4>1, <4>2
    <3> QED BY <3>4, <3>5, <3>6
  <2>4. i \in 1 .. Len(ss) \/ (i = Len(ss) + 1 /\ (d = 0 \/ d > 0))
    BY <1>1
  <2> HIDE DEF ss2, ns2
  <2> QED BY <2>1, <2>2, <2>3, <2>4
<1> QED BY <1>4, <1>5 DEF StackOK

\* Popping states and nodes in step keeps the stacks in order.
LEMMA PopOK ==
    ASSUME NEW ss \in Seq(State), NEW ns \in Seq(Node), StackOK(ss, ns),
           NEW n \in 0 .. Len(ns)
    PROVE  /\ SubSeq(ss, 1, Len(ss) - n) \in Seq(State)
           /\ SubSeq(ns, 1, Len(ns) - n) \in Seq(Node)
           /\ StackOK(SubSeq(ss, 1, Len(ss) - n), SubSeq(ns, 1, Len(ns) - n))
<1> DEFINE ss2 == SubSeq(ss, 1, Len(ss) - n)
           ns2 == SubSeq(ns, 1, Len(ns) - n)
<1>1. /\ Len(ss) \in Nat /\ Len(ns) \in Nat /\ Len(ss) = Len(ns) + 1
      /\ ss2 \in Seq(State) /\ ns2 \in Seq(Node)
      /\ Len(ss2) = Len(ss) - n /\ Len(ns2) = Len(ns) - n
      /\ \A i \in 1 .. Len(ss2) : ss2[i] = ss[i]
      /\ \A i \in 1 .. Len(ns2) : ns2[i] = ns[i]
  BY DEF StackOK, PathOK
<1> HIDE DEF ss2, ns2
<1>2. PathOK(ss2, ns2)
  <2>1. 1 \in 1 .. Len(ss2) /\ ss2[1] = ss[1]
    BY <1>1
  <2>2. ASSUME NEW i \in 1 .. Len(ns2)
        PROVE  Goto(ss2[i], ns2[i].sym) = ss2[i + 1] /\ ss2[i + 1] # 0
    <3>1. i \in 1 .. Len(ns) /\ i \in 1 .. Len(ss2) /\ i + 1 \in 1 .. Len(ss2)
      BY <1>1
    <3>2. ss2[i] = ss[i] /\ ss2[i + 1] = ss[i + 1] /\ ns2[i] = ns[i]
      BY <1>1, <3>1
    <3> QED BY <3>1, <3>2 DEF StackOK, PathOK
  <2> QED BY <1>1, <2>1, <2>2 DEF StackOK, PathOK
<1>3. ItemsOK(ss2, ns2)
  <2> SUFFICES ASSUME NEW i \in 1 .. Len(ss2), NEW r \in RuleNr, NEW d \in Nat,
                      <<r, d>> \in Items[ss2[i]]
               PROVE  /\ d < i
                      /\ \A k \in 0 .. d : <<r, d - k>> \in Items[ss2[i - k]]
                      /\ \A k \in 1 .. d : ns2[i - k].sym = Rhs(r)[d + 1 - k]
    BY DEF ItemsOK
  <2>1. i \in 1 .. Len(ss) /\ ss2[i] = ss[i]
    BY <1>1
  <2>2. /\ d < i
        /\ \A k \in 0 .. d : <<r, d - k>> \in Items[ss[i - k]]
        /\ \A k \in 1 .. d : ns[i - k].sym = Rhs(r)[d + 1 - k]
    BY <2>1 DEF StackOK, ItemsOK
  <2>3. ASSUME NEW k \in 0 .. d PROVE ss2[i - k] = ss[i - k]
    <3>1. i - k \in 1 .. Len(ss2)
      BY <1>1, <2>2
    <3> QED BY <1>1, <3>1
  <2>4. ASSUME NEW k \in 1 .. d PROVE ns2[i - k] = ns[i - k]
    <3>1. i - k \in 1 .. Len(ns2)
      BY <1>1, <2>2
    <3> QED BY <1>1, <3>1
  <2> QED BY <2>2, <2>3, <2>4
<1> QED BY <1>1, <1>2, <1>3 DEF StackOK, ss2, ns2

\* A finished item of the top state: its right-hand side is on the stack, and
\* the state below it contains the item's beginning.
LEMMA HandleOnStack ==
    ASSUME NEW ss \in Seq(State), NEW ns \in Seq(Node), StackOK(ss, ns),
           NEW r \in RuleNr, NEW n \in Nat, <<r, n>> \in Items[ss[Len(ss)]]
    PROVE  /\ n <= Len(ns)
           /\ <<r, 0>> \in Items[ss[Len(ss) - n]]
           /\ \A j \in 1 .. n : ns[Len(ns) - n + j].sym = Rhs(r)[j]
<1>1. Len(ns) \in Nat /\ Len(ss) = Len(ns) + 1 /\ Len(ss) \in 1 .. Len(ss)
  BY DEF StackOK, PathOK
<1>2. /\ n < Len(ss)
      /\ \A k \in 0 .. n : <<r, n - k>> \in Items[ss[Len(ss) - k]]
      /\ \A k \in 1 .. n : ns[Len(ss) - k].sym = Rhs(r)[n + 1 - k]
  BY <1>1 DEF StackOK, ItemsOK
<1>3. n \in 0 .. n /\ n - n = 0
  OBVIOUS
<1>4. <<r, 0>> \in Items[ss[Len(ss) - n]]
  BY <1>2, <1>3
<1>5. ASSUME NEW j \in 1 .. n PROVE ns[Len(ns) - n + j].sym = Rhs(r)[j]
  <2>1. /\ n + 1 - j \in 1 .. n
        /\ Len(ss) - (n + 1 - j) = Len(ns) - n + j
        /\ n + 1 - (n + 1 - j) = j
    BY <1>1
  <2>2. ns[Len(ss) - (n + 1 - j)].sym = Rhs(r)[n + 1 - (n + 1 - j)]
    BY <1>2, <2>1
  <2> QED BY <2>1, <2>2
<1> QED BY <1>1, <1>2, <1>4, <1>5

\* A new node that begins where the stack ends.
LEMMA SpansPush ==
    ASSUME NEW ns \in Seq(Node), NEW read \in Nat, SpansOK(ns, read),
           NEW node \in Node, node.from = read, node.from <= node.to
    PROVE  SpansOK(Append(ns, node), node.to)
<1> DEFINE ns2 == Append(ns, node)
<1>1. /\ Len(ns) \in Nat /\ Len(ns2) = Len(ns) + 1 /\ ns2[Len(ns) + 1] = node
      /\ \A i \in 1 .. Len(ns) : ns2[i] = ns[i] /\ ns[i].from \in Nat /\ ns[i].to \in Nat
      /\ node.from \in Nat /\ node.to \in Nat
  <2>1. \A i \in 1 .. Len(ns) : ns[i] \in Node
    OBVIOUS
  <2>2. \A i \in 1 .. Len(ns) : ns[i].from \in Nat /\ ns[i].to \in Nat
    BY <2>1 DEF Node
  <2>3. node.from \in Nat /\ node.to \in Nat
    BY DEF Node
  <2> QED BY <2>2, <2>3
<1> HIDE DEF ns2
<1>2. ASSUME NEW i \in 1 .. Len(ns2), NEW j \in 1 .. Len(ns2), i <= j
      PROVE  ns2[i].from <= ns2[j].to
  <2>1. CASE j \in 1 .. Len(ns)
    BY <1>1, <1>2, <2>1 DEF SpansOK
  <2>2. CASE j = Len(ns) + 1 /\ i \in 1 .. Len(ns)
    <3>1. ns[i].from <= ns[Len(ns)].to /\ ns[Len(ns)].to = read
      BY <1>1, <2>2 DEF SpansOK
    <3> QED BY <1>1, <2>2, <3>1
  <2>3. CASE j = Len(ns) + 1 /\ i = j
    BY <1>1, <2>3
  <2> QED BY <1>1, <1>2, <2>1, <2>2, <2>3
<1>3. ASSUME NEW i \in 1 .. Len(ns2) - 1 PROVE ns2[i].to = ns2[i + 1].from
  <2>1. CASE i \in 1 .. Len(ns) - 1
    BY <1>1, <2>1 DEF SpansOK
  <2>2. CASE i = Len(ns)
    BY <1>1, <1>3, <2>2 DEF SpansOK
  <2> QED BY <1>1, <2>1, <2>2
<1>4. ns2[1].from = 1 /\ ns2[Len(ns2)].to = node.to
  <2>1. CASE Len(ns) = 0
    BY <1>1, <2>1 DEF SpansOK
  <2>2. CASE Len(ns) > 0
    BY <1>1, <2>2 DEF SpansOK
  <2> QED BY <1>1, <2>1, <2>2
<1> QED BY <1>1, <1>2, <1>3, <1>4 DEF SpansOK, ns2

\* Where the stack ends after n nodes have been popped.
BeginOf(ns, n, read) == IF n = 0 THEN read ELSE ns[Len(ns) - n + 1].from

LEMMA SpansPop ==
    ASSUME NEW ns \in Seq(Node), NEW read \in Nat, SpansOK(ns, read),
           NEW n \in 0 .. Len(ns)
    PROVE  /\ BeginOf(ns, n, read) \in Nat
           /\ BeginOf(ns, n, read) <= read
           /\ SpansOK(SubSeq(ns, 1, Len(ns) - n), BeginOf(ns, n, read))
<1> DEFINE ns2 == SubSeq(ns, 1, Len(ns) - n)
<1>1. /\ Len(ns) \in Nat /\ Len(ns2) = Len(ns) - n
      /\ \A i \in 1 .. Len(ns2) : ns2[i] = ns[i]
      /\ \A i \in 1 .. Len(ns) : ns[i].from \in Nat /\ ns[i].to \in Nat
  <2>1. \A i \in 1 .. Len(ns) : ns[i] \in Node
    OBVIOUS
  <2>2. \A i \in 1 .. Len(ns) : ns[i].from \in Nat /\ ns[i].to \in Nat
    BY <2>1 DEF Node
  <2> QED BY <2>2
<1> HIDE DEF ns2
<1>2. CASE n = 0
  BY <1>1, <1>2 DEF SpansOK, BeginOf, ns2
<1>3. CASE n > 0
  <2>1. BeginOf(ns, n, read) = ns[Len(ns2) + 1].from
    BY <1>1, <1>3 DEF BeginOf
  <2>2. Len(ns2) + 1 \in 1 .. Len(ns)
    BY <1>1, <1>3
  <2>3. ns[Len(ns2) + 1].from <= ns[Len(ns)].to /\ ns[Len(ns)].to = read
    BY <1>1, <2>2 DEF SpansOK
  <2>4. SpansOK(ns2, ns[Len(ns2) + 1].from)
    <3>1. Len(ns2) = 0 => ns[Len(ns2) + 1].from = 1
      <4>1. Len(ns) > 0 /\ ns[1].from = 1
        BY <1>1, <2>2 DEF SpansOK
      <4> QED BY <4>1
    <3>2. Len(ns2) > 0 => ns2[1].from = 1 /\ ns2[Len(ns2)].to = ns[Len(ns2) + 1].from
      <4> SUFFICES ASSUME Len(ns2) > 0
                   PROVE  ns2[1].from = 1 /\ ns2[Len(ns2)].to = ns[Len(ns2) + 1].from
        OBVIOUS
      <4>1. /\ Len(ns) > 0 /\ 1 \in 1 .. Len(ns2) /\ Len(ns2) \in 1 .. Len(ns2)
            /\ Len(ns2) \in 1 .. Len(ns) - 1
        BY <1>1, <2>2
      <4>2. ns[1].from = 1 /\ ns[Len(ns2)].to = ns[Len(ns2) + 1].from
        BY <4>1 DEF SpansOK
      <4> QED BY <1>1, <4>1, <4>2
    <3>3. ASSUME NEW i \in 1 .. Len(ns2), NEW j \in 1 .. Len(ns2), i <= j
          PROVE  ns2[i].from <= ns2[j].to
      <4>1. i \in 1 .. Len(ns) /\ j \in 1 .. Len(ns) /\ ns2[i] = ns[i] /\ ns2[j] = ns[j]
        BY <1>1, <2>2
      <4>2. ns[i].from <= ns[j].to
        BY <3>3, <4>1 DEF SpansOK
      <4> QED BY <4>1, <4>2
    <3>4. ASSUME NEW i \in 1 .. Len(ns2) - 1 PROVE ns2[i].to = ns2[i + 1].from
      <4>1. i \in 1 .. Len(ns) - 1 /\ i \in 1 .. Len(ns2) /\ i + 1 \in 1 .. Len(ns2)
        BY <1>1, <2>2
      <4>2. ns[i].to = ns[i + 1].from
        BY <4>1 DEF SpansOK
      <4> QED BY <1>1, <4>1, <4>2
    <3> QED BY <3>1, <3>2, <3>3, <3>4 DEF SpansOK
  <2> QED BY <1>1, <2>1, <2>2, <2>3, <2>4 DEF ns2
<1> QED BY <1>2, <1>3

-----------------------------------------------------------------------------
(* The invariant *)

\* What the tables can hold for the current state and token.
LEMMA Lookup ==
    ASSUME ParserTypeOK, StackOK(states, symbols)
    PROVE  /\ curtok \in Terminal /\ topstate \in State
           /\ Len(states) \in Nat /\ Len(symbols) \in Nat
           /\ Len(states) = Len(symbols) + 1
           /\ inputidx \in Nat /\ Len(input) \in Nat /\ input \in Seq(Terminal)
           /\ newstate \in State \cup {ERROR_VAL}
           /\ newrule \in RuleNr \cup {ERROR_VAL, ACCEPT_VAL}
<1>1. input \in Seq(Terminal) /\ Len(input) \in Nat /\ inputidx \in 1 .. Len(input)
  BY InputsAssumption DEF ParserTypeOK
<1>2. curtok \in Terminal
  BY <1>1 DEF curtok
<1>3. /\ Len(states) \in Nat /\ Len(symbols) \in Nat
      /\ Len(states) = Len(symbols) + 1
  BY DEF ParserTypeOK, StackOK, PathOK
<1>4. topstate \in State
  BY <1>3 DEF ParserTypeOK, topstate
<1> QED BY <1>1, <1>2, <1>3, <1>4, TablesTypeAssumption DEF newstate, newrule

LEMMA InitInv == ParserInit => IInv
<1> SUFFICES ASSUME ParserInit PROVE IInv
  OBVIOUS
<1>1. input \in Seq(Terminal) /\ input # <<>>
  BY InputsAssumption DEF ParserInit
<1>2. ParserTypeOK
  BY <1>1, SymbolsAssumption DEF ParserInit, ParserTypeOK
<1>3. Len(states) = 1 /\ states[1] = 0 /\ Len(symbols) = 0 /\ result = "none" /\ inputidx = 1
  BY DEF ParserInit
<1>4. PathOK(states, symbols)
  BY <1>3 DEF PathOK
<1>5. ItemsOK(states, symbols)
  <2>1. ASSUME NEW r \in RuleNr, NEW d \in Nat, <<r, d>> \in Items[0] PROVE d = 0
    <3>1. <<r, d>>[2] = d
      OBVIOUS
    <3> QED BY <2>1, <3>1, TablesAssumption
  <2> SUFFICES ASSUME NEW i \in 1 .. Len(states), NEW r \in RuleNr, NEW d \in Nat,
                      <<r, d>> \in Items[states[i]]
               PROVE  /\ d < i
                      /\ \A k \in 0 .. d : <<r, d - k>> \in Items[states[i - k]]
                      /\ \A k \in 1 .. d : symbols[i - k].sym = Rhs(r)[d + 1 - k]
    BY DEF ItemsOK
  <2>2. i = 1 /\ states[i] = 0 /\ d = 0
    BY <1>3, <2>1
  <2> QED BY <2>2
<1>6. SpansOK(symbols, Read)
  BY <1>3 DEF SpansOK, Read
<1> QED BY <1>2, <1>3, <1>4, <1>5, <1>6 DEF IInv, StackOK, NeverUndefined

LEMMA ThrowInv == IInv /\ Throw => IInv'
<1> SUFFICES ASSUME IInv, Throw PROVE IInv'
  OBVIOUS
<1>1. newstate = ERROR_VAL /\ result' = "error"
  BY Lookup, TablesAssumption DEF IInv, Throw, newstate, newrule
<1>2. UNCHANGED <<input, inputidx, states, symbols>> /\ result = "none"
  BY DEF Throw
<1>3. ParserTypeOK' /\ NeverUndefined'
  BY <1>1, <1>2 DEF IInv, ParserTypeOK, NeverUndefined
<1>4. Read' = Read
  BY <1>1, <1>2 DEF Read
<1>5. StackOK(states', symbols') /\ SpansOK(symbols', Read')
  BY <1>2, <1>4 DEF IInv
<1> QED BY <1>1, <1>3, <1>5 DEF IInv

LEMMA AcceptInv == IInv /\ Accept => IInv'
<1> SUFFICES ASSUME IInv, Accept PROVE IInv'
  OBVIOUS
<1>1. <<0, 1>> \in Items[topstate] /\ curtok = END
  BY Lookup, TablesAssumption DEF IInv, Accept, newrule
<1>2. /\ UNCHANGED <<input, inputidx, states, symbols>>
      /\ result = "none" /\ result' = "accept"
  BY DEF Accept
<1>3. ParserTypeOK' /\ NeverUndefined'
  BY <1>1, <1>2 DEF IInv, ParserTypeOK, NeverUndefined
<1>4. Read' = Read
  BY <1>1, <1>2 DEF Read
<1>5. StackOK(states', symbols') /\ SpansOK(symbols', Read')
  BY <1>2, <1>4 DEF IInv
<1>6. (<<0, 1>> \in Items[topstate] /\ curtok = END)'
  BY <1>1, <1>2 DEF topstate, curtok
<1> QED BY <1>3, <1>5, <1>6 DEF IInv

LEMMA ShiftInv == IInv /\ Shift => IInv'
<1> SUFFICES ASSUME IInv, Shift PROVE IInv'
  OBVIOUS
<1> DEFINE node == [sym |-> curtok, rule |-> NoRule, from |-> inputidx, to |-> inputidx + 1]
<1>1. /\ result = "none" /\ UNCHANGED input
      /\ newstate # ERROR_VAL
      /\ states' = Append(states, newstate)
      /\ symbols' = Append(symbols, node)
      /\ \/ inputidx = Len(input) /\ result' = "underflow" /\ inputidx' = inputidx
         \/ inputidx # Len(input) /\ result' = "none" /\ inputidx' = inputidx + 1
  BY DEF Shift
<1>2. /\ curtok \in Terminal /\ topstate \in State /\ newstate \in State
      /\ inputidx \in Nat /\ inputidx \in 1 .. Len(input)
      /\ input \in Inputs /\ Len(input) \in Nat
      /\ states \in Seq(State) /\ symbols \in Seq(Node)
  BY <1>1, Lookup DEF IInv, ParserTypeOK
<1>3. node \in Node
  BY <1>2 DEF Node
<1> HIDE DEF node
<1>4. ParserTypeOK'
  BY <1>1, <1>2, <1>3 DEF ParserTypeOK
<1>5. StackOK(states', symbols')
  <2>1. node.sym = curtok
    BY DEF node
  <2>2. Goto(states[Len(states)], node.sym) = newstate
    BY <1>2, <2>1 DEF Goto, newstate, topstate
  <2>3. StackOK(Append(states, newstate), Append(symbols, node))
    BY <1>1, <1>2, <1>3, <2>2, PushOK DEF IInv
  <2> QED BY <1>1, <2>3
<1>6. SpansOK(symbols', Read')
  <2>1. node.from = inputidx /\ node.to = inputidx + 1 /\ node.from <= node.to
    BY <1>2 DEF node
  <2>2. SpansOK(symbols, inputidx)
    BY <1>1 DEF IInv, Read
  <2>3. SpansOK(Append(symbols, node), inputidx + 1)
    BY <1>2, <1>3, <2>1, <2>2, SpansPush
  <2>4. Read' = inputidx + 1
    BY <1>1 DEF Read
  <2> QED BY <1>1, <2>3, <2>4
<1>7. NeverUndefined' /\ result' # "accept"
  BY <1>1 DEF NeverUndefined
<1> QED BY <1>4, <1>5, <1>6, <1>7 DEF IInv

\* The node a reduction makes: it stands for what its arguments stood for.
LEMMA ReducedNode ==
    ASSUME ParserTypeOK, SpansOK(symbols, inputidx), inputidx \in Nat,
           NEW r \in RuleNr, NEW n \in Nat, n <= Len(symbols)
    PROVE  /\ Reduced(r, Args(n)) \in Node
           /\ Reduced(r, Args(n)).sym = Rules[r].lhs
           /\ Reduced(r, Args(n)).from = BeginOf(symbols, n, inputidx)
           /\ Reduced(r, Args(n)).to = inputidx
<1>1. symbols \in Seq(Node) /\ Len(symbols) \in Nat
  BY DEF ParserTypeOK
<1>2. Rules[r].lhs \in NonTerminal
  BY SymbolsAssumption
<1>3. CASE n = 0
  <2>1. Args(n) = <<>>
    BY <1>3 DEF Args
  <2> QED BY <1>2, <1>3, <2>1 DEF Reduced, BeginOf, Node
<1>4. CASE n > 0
  <2>1. /\ Args(n) \in Seq(Node) /\ Len(Args(n)) = n
        /\ Args(n)[1] = symbols[Len(symbols) - n + 1]
        /\ Args(n)[n] = symbols[Len(symbols)]
    BY <1>1, <1>4 DEF Args
  <2>2. Args(n) # <<>>
    BY <1>4, <2>1
  <2>3. symbols[Len(symbols)].to = inputidx
    BY <1>1, <1>4 DEF SpansOK
  <2>4. symbols[Len(symbols) - n + 1] \in Node
    BY <1>1, <1>4
  <2>5. symbols[Len(symbols) - n + 1].from \in Nat
    BY <2>4 DEF Node
  <2> QED BY <1>2, <1>4, <2>1, <2>2, <2>3, <2>5 DEF Reduced, BeginOf, Node
<1> QED BY <1>3, <1>4

\* What a reduction by newrule pops, makes and pushes.
NumArgs == m_numRhsSymsPerRule[newrule]
NewNode == Reduced(newrule, Args(NumArgs))
NewJump == m_tabJump[states[Len(states) - NumArgs]][NewNode.sym]

\* A reduction finds its arguments and the jump, and what it pushes.
LEMMA ReduceStep ==
    ASSUME IInv, Reduce
    PROVE  /\ newrule \in RuleNr /\ NumArgs = Len(Rhs(newrule)) /\ NumArgs \in 0 .. Len(symbols)
           /\ \A j \in 1 .. NumArgs : symbols[Len(symbols) - NumArgs + j].sym = Rhs(newrule)[j]
           /\ NewNode \in Node /\ NewNode.sym = Rules[newrule].lhs
           /\ NewNode.from = BeginOf(symbols, NumArgs, inputidx) /\ NewNode.to = inputidx
           /\ NewJump \in State /\ NewJump # ERROR_VAL
           /\ symbols' = Append(SubSeq(symbols, 1, Len(symbols) - NumArgs), NewNode)
           /\ states' = Append(SubSeq(states, 1, Len(states) - NumArgs), NewJump)
           /\ result = "none" /\ result' = "none"
           /\ UNCHANGED <<input, inputidx>>
<1>1. result = "none" /\ newrule \in RuleNr /\ UNCHANGED <<input, inputidx>>
  BY DEF Reduce
<1>2. /\ topstate \in State /\ curtok \in Terminal /\ inputidx \in Nat
      /\ Len(states) \in Nat /\ Len(symbols) \in Nat /\ Len(states) = Len(symbols) + 1
      /\ states \in Seq(State) /\ symbols \in Seq(Node)
  BY Lookup DEF IInv, ParserTypeOK
<1>3. NumArgs = Len(Rhs(newrule)) /\ NumArgs \in Nat
  BY <1>1, SymbolsAssumption, TablesTypeAssumption DEF Rhs, NumArgs
<1>4. newrule # 0 /\ <<newrule, NumArgs>> \in Items[states[Len(states)]]
  BY <1>1, <1>2, <1>3, TablesAssumption DEF newrule, topstate
<1>5. /\ NumArgs <= Len(symbols)
      /\ <<newrule, 0>> \in Items[states[Len(states) - NumArgs]]
      /\ \A j \in 1 .. NumArgs : symbols[Len(symbols) - NumArgs + j].sym = Rhs(newrule)[j]
  BY <1>1, <1>2, <1>3, <1>4, HandleOnStack DEF IInv
<1>6. /\ NewNode \in Node /\ NewNode.sym = Rules[newrule].lhs
      /\ NewNode.from = BeginOf(symbols, NumArgs, inputidx) /\ NewNode.to = inputidx
  BY <1>1, <1>2, <1>3, <1>5, ReducedNode DEF IInv, Read, NewNode
<1>7. NewJump \in State /\ NewJump # ERROR_VAL
  <2>1. states[Len(states) - NumArgs] \in State
    BY <1>2, <1>3, <1>5
  <2>2. Rules[newrule].lhs \in NonTerminal
    BY <1>1, SymbolsAssumption
  <2> QED BY <1>1, <1>4, <1>5, <1>6, <2>1, <2>2, TablesAssumption, TablesTypeAssumption
          DEF NewJump
<1>8. /\ symbols' = Append(SubSeq(symbols, 1, Len(symbols) - NumArgs), NewNode)
      /\ states' = Append(SubSeq(states, 1, Len(states) - NumArgs), NewJump)
      /\ result' = result
  BY <1>2, <1>3, <1>5, <1>7 DEF Reduce, JumpFrom, NumArgs, NewNode, NewJump
<1>9. NumArgs \in 0 .. Len(symbols) /\ result' = "none"
  BY <1>1, <1>2, <1>3, <1>5, <1>8
<1> QED BY <1>1, <1>3, <1>5, <1>6, <1>7, <1>8, <1>9

LEMMA ReduceInv == IInv /\ Reduce => IInv'
<1> SUFFICES ASSUME IInv, Reduce PROVE IInv'
  OBVIOUS
<1> DEFINE ss == SubSeq(states, 1, Len(states) - NumArgs)
           ns == SubSeq(symbols, 1, Len(symbols) - NumArgs)
<1>1. /\ newrule \in RuleNr /\ NumArgs \in 0 .. Len(symbols)
      /\ NewNode \in Node /\ NewNode.sym = Rules[newrule].lhs
      /\ NewNode.from = BeginOf(symbols, NumArgs, inputidx) /\ NewNode.to = inputidx
      /\ NewJump \in State /\ NewJump # ERROR_VAL
      /\ symbols' = Append(ns, NewNode) /\ states' = Append(ss, NewJump)
      /\ result = "none" /\ result' = "none"
      /\ UNCHANGED <<input, inputidx>>
  BY ReduceStep
<1>2. /\ inputidx \in Nat
      /\ Len(states) \in Nat /\ Len(symbols) \in Nat /\ Len(states) = Len(symbols) + 1
      /\ states \in Seq(State) /\ symbols \in Seq(Node)
      /\ StackOK(states, symbols) /\ SpansOK(symbols, inputidx)
  BY <1>1, Lookup DEF IInv, ParserTypeOK, Read
<1>3. Rules[newrule].lhs \in NonTerminal /\ Rules[newrule].lhs \notin Terminal
  BY <1>1, SymbolsAssumption
<1>4. NewJump = m_tabJump[states[Len(states) - NumArgs]][NewNode.sym]
  BY DEF NewJump
<1>5. ss \in Seq(State) /\ ns \in Seq(Node) /\ StackOK(ss, ns)
  BY <1>1, <1>2, PopOK
<1>6. ss[Len(ss)] = states[Len(states) - NumArgs]
  BY <1>1, <1>2
<1>7. Goto(ss[Len(ss)], NewNode.sym) = NewJump
  BY <1>1, <1>3, <1>4, <1>6 DEF Goto
<1>8. /\ BeginOf(symbols, NumArgs, inputidx) \in Nat /\ BeginOf(symbols, NumArgs, inputidx) <= inputidx
      /\ SpansOK(ns, BeginOf(symbols, NumArgs, inputidx))
  BY <1>1, <1>2, SpansPop
<1> HIDE DEF ss, ns
<1>9. ParserTypeOK'
  BY <1>1, <1>5 DEF IInv, ParserTypeOK
<1>10. StackOK(states', symbols')
  BY <1>1, <1>5, <1>7, PushOK
<1>11. SpansOK(symbols', Read')
  <2>1. SpansOK(Append(ns, NewNode), NewNode.to)
    BY <1>1, <1>5, <1>8, SpansPush
  <2> QED BY <1>1, <2>1 DEF Read
<1> QED BY <1>1, <1>9, <1>10, <1>11 DEF IInv, NeverUndefined

LEMMA StepInv == IInv /\ [ParserNext]_vars => IInv'
<1> SUFFICES ASSUME IInv, [ParserNext]_vars PROVE IInv'
  OBVIOUS
<1>1. CASE UNCHANGED vars
  <2>1. UNCHANGED <<input, inputidx, states, symbols, result>>
    BY <1>1 DEF vars
  <2>2. ParserTypeOK' /\ NeverUndefined'
    BY <2>1 DEF IInv, ParserTypeOK, NeverUndefined
  <2>3. Read' = Read
    BY <2>1 DEF Read
  <2>4. StackOK(states', symbols') /\ SpansOK(symbols', Read')
    BY <2>1, <2>3 DEF IInv
  <2>5. (result = "accept" => <<0, 1>> \in Items[topstate] /\ curtok = END)'
    BY <2>1 DEF IInv, topstate, curtok
  <2> QED BY <2>2, <2>4, <2>5 DEF IInv
<1>2. CASE Done
  BY <1>1, <1>2 DEF Done
<1> QED BY <1>1, <1>2, ThrowInv, AcceptInv, ShiftInv, ReduceInv DEF ParserNext

LEMMA InvHolds == ParserSafeSpec => []IInv
BY InitInv, StepInv, PTL DEF ParserSafeSpec

-----------------------------------------------------------------------------
(* Theorems *)

\* The parser's state stays in its type.
THEOREM TypeCorrect == ParserSafeSpec => []ParserTypeOK
<1>1. IInv => ParserTypeOK
  BY DEF IInv
<1> QED BY <1>1, InvHolds, PTL

\* The state stack is always a path of the automaton over the node stack.
THEOREM PathAlways == ParserSafeSpec => []StackIsPath
<1>1. IInv => StackIsPath
  BY DEF IInv, StackOK, PathOK, StackIsPath
<1> QED BY <1>1, InvHolds, PTL

\* Parser::Parse never pops an empty stack nor uses a jump that is not in the
\* table, and meets no cell with two entries.
THEOREM UndefinedNever == ParserSafeSpec => []NeverUndefined
<1>1. IInv => NeverUndefined
  BY DEF IInv
<1> QED BY <1>1, InvHolds, PTL

\* The nodes on the stack stand for the input in its order, without a gap.
THEOREM SpansAlways == ParserSafeSpec => []SpansInOrder
<1>1. IInv => SpansInOrder
  <2> SUFFICES ASSUME IInv PROVE SpansInOrder
    OBVIOUS
  <2>1. symbols \in Seq(Node) /\ SpansOK(symbols, Read)
    BY DEF IInv, ParserTypeOK
  <2>2. Len(symbols) \in Nat /\ (symbols = <<>> <=> Len(symbols) = 0)
    BY <2>1
  <2> QED BY <2>1, <2>2 DEF SpansInOrder, SpansOK, Read
<1> QED BY <1>1, InvHolds, PTL

\* What Parse accepts is one node of the start symbol's right-hand side, and it
\* stands for the whole input in front of the end token.
THEOREM AcceptsWhole == ParserSafeSpec => []AcceptedWhole
<1>1. IInv => AcceptedWhole
  <2> SUFFICES ASSUME IInv, result = "accept"
               PROVE  /\ curtok = END /\ Len(symbols) = 1
                      /\ symbols[1].sym = Rhs(0)[1]
                      /\ symbols[1].from = 1 /\ symbols[1].to = inputidx
    BY DEF AcceptedWhole
  <2>1. <<0, 1>> \in Items[states[Len(states)]] /\ curtok = END
    BY DEF IInv, topstate
  <2>2. /\ states \in Seq(State) /\ symbols \in Seq(Node) /\ StackOK(states, symbols)
        /\ Len(states) = Len(symbols) + 1 /\ Len(symbols) \in Nat
    BY Lookup DEF IInv, ParserTypeOK
  <2>3. /\ 1 <= Len(symbols)
        /\ <<0, 0>> \in Items[states[Len(states) - 1]]
        /\ symbols[Len(symbols) - 1 + 1].sym = Rhs(0)[1]
    BY <2>1, <2>2, HandleOnStack, SymbolsAssumption
  <2>4. states[Len(symbols)] = 0
    <3>1. Len(states) - 1 = Len(symbols) /\ states[Len(symbols)] \in State
      BY <2>2, <2>3
    <3> QED BY <2>3, <3>1, SymbolsAssumption, TablesAssumption
  <2>5. Len(symbols) = 1
    <3> DEFINE n == Len(symbols)
    <3>1. n \in Nat /\ n >= 1 /\ states[n] = 0
      BY <2>2, <2>3, <2>4
    <3>2. \A i \in 1 .. n : states[i + 1] # 0
      BY <2>2 DEF StackOK, PathOK
    <3> HIDE DEF n
    <3>3. n > 1 => n - 1 \in 1 .. n /\ n - 1 + 1 = n
      BY <3>1
    <3>4. ~(n > 1)
      BY <3>1, <3>2, <3>3
    <3>5. n = 1
      BY <3>1, <3>4
    <3> QED BY <3>5 DEF n
  <2>6. symbols[1].from = 1 /\ symbols[1].to = inputidx
    BY <2>5 DEF IInv, SpansOK, Read
  <2> QED BY <2>1, <2>3, <2>5, <2>6
<1> QED BY <1>1, InvHolds, PTL

-----------------------------------------------------------------------------
(* The parser implements the abstract derivation. *)

\* Form, of any node stack, input and number of unread tokens.
FormOf(ns, inp, idx, unread) ==
    [i \in 1 .. Len(ns) + unread |->
        IF i <= Len(ns) THEN ns[i].sym ELSE inp[idx + i - Len(ns) - 1]]

LEMMA FormType ==
    ASSUME NEW inp \in Seq(Terminal), NEW idx \in 1 .. Len(inp), NEW ns \in Seq(Node),
           NEW unread \in {0, Len(inp) - idx + 1}
    PROVE  /\ FormOf(ns, inp, idx, unread) \in Seq(Symbol)
           /\ Len(FormOf(ns, inp, idx, unread)) = Len(ns) + unread
<1>1. Len(inp) \in Nat /\ Len(ns) \in Nat /\ idx \in Nat /\ unread \in Nat
  OBVIOUS
<1>2. ASSUME NEW i \in 1 .. Len(ns) + unread
      PROVE  (IF i <= Len(ns) THEN ns[i].sym ELSE inp[idx + i - Len(ns) - 1]) \in Symbol
  <2>1. CASE i <= Len(ns)
    <3>1. ns[i] \in Node
      BY <1>1, <2>1
    <3> QED BY <2>1, <3>1 DEF Node, Symbol
  <2>2. CASE i > Len(ns)
    <3>1. idx + i - Len(ns) - 1 \in 1 .. Len(inp)
      BY <1>1, <2>2
    <3>2. inp[idx + i - Len(ns) - 1] \in Terminal
      BY <3>1
    <3> QED BY <1>1, <2>2, <3>2 DEF Symbol
  <2> QED BY <1>1, <2>1, <2>2
<1>3. FormOf(ns, inp, idx, unread) \in [1 .. Len(ns) + unread -> Symbol]
  BY <1>2 DEF FormOf
<1> QED BY <1>1, <1>3

LEMMA FormInit == ParserInit => D!DerivationInit
<1> SUFFICES ASSUME ParserInit PROVE Form \in Inputs
  BY DEF D!DerivationInit
<1>1. /\ input \in Inputs /\ input \in Seq(Terminal) /\ inputidx = 1
      /\ symbols = <<>> /\ result = "none"
  BY InputsAssumption DEF ParserInit
<1>2. Len(symbols) = 0 /\ Unread = Len(input) /\ Len(input) \in Nat
  BY <1>1 DEF Unread
<1>3. Form = [i \in 1 .. Len(input) |-> input[i]]
  BY <1>1, <1>2 DEF Form
<1>4. Form = input
  BY <1>1, <1>3
<1> QED BY <1>1, <1>4

\* Shifting only moves the border between the stack and the unread input.
LEMMA FormShift == IInv /\ Shift => UNCHANGED Form
<1> SUFFICES ASSUME IInv, Shift PROVE Form' = Form
  OBVIOUS
<1> DEFINE node == [sym |-> curtok, rule |-> NoRule, from |-> inputidx, to |-> inputidx + 1]
           n    == Len(symbols)
<1>1. /\ n \in Nat /\ symbols \in Seq(Node)
      /\ inputidx \in 1 .. Len(input) /\ Len(input) \in Nat
  BY Lookup DEF IInv, ParserTypeOK
<1>2. /\ result = "none" /\ input' = input
      /\ symbols' = Append(symbols, node)
      /\ \/ inputidx = Len(input) /\ result' = "underflow" /\ inputidx' = inputidx
         \/ inputidx # Len(input) /\ result' = "none" /\ inputidx' = inputidx + 1
  BY DEF Shift
<1>3. /\ Unread \in Nat /\ Unread >= 1 /\ Unread' = Unread - 1
      /\ Unread' # 0 => inputidx' = inputidx + 1
  BY <1>1, <1>2 DEF Unread
<1>4. node.sym = input[inputidx]
  BY DEF node, curtok
<1>5. /\ Len(symbols') = n + 1 /\ symbols'[n + 1] = node
      /\ \A i \in 1 .. n : symbols'[i] = symbols[i]
  BY <1>1, <1>2
<1>6. Len(symbols') + Unread' = n + Unread
  BY <1>1, <1>3, <1>5
<1> HIDE DEF node
<1>7. ASSUME NEW i \in 1 .. n + Unread
      PROVE  (IF i <= Len(symbols') THEN symbols'[i].sym
              ELSE input'[inputidx' + i - Len(symbols') - 1])
             = (IF i <= n THEN symbols[i].sym ELSE input[inputidx + i - n - 1])
  <2> HIDE DEF n
  <2>1. CASE i <= n
    <3>1. i <= Len(symbols') /\ symbols'[i] = symbols[i]
      BY <1>1, <1>5, <2>1
    <3> QED BY <2>1, <3>1
  <2>2. CASE i = n + 1
    <3>1. inputidx + i - n - 1 = inputidx /\ ~(i <= n) /\ i <= Len(symbols')
      BY <1>1, <1>5, <2>2
    <3> QED BY <1>4, <1>5, <2>2, <3>1
  <2>3. CASE i > n + 1
    <3>1. Unread' # 0
      BY <1>1, <1>3, <2>3
    <3>2. /\ inputidx' + i - Len(symbols') - 1 = inputidx + i - n - 1
          /\ ~(i <= n) /\ ~(i <= Len(symbols'))
      BY <1>1, <1>3, <1>5, <2>3, <3>1
    <3> QED BY <1>2, <3>2
  <2> QED BY <1>1, <1>3, <2>1, <2>2, <2>3
<1> QED BY <1>6, <1>7 DEF Form

\* A reduction replaces the handle at the end of the stack.
LEMMA FormReduce == IInv /\ Reduce => D!DerivationNext
<1> SUFFICES ASSUME IInv, Reduce PROVE D!DerivationNext
  OBVIOUS
<1> DEFINE m == NumArgs
           k == Len(symbols) - m
<1>1. /\ newrule \in RuleNr /\ m = Len(Rhs(newrule)) /\ m \in 0 .. Len(symbols)
      /\ \A j \in 1 .. m : symbols[k + j].sym = Rhs(newrule)[j]
      /\ NewNode.sym = Rules[newrule].lhs
      /\ symbols' = Append(SubSeq(symbols, 1, k), NewNode)
      /\ result = "none" /\ result' = "none"
      /\ input' = input /\ inputidx' = inputidx
  BY ReduceStep
<1>2. /\ symbols \in Seq(Node) /\ Len(symbols) \in Nat
      /\ input \in Seq(Terminal) /\ Len(input) \in Nat /\ inputidx \in 1 .. Len(input)
  BY Lookup DEF IInv, ParserTypeOK
<1>3. Unread = Len(input) - inputidx + 1 /\ Unread \in Nat /\ Unread' = Unread
  BY <1>1, <1>2 DEF Unread
<1>4. Len(Form) = Len(symbols) + Unread
  BY <1>2, <1>3, FormType DEF Form, FormOf
<1>5. /\ k \in Nat /\ m \in Nat /\ Len(symbols) = k + m
      /\ Len(symbols') = k + 1 /\ symbols'[k + 1] = NewNode
      /\ \A i \in 1 .. k : symbols'[i] = symbols[i]
  BY <1>1, <1>2
<1> HIDE DEF m, k
<1>6. D!HandleAt(newrule, k)
  <2>1. ASSUME NEW j \in 1 .. m PROVE Form[k + j] = Rules[newrule].rhs[j]
    <3>1. k + j \in 1 .. Len(symbols) + Unread /\ k + j <= Len(symbols)
      BY <1>3, <1>5
    <3>2. Form[k + j] = symbols[k + j].sym
      BY <3>1 DEF Form
    <3> QED BY <1>1, <3>2 DEF Rhs
  <2>2. k + m <= Len(Form)
    BY <1>3, <1>4, <1>5
  <2> QED BY <1>1, <2>1, <2>2 DEF D!HandleAt, Rhs
<1>7. Form' = D!Replaced(newrule, k)
  <2>1. Len(Form) - m + 1 = Len(symbols') + Unread'
    BY <1>3, <1>4, <1>5
  <2>2. ASSUME NEW i \in 1 .. Len(symbols') + Unread'
        PROVE  (IF i <= Len(symbols') THEN symbols'[i].sym
                ELSE input'[inputidx' + i - Len(symbols') - 1])
               = (IF i <= k THEN Form[i]
                  ELSE IF i = k + 1 THEN Rules[newrule].lhs ELSE Form[i + m - 1])
    <3>1. CASE i <= k
      <4>1. i \in 1 .. Len(symbols) + Unread /\ i <= Len(symbols) /\ i <= Len(symbols')
        BY <1>3, <1>5, <3>1
      <4>2. Form[i] = symbols[i].sym
        BY <4>1 DEF Form
      <4> QED BY <1>5, <3>1, <4>1, <4>2
    <3>2. CASE i = k + 1
      <4>1. ~(i <= k) /\ i <= Len(symbols')
        BY <1>5, <3>2
      <4> QED BY <1>1, <1>5, <3>2, <4>1
    <3>3. CASE i > k + 1
      <4>1. /\ i + m - 1 \in 1 .. Len(symbols) + Unread /\ ~(i + m - 1 <= Len(symbols))
            /\ inputidx' + i - Len(symbols') - 1 = inputidx + (i + m - 1) - Len(symbols) - 1
            /\ ~(i <= k) /\ i # k + 1 /\ ~(i <= Len(symbols'))
        <5>1. /\ inputidx' = inputidx /\ inputidx \in Nat
              /\ Unread' = Unread /\ Unread \in Nat
              /\ Len(symbols') = k + 1 /\ Len(symbols) = k + m /\ k \in Nat /\ m \in Nat
          BY <1>1, <1>2, <1>3, <1>5
        <5> QED BY <5>1, <3>3
      <4>2. Form[i + m - 1] = input[inputidx + (i + m - 1) - Len(symbols) - 1]
        BY <4>1 DEF Form
      <4> QED BY <1>1, <4>1, <4>2
    <3> QED BY <1>5, <3>1, <3>2, <3>3
  <2>3. Form' = [i \in 1 .. Len(symbols') + Unread' |->
                    IF i <= k THEN Form[i]
                    ELSE IF i = k + 1 THEN Rules[newrule].lhs ELSE Form[i + m - 1]]
    BY <2>2 DEF Form
  <2>4. m = Len(Rules[newrule].rhs)
    BY <1>1 DEF Rhs
  <2> QED BY <2>1, <2>3, <2>4 DEF D!Replaced
<1>8. k \in 0 .. Len(Form)
  BY <1>3, <1>4, <1>5
<1> QED BY <1>1, <1>6, <1>7, <1>8 DEF D!DerivationNext, D!ReduceStep

\* Parser::Parse implements the derivation of its input: what it reduces by, and
\* where, is at every step a right-hand side that stands in the sentential form.
THEOREM ImplementsDerivation == ParserSafeSpec => Derives
<1>1. IInv /\ [ParserNext]_vars => [D!DerivationNext]_Form
  <2> SUFFICES ASSUME IInv, [ParserNext]_vars PROVE [D!DerivationNext]_Form
    OBVIOUS
  <2>1. CASE Throw \/ Accept
    <3>1. /\ UNCHANGED <<input, inputidx, symbols>>
          /\ result = "none" /\ result' \in {"error", "conflict", "accept"}
      BY <2>1 DEF Throw, Accept
    <3>2. Unread' = Unread
      BY <3>1 DEF Unread
    <3> QED BY <3>1, <3>2 DEF Form
  <2>2. CASE Shift
    BY <2>2, FormShift
  <2>3. CASE Reduce
    BY <2>3, FormReduce
  <2>4. CASE Done \/ UNCHANGED vars
    BY <2>4 DEF Done, vars, Form, Unread
  <2> QED BY <2>1, <2>2, <2>3, <2>4 DEF ParserNext
<1> QED BY <1>1, FormInit, InvHolds, PTL DEF ParserSafeSpec, Derives, D!DerivationSpec
=============================================================================
