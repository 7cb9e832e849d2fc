-------------------------- MODULE Collection_proofs --------------------------
(***************************************************************************)
(* Proofs about Collection, for every grammar: what the closures remember of *)
(* the transitions, that no transition is left out or stale, what the tables *)
(* are made from, and that no item is lost on the way.                      *)
(***************************************************************************)
EXTENDS Collection, FiniteSetTheorems, TLAPS

-----------------------------------------------------------------------------
\* Lemmas about places: the members of a finite set have different numbers of
\* members before them, from 0 on.
Rank(S, f, x) == Cardinality({y \in S : f[y] < f[x]})

LEMMA RankBound ==
    ASSUME NEW S, IsFiniteSet(S), NEW f \in [S -> Nat], NEW x \in S
    PROVE  Rank(S, f, x) \in 0 .. Cardinality(S) - 1
<1> DEFINE B == {z \in S : f[z] < f[x]}
<1>1. B \subseteq S /\ x \notin B
  <2>1. f[x] \in Nat
    OBVIOUS
  <2> QED
    BY <2>1
<1> HIDE DEF B
<1>2. IsFiniteSet(B) /\ Cardinality(B) <= Cardinality(S) /\ Cardinality(S) # Cardinality(B)
  BY <1>1, FS_Subset
<1>3. Cardinality(B) \in Nat /\ Cardinality(S) \in Nat
  BY <1>2, FS_CardinalityType
<1>4. Cardinality(B) \in 0 .. Cardinality(S) - 1
  BY <1>2, <1>3
<1> QED
  BY <1>4 DEF B, Rank

LEMMA RankStrict ==
    ASSUME NEW S, IsFiniteSet(S), NEW f \in [S -> Nat],
           NEW x \in S, NEW y \in S, f[x] < f[y]
    PROVE  Rank(S, f, x) < Rank(S, f, y)
<1> DEFINE Bx == {z \in S : f[z] < f[x]}
           By == {z \in S : f[z] < f[y]}
<1>1. Bx \subseteq By /\ x \in By /\ x \notin Bx /\ By \subseteq S
  <2>1. \A z \in S : f[z] \in Nat
    OBVIOUS
  <2> QED
    BY <2>1
<1> HIDE DEF Bx, By
<1>2. IsFiniteSet(By) /\ IsFiniteSet(Bx)
  BY <1>1, FS_Subset
<1>3. Cardinality(Bx) <= Cardinality(By) /\ Cardinality(By) # Cardinality(Bx)
  BY <1>1, <1>2, FS_Subset
<1>4. Cardinality(Bx) \in Nat /\ Cardinality(By) \in Nat
  BY <1>2, FS_CardinalityType
<1>5. Cardinality(Bx) < Cardinality(By)
  BY <1>3, <1>4
<1> QED
  BY <1>5 DEF Bx, By, Rank

LEMMA RankInjective ==
    ASSUME NEW S, IsFiniteSet(S), NEW f \in [S -> Nat],
           NEW x \in S, NEW y \in S, Rank(S, f, x) = Rank(S, f, y)
    PROVE  f[x] = f[y]
<1>1. f[x] \in Nat /\ f[y] \in Nat
  OBVIOUS
<1>2. Rank(S, f, x) \in 0 .. Cardinality(S) - 1
  BY RankBound
<1>3. ~(f[x] < f[y])
  BY <1>2, RankStrict
<1>4. ~(f[y] < f[x])
  BY <1>2, RankStrict
<1> QED
  BY <1>1, <1>3, <1>4

LEMMA RankOnto ==
    ASSUME NEW S, IsFiniteSet(S), NEW f \in [S -> Nat],
           \A x, y \in S : f[x] = f[y] => x = y,
           NEW k \in 1 .. Cardinality(S)
    PROVE  \E x \in S : Rank(S, f, x) = k - 1
<1> DEFINE n == Cardinality(S)
           T == (0 .. n - 1) \ {k - 1}
           g == [x \in S |-> Rank(S, f, x)]
<1>1. n \in Nat
  BY FS_CardinalityType
<1>2. \A x \in S : Rank(S, f, x) \in 0 .. n - 1
  BY RankBound
<1>3. \A x, y \in S : Rank(S, f, x) = Rank(S, f, y) => x = y
  BY RankInjective
<1>4. IsFiniteSet(T) /\ Cardinality(T) < n
  <2>1. 0 \in Int /\ n - 1 \in Int /\ k - 1 \in 0 .. n - 1
    BY <1>1
  <2> HIDE DEF n
  <2>2. IsFiniteSet(0 .. n - 1) /\ Cardinality(0 .. n - 1) = n
    BY <1>1, <2>1, FS_Interval
  <2>3. \A U, x : IsFiniteSet(U) /\ x \in U =>
            IsFiniteSet(U \ {x}) /\ Cardinality(U \ {x}) = Cardinality(U) - 1
    BY FS_RemoveElement
  <2>4. IsFiniteSet(T) /\ Cardinality(T) = n - 1
    BY <2>1, <2>2, <2>3
  <2> QED
    BY <1>1, <2>4
<1>5. SUFFICES ASSUME \A x \in S : Rank(S, f, x) # k - 1 PROVE FALSE
  OBVIOUS
<1>6. g \in [S -> T]
  BY <1>2, <1>5
<1>7. \A x \in S : g[x] = Rank(S, f, x)
  OBVIOUS
<1> HIDE DEF T, g
<1>8. PICK x, y \in S : x # y /\ g[x] = g[y]
  BY <1>4, <1>6, FS_PigeonHole
<1> QED
  BY <1>3, <1>7, <1>8

LEMMA PlaceRank ==
    ASSUME NEW S \in SUBSET Nat
    PROVE  /\ [y \in S |-> y] \in [S -> Nat]
           /\ \A x \in S : Rank(S, [y \in S |-> y], x) = Cardinality({j \in S : j < x})
<1>1. \A x \in S : {z \in S : [y \in S |-> y][z] < [y \in S |-> y][x]} = {j \in S : j < x}
  OBVIOUS
<1> QED
  BY <1>1 DEF Rank

LEMMA PlaceIn ==
    ASSUME NEW S \in SUBSET Nat, IsFiniteSet(S), NEW k \in 1 .. Cardinality(S)
    PROVE  Place(S, k) \in S
<1> DEFINE f == [y \in S |-> y]
<1>1. /\ f \in [S -> Nat] /\ \A x, y \in S : f[x] = f[y] => x = y
      /\ \A x \in S : Rank(S, f, x) = Cardinality({j \in S : j < x})
  BY PlaceRank
<1> HIDE DEF f
<1>2. PICK x \in S : Rank(S, f, x) = k - 1
  BY <1>1, RankOnto
<1> QED
  BY <1>1, <1>2 DEF Place

LEMMA PlaceOnto ==
    ASSUME NEW S \in SUBSET Nat, IsFiniteSet(S), NEW x \in S
    PROVE  \E k \in 1 .. Cardinality(S) : Place(S, k) = x
<1> DEFINE f == [y \in S |-> y]
           k == Rank(S, f, x) + 1
<1>0. f \in [S -> Nat] /\ \A y, z \in S : f[y] = f[z] => y = z
  BY PlaceRank
<1>1. \A y \in S : Rank(S, f, y) = Cardinality({j \in S : j < y})
  BY PlaceRank
<1> HIDE DEF f
<1>2. Rank(S, f, x) \in 0 .. Cardinality(S) - 1 /\ Cardinality(S) \in Nat
  BY <1>0, RankBound, FS_CardinalityType
<1>3. k \in 1 .. Cardinality(S) /\ Rank(S, f, x) = k - 1
  BY <1>2
<1>4. Place(S, k) \in S /\ Rank(S, f, Place(S, k)) = k - 1
  BY <1>1, <1>3 DEF Place
<1>5. \A y \in S : Rank(S, f, y) = Rank(S, f, x) => f[y] = f[x]
  <2> SUFFICES ASSUME NEW y \in S, Rank(S, f, y) = Rank(S, f, x) PROVE f[y] = f[x]
    OBVIOUS
  <2>1. f \in [S -> Nat]
    BY <1>0
  <2> QED
    BY <2>1, RankInjective
<1> QED
  BY <1>0, <1>3, <1>4, <1>5

LEMMA LeastPlace ==
    ASSUME NEW S \in SUBSET Nat, IsFiniteSet(S), S # {}
    PROVE  \E x \in S : \A y \in S : x <= y
<1>1. Cardinality(S) \in Nat /\ Cardinality(S) # 0
  BY FS_CardinalityType, FS_EmptySet
<1>2. 1 \in 1 .. Cardinality(S)
  BY <1>1
<1> DEFINE f == [y \in S |-> y]
<1>3. f \in [S -> Nat] /\ \A y, z \in S : f[y] = f[z] => y = z
  OBVIOUS
<1>4. \A y \in S : Rank(S, f, y) = Cardinality({j \in S : j < y})
  BY PlaceRank
<1> HIDE DEF f
<1>5. PICK x \in S : Rank(S, f, x) = 1 - 1
  BY <1>2, <1>3, RankOnto
<1>6. Cardinality({j \in S : j < x}) = 0
  BY <1>4, <1>5
<1>7. {j \in S : j < x} = {}
  <2>1. IsFiniteSet({j \in S : j < x})
    BY FS_Subset
  <2> QED
    BY <1>6, <2>1, FS_EmptySet
<1>8. \A y \in S : x <= y
  BY <1>7
<1> QED
  BY <1>8

LEMMA EmptySeq ==
    \A T : \A s \in Seq(T) : /\ DOMAIN s = 1 .. Len(s) /\ Len(s) \in Nat
                             /\ s # <<>> <=> Len(s) \in DOMAIN s
                             /\ s # <<>> <=> 1 \in DOMAIN s
OBVIOUS

LEMMA PlacesFinite ==
    ASSUME NEW T, NEW seq \in Seq(T), NEW S \in SUBSET DOMAIN seq
    PROVE  S \in SUBSET Nat /\ IsFiniteSet(S) /\ Cardinality(S) \in Nat
<1>1. DOMAIN seq = 1 .. Len(seq) /\ Len(seq) \in Nat
  OBVIOUS
<1>2. 1 \in Int /\ Len(seq) \in Int
  BY <1>1
<1>3. IsFiniteSet(1 .. Len(seq))
  BY <1>2, FS_Interval
<1>4. IsFiniteSet(S)
  BY <1>1, <1>3, FS_Subset
<1> QED
  BY <1>1, <1>4, FS_CardinalityType

\* The members at some places of a sequence.
LEMMA AtPlaces ==
    ASSUME NEW T, NEW seq \in Seq(T), NEW S \in SUBSET DOMAIN seq
    PROVE  /\ At(seq, S) \in Seq(T)
           /\ \A k \in DOMAIN At(seq, S) : \E i \in S : At(seq, S)[k] = seq[i]
           /\ \A i \in S : \E k \in DOMAIN At(seq, S) : At(seq, S)[k] = seq[i]
<1>1. S \in SUBSET Nat /\ IsFiniteSet(S) /\ Cardinality(S) \in Nat
  BY PlacesFinite
<1>2. \A k \in 1 .. Cardinality(S) : Place(S, k) \in S
  BY <1>1, PlaceIn
<1>3. \A i \in S : \E k \in 1 .. Cardinality(S) : Place(S, k) = i
  BY <1>1, PlaceOnto
<1>4. \A i \in S : seq[i] \in T
  OBVIOUS
<1>5. /\ DOMAIN At(seq, S) = 1 .. Cardinality(S)
      /\ \A k \in 1 .. Cardinality(S) : At(seq, S)[k] = seq[Place(S, k)]
  BY DEF At
<1>6. At(seq, S) \in Seq(T)
  <2>1. \A k \in 1 .. Cardinality(S) : seq[Place(S, k)] \in T
    BY <1>2, <1>4
  <2> QED
    BY <1>1, <2>1 DEF At
<1> QED
  BY <1>2, <1>3, <1>5, <1>6

LEMMA AtRange ==
    ASSUME NEW T, NEW seq \in Seq(T), NEW S \in SUBSET DOMAIN seq
    PROVE  At(seq, S) \in Seq(T) /\ Range(At(seq, S)) = {seq[i] : i \in S}
BY AtPlaces DEF Range

LEMMA FirstPlaceOf ==
    ASSUME NEW T, NEW seq \in Seq(T), NEW i \in DOMAIN seq
    PROVE  \E j \in FirstPlaces(seq) : seq[j] = seq[i]
<1> DEFINE S == {j \in DOMAIN seq : seq[j] = seq[i]}
<1>1. S \in SUBSET DOMAIN seq /\ i \in S
  OBVIOUS
<1>2. PICK j \in S : \A k \in S : j <= k
  BY <1>1, PlacesFinite, LeastPlace
<1>3. \A k \in 1 .. j - 1 : seq[k] # seq[j]
  <2> SUFFICES ASSUME NEW k \in 1 .. j - 1, seq[k] = seq[j] PROVE FALSE
    OBVIOUS
  <2>1. j \in 1 .. Len(seq) /\ Len(seq) \in Nat /\ DOMAIN seq = 1 .. Len(seq)
    OBVIOUS
  <2>2. k \in DOMAIN seq
    BY <2>1
  <2>3. k \in S
    BY <2>2
  <2> QED
    BY <1>2, <2>1, <2>3
<1> QED
  BY <1>3 DEF FirstPlaces

LEMMA ListedRange ==
    ASSUME NEW S \in SUBSET Terminal
    PROVE  Listed(S) \in Seq(Terminal) /\ Range(Listed(S)) = S
<1> DEFINE P == {i \in DOMAIN TermOrder : TermOrder[i] \in S}
<1>1. TermOrder \in Seq(Terminal) /\ P \in SUBSET DOMAIN TermOrder
  BY CollectionAssumption
<1>2. {TermOrder[i] : i \in P} = S
  BY CollectionAssumption DEF Range
<1> HIDE DEF P
<1>3. At(TermOrder, P) \in Seq(Terminal) /\ Range(At(TermOrder, P)) = S
  BY <1>1, <1>2, AtRange
<1> QED
  BY <1>3 DEF Listed, P

LEMMA ReversedRange ==
    ASSUME NEW T, NEW seq \in Seq(T)
    PROVE  Reversed(seq) \in Seq(T) /\ Range(Reversed(seq)) = Range(seq)
<1>1. DOMAIN seq = 1 .. Len(seq) /\ Len(seq) \in Nat
  OBVIOUS
<1>2. \A k \in 1 .. Len(seq) : Len(seq) + 1 - k \in 1 .. Len(seq)
  BY <1>1
<1>3. \A k \in 1 .. Len(seq) : Len(seq) + 1 - (Len(seq) + 1 - k) = k
  BY <1>1
<1>4. /\ DOMAIN Reversed(seq) = 1 .. Len(seq)
      /\ \A k \in 1 .. Len(seq) : Reversed(seq)[k] = seq[Len(seq) + 1 - k]
  BY <1>1 DEF Reversed
<1>5. Reversed(seq) \in Seq(T)
  <2>1. \A k \in 1 .. Len(seq) : seq[Len(seq) + 1 - k] \in T
    BY <1>1, <1>2
  <2> QED
    BY <1>1, <2>1 DEF Reversed
<1> QED
  BY <1>1, <1>2, <1>3, <1>4, <1>5 DEF Range

LEMMA ConcatRange ==
    ASSUME NEW T, NEW a \in Seq(T), NEW b \in Seq(T)
    PROVE  a \o b \in Seq(T) /\ Range(a \o b) = Range(a) \cup Range(b)
<1>1. /\ a \o b \in Seq(T) /\ DOMAIN (a \o b) = 1 .. Len(a) + Len(b)
      /\ \A k \in 1 .. Len(a) + Len(b) : (a \o b)[k] = IF k <= Len(a) THEN a[k] ELSE b[k - Len(a)]
      /\ DOMAIN a = 1 .. Len(a) /\ DOMAIN b = 1 .. Len(b) /\ Len(a) \in Nat /\ Len(b) \in Nat
  OBVIOUS
<1>2. Range(a \o b) \subseteq Range(a) \cup Range(b)
  <2> SUFFICES ASSUME NEW k \in 1 .. Len(a) + Len(b) PROVE (a \o b)[k] \in Range(a) \cup Range(b)
    BY <1>1 DEF Range
  <2>1. k <= Len(a) => k \in 1 .. Len(a)
    BY <1>1
  <2>2. ~(k <= Len(a)) => k - Len(a) \in 1 .. Len(b)
    BY <1>1
  <2> QED
    BY <1>1, <2>1, <2>2 DEF Range
<1>3. Range(a) \subseteq Range(a \o b)
  <2> SUFFICES ASSUME NEW k \in 1 .. Len(a) PROVE a[k] \in Range(a \o b)
    BY <1>1 DEF Range
  <2>1. k \in 1 .. Len(a) + Len(b) /\ k <= Len(a)
    BY <1>1
  <2> QED
    BY <1>1, <2>1 DEF Range
<1>4. Range(b) \subseteq Range(a \o b)
  <2> SUFFICES ASSUME NEW k \in 1 .. Len(b) PROVE b[k] \in Range(a \o b)
    BY <1>1 DEF Range
  <2>1. /\ k + Len(a) \in 1 .. Len(a) + Len(b) /\ ~(k + Len(a) <= Len(a))
        /\ k + Len(a) - Len(a) = k
    BY <1>1
  <2> QED
    BY <1>1, <2>1 DEF Range
<1> QED
  BY <1>1, <1>2, <1>3, <1>4

LEMMA AddLookaheadsToRange ==
    ASSUME NEW las \in Seq(Terminal), NEW new \in Seq(Terminal)
    PROVE  /\ AddLookaheadsTo(las, new) \in Seq(Terminal)
           /\ Range(AddLookaheadsTo(las, new)) = Range(las) \cup Range(new)
<1> DEFINE S == {i \in FirstPlaces(new) : new[i] \notin Range(las)}
           front == At(new, S)
<1>1. S \in SUBSET DOMAIN new
  BY DEF FirstPlaces
<1>2. \A i \in DOMAIN new : new[i] \in Range(las) \/ \E j \in S : new[j] = new[i]
  BY FirstPlaceOf
<1>3. \A i \in S : i \in DOMAIN new /\ new[i] \in Range(new)
  BY <1>1 DEF Range
<1> HIDE DEF S
<1>4. front \in Seq(Terminal) /\ Range(front) = {new[i] : i \in S}
  BY <1>1, AtRange
<1>5. Range(new) \subseteq Range(las) \cup Range(front) /\ Range(front) \subseteq Range(new)
  BY <1>2, <1>3, <1>4 DEF Range
<1> HIDE DEF front
<1>6. Reversed(front) \in Seq(Terminal) /\ Range(Reversed(front)) = Range(front)
  BY <1>4, ReversedRange
<1>7. /\ Reversed(front) \o las \in Seq(Terminal)
      /\ Range(Reversed(front) \o las) = Range(front) \cup Range(las)
  BY <1>6, ConcatRange
<1> QED
  BY <1>5, <1>7 DEF AddLookaheadsTo, front, S

-----------------------------------------------------------------------------

Symbol == Terminal \cup NonTerminal

ClosureObject == [id : Nat, elems : Seq(Element), comefrom : SUBSET (Symbol \X Nat)]

\* The closures of a collection are its members, each of them once.
IsCollection(c) ==
    /\ c.m_collection \in Seq(Nat)
    /\ \A i, j \in DOMAIN c.m_collection : c.m_collection[i] = c.m_collection[j] => i = j
    /\ Range(c.m_collection) = DOMAIN c.closures
    /\ \A o \in DOMAIN c.closures :
           c.closures[o] \in ClosureObject /\ UniqueCores(c.closures[o].elems)
    /\ \A o, p \in DOMAIN c.closures : c.closures[o].id = c.closures[p].id => o = p
    /\ c.m_transitions \subseteq (DOMAIN c.closures) \X (DOMAIN c.closures) \X Symbol

Apart(c, only_core) ==
    \A o, p \in DOMAIN c.closures :
        hash(c.closures[o].elems, only_core) = hash(c.closures[p].elems, only_core) => o = p

\* What begins a rule is called for.
AllCalledFor(cores) == \A core \in cores : core[2] = 0 => OpensRule(cores, core)

\* The cores behind a transition: those of its kernel come over the symbol.
Follows(old, sym, new) ==
    /\ AllCalledFor(new)
    /\ \E core \in new : core[2] > 0
    /\ \A core \in new : core[2] > 0 =>
           <<core[1], core[2] - 1>> \in old /\ GetRhs(core)[core[2]] = sym

\* The elements of a closure: what begins a rule is called for, the cursor of
\* another one has not moved over epsilon, and the rule of the start symbol is
\* followed by the end.
ElementsSound(s, elems) ==
    /\ \A core \in CoresOf(elems) :
           /\ core[2] = 0 => core = <<s, 0>> \/ OpensRule(CoresOf(elems), core)
           /\ core[2] > 0 => GetRhs(core)[core[2]] # g_eps
    /\ \A x \in ItemsOf(elems) : x[1][1] = s => x[2] = g_end

ClosuresSound(s, c) ==
    /\ 0 \in DOMAIN c.closures
    /\ \A core \in CoresOf(c.closures[0].elems) : core[2] = 0
    /\ \A o \in DOMAIN c.closures \ {0} : AllCalledFor(CoresOf(c.closures[o].elems))
    /\ \A o \in DOMAIN c.closures : ElementsSound(s, c.closures[o].elems)

TransitionsSound(c) ==
    \A t \in c.m_transitions :
        Follows(CoresOf(c.closures[t[1]].elems), t[3], CoresOf(c.closures[t[2]].elems))

Remembered(c) ==
    \A o \in DOMAIN c.closures :
        c.closures[o].comefrom = {<<t[3], t[1]>> : t \in {u \in c.m_transitions : u[2] = o}}

Syms(elems) == {GetPossibleTransition(core) : core \in CoresOf(elems)} \ {NoSymbol}

TransitionsMade(c) ==
    \A o \in DOMAIN c.closures : \A sym \in Syms(c.closures[o].elems) :
        \E t \in c.m_transitions : t[1] = o /\ t[3] = sym

Numbered(c) ==
    /\ \A k \in DOMAIN c.m_collection : c.closures[c.m_collection[k]].id = k - 1
    /\ c.m_collection # <<>> /\ c.m_collection[1] = 0

-----------------------------------------------------------------------------
\* Lemmas about cores and elements.
LEMMA CoreType ==
    ASSUME NEW core \in Core
    PROVE  /\ core[1] \in RuleNr /\ core[2] \in Nat /\ core = <<core[1], core[2]>>
           /\ GetRhs(core) \in Seq(Symbol \cup {g_eps}) /\ core[2] <= Len(GetRhs(core))
           /\ GetLhs(core) \in NonTerminal
<1>1. core \in RuleNr \X Nat /\ core[2] <= Len(GetRhs(core))
  BY DEF Core, GetRhs
<1>2. core[1] \in RuleNr /\ core[2] \in Nat /\ core = <<core[1], core[2]>>
  BY <1>1
<1>3. Rules[core[1]] \in [lhs : NonTerminal, rhs : Seq(Terminal \cup NonTerminal \cup {g_eps})]
  BY <1>2, GrammarAssumption
<1>4. /\ GetLhs(core) \in NonTerminal
      /\ GetRhs(core) \in Seq(Terminal \cup NonTerminal \cup {g_eps})
  BY <1>3 DEF GetLhs, GetRhs
<1> QED
  BY <1>1, <1>2, <1>4 DEF Symbol

LEMMA ElementType ==
    ASSUME NEW elems \in Seq(Element)
    PROVE  /\ \A i \in DOMAIN elems : elems[i].core \in Core /\ elems[i].las \in Seq(Terminal)
           /\ CoresOf(elems) \subseteq Core
           /\ \A x \in ItemsOf(elems) : x = <<x[1], x[2]>> /\ x[1] \in CoresOf(elems) /\ x[2] \in Terminal
<1>1. \A i \in DOMAIN elems : elems[i] \in Element
  OBVIOUS
<1>2. \A i \in DOMAIN elems : elems[i].core \in Core /\ elems[i].las \in Seq(Terminal)
  BY <1>1 DEF Element
<1>3. \A i \in DOMAIN elems : Range(elems[i].las) \subseteq Terminal
  BY <1>2 DEF Range
<1> QED
  BY <1>2, <1>3 DEF CoresOf, ItemsOf

\* As epsilon stands alone, nothing is ever skipped: the next symbol is the one
\* behind the cursor.
LEMMA NothingSkipped ==
    ASSUME NEW core \in Core
    PROVE  /\ GetPossibleTransition(core) = GetSymbolAtCursor(core)
           /\ GetPossibleTransition(core) \in Symbol \cup {NoSymbol}
           /\ GetPossibleTransition(core) # NoSymbol =>
                  /\ core[2] < Len(GetRhs(core))
                  /\ GetPossibleTransition(core) = GetRhs(core)[core[2] + 1]
<1> DEFINE rhs == GetRhs(core)
           c == core[2]
<1>1. rhs \in Seq(Symbol \cup {g_eps}) /\ c \in Nat /\ c <= Len(rhs) /\ core[1] \in RuleNr
  BY CoreType
<1>2. \A i \in 1 .. Len(rhs) : rhs[i] = g_eps => Len(rhs) = 1
  BY <1>1, EpsilonAssumption DEF GetRhs, Range
<1>3. \A i \in 1 .. Len(rhs) : rhs[i] \in Symbol \cup {g_eps}
  BY <1>1
<1>a. Len(rhs) \in Nat
  BY <1>1
<1>b. GetSymbolAtCursor(core) = IF c < Len(rhs) THEN rhs[c + 1] ELSE g_eps
  BY DEF GetSymbolAtCursor, NoSymbol
<1>c. IsCursorAtEnd(core) <=> \A i \in c + 1 .. Len(rhs) : rhs[i] = g_eps
  BY DEF IsCursorAtEnd
<1>4. CASE \E i \in 1 .. Len(rhs) : rhs[i] = g_eps
  <2>1. Len(rhs) = 1 /\ rhs[1] = g_eps
    BY <1>2, <1>4, <1>a
  <2>2. \A i \in c + 1 .. Len(rhs) : i = 1
    BY <1>1, <2>1
  <2>3. IsCursorAtEnd(core)
    BY <1>c, <2>1, <2>2
  <2>4. GetSymbolAtCursor(core) = g_eps
    BY <1>1, <1>b, <2>1
  <2> QED
    BY <2>3, <2>4 DEF GetPossibleTransition, NoSymbol
<1>5. CASE \A i \in 1 .. Len(rhs) : rhs[i] # g_eps
  <2>1. CASE c < Len(rhs)
    <3>1. c + 1 \in c + 1 .. Len(rhs) /\ c + 1 \in 1 .. Len(rhs)
      BY <1>1, <1>a, <2>1
    <3>2. ~IsCursorAtEnd(core)
      BY <1>5, <1>c, <3>1
    <3> DEFINE Next(i) == /\ rhs[i] # g_eps
                          /\ \A j \in c + 1 .. i - 1 : rhs[j] = g_eps
               n == CHOOSE i \in c + 1 .. Len(rhs) : Next(i)
    <3>3. Next(c + 1)
      <4>1. \A j \in c + 1 .. c + 1 - 1 : FALSE
        BY <1>1
      <4> QED
        BY <1>5, <3>1, <4>1
    <3>4. \A i \in c + 1 .. Len(rhs) : Next(i) => i = c + 1
      <4> SUFFICES ASSUME NEW i \in c + 1 .. Len(rhs), Next(i), i # c + 1 PROVE FALSE
        OBVIOUS
      <4>1. c + 1 \in c + 1 .. i - 1
        BY <1>1, <1>a
      <4> QED
        BY <1>5, <3>1, <4>1
    <3>5. GetPossibleTransition(core) = rhs[n]
      BY <3>2 DEF GetPossibleTransition
    <3> HIDE DEF Next
    <3>6. n = c + 1
      BY <3>1, <3>3, <3>4
    <3> QED
      BY <1>3, <1>b, <2>1, <3>1, <3>5, <3>6 DEF NoSymbol
  <2>2. CASE ~(c < Len(rhs))
    <3>1. \A i \in c + 1 .. Len(rhs) : FALSE
      BY <1>1, <1>a, <2>2
    <3> QED
      BY <1>b, <1>c, <2>2, <3>1 DEF GetPossibleTransition, NoSymbol
  <2> QED
    BY <2>1, <2>2
<1> QED
  BY <1>4, <1>5

LEMMA Advanced ==
    ASSUME NEW core \in Core, NEW sym, GetPossibleTransition(core) = sym, sym # NoSymbol
    PROVE  /\ AdvanceCursor(core) \in Core /\ AdvanceCursor(core)[1] = core[1]
           /\ AdvanceCursor(core)[2] = core[2] + 1 /\ AdvanceCursor(core)[2] > 0
           /\ GetRhs(AdvanceCursor(core))[AdvanceCursor(core)[2]] = sym
<1>1. /\ core[1] \in RuleNr /\ core[2] \in Nat /\ core[2] < Len(GetRhs(core))
      /\ sym = GetRhs(core)[core[2] + 1] /\ GetRhs(core) \in Seq(Symbol \cup {g_eps})
  BY NothingSkipped, CoreType
<1>2. AdvanceCursor(core) = <<core[1], core[2] + 1>>
  BY DEF AdvanceCursor
<1>3. Len(GetRhs(core)) \in Nat
  BY <1>1
<1>4. core[2] + 1 \in Nat /\ core[2] + 1 <= Len(GetRhs(core)) /\ core[2] + 1 > 0
  BY <1>1, <1>3
<1> QED
  BY <1>1, <1>2, <1>4 DEF Core, GetRhs

LEMMA StartNotCalled ==
    ASSUME NEW s \in StartRules, NEW c \in Core, NEW core, core[1] = s
    PROVE  GetSymbolAtCursor(c) # GetLhs(core)
<1>1. /\ c[1] \in RuleNr /\ c[2] \in Nat /\ GetRhs(c) \in Seq(Symbol \cup {g_eps})
      /\ GetRhs(c) = Rules[c[1]].rhs
  BY CoreType DEF GetRhs
<1>2. s \in RuleNr /\ GetLhs(core) = Rules[s].lhs /\ Rules[s].lhs \in NonTerminal
  BY CollectionAssumption, GrammarAssumption DEF GetLhs
<1>3. Rules[s].lhs \notin Range(GetRhs(c))
  BY <1>1, StartAssumption
<1>4. CASE c[2] < Len(GetRhs(c))
  <2>1. c[2] + 1 \in DOMAIN GetRhs(c)
    BY <1>1, <1>4
  <2> QED
    BY <1>2, <1>3, <1>4, <2>1 DEF GetSymbolAtCursor, Range
<1>5. CASE ~(c[2] < Len(GetRhs(c)))
  BY <1>2, <1>5, GrammarAssumption DEF GetSymbolAtCursor, NoSymbol
<1> QED
  BY <1>4, <1>5

\* What is behind a transition symbol.
LEMMA SymsType ==
    ASSUME NEW elems \in Seq(Element)
    PROVE  /\ Syms(elems) \subseteq Symbol
           /\ GetPossibleTransitions(elems) \in Seq(Symbol)
           /\ Range(GetPossibleTransitions(elems)) = Syms(elems)
<1> DEFINE syms == [i \in DOMAIN elems |-> GetPossibleTransition(elems[i].core)]
           S == {i \in FirstPlaces(syms) : syms[i] # NoSymbol}
<1>1. \A i \in DOMAIN elems : syms[i] \in Symbol \cup {NoSymbol}
  BY ElementType, NothingSkipped
<1>2. /\ Syms(elems) = {syms[i] : i \in DOMAIN elems} \ {NoSymbol}
  BY DEF Syms, CoresOf
<1>3. syms \in Seq(Symbol \cup {NoSymbol}) /\ DOMAIN syms = DOMAIN elems
  BY <1>1
<1>a. GetPossibleTransitions(elems) = At(syms, S)
  BY DEF GetPossibleTransitions
<1> HIDE DEF syms
<1>4. S \in SUBSET DOMAIN syms
  BY DEF FirstPlaces
<1>5. \A i \in DOMAIN syms : \E j \in FirstPlaces(syms) : syms[j] = syms[i]
  BY <1>3, FirstPlaceOf
<1>6. \A i \in DOMAIN syms : syms[i] # NoSymbol => \E j \in S : syms[j] = syms[i]
  BY <1>5
<1>7. \A i \in S : syms[i] # NoSymbol
  OBVIOUS
<1> HIDE DEF S
<1>8. Range(At(syms, S)) = {syms[i] : i \in S} /\ At(syms, S) \in Seq(Symbol \cup {NoSymbol})
  BY <1>3, <1>4, AtRange
<1>9. Range(At(syms, S)) = Syms(elems)
  BY <1>2, <1>3, <1>4, <1>6, <1>7, <1>8
<1>10. Syms(elems) \subseteq Symbol
  BY <1>1, <1>2, <1>3
<1>11. At(syms, S) \in Seq(Symbol)
  <2> DEFINE s == At(syms, S)
  <2> HIDE DEF s
  <2>1. s \in Seq(Symbol \cup {NoSymbol}) /\ \A k \in DOMAIN s : s[k] \in Symbol
    BY <1>8, <1>9, <1>10 DEF Range, s
  <2>2. s \in Seq(Symbol)
    BY <2>1
  <2> QED
    BY <2>2 DEF s
<1> QED
  BY <1>a, <1>9, <1>10, <1>11

\* DoTransition moves elements over the symbol and adds what they imply.
LEMMA TransitionMoves ==
    ASSUME LocalClosureCorrect, NEW s \in StartRules,
           NEW elems \in Seq(Element), ElementsSound(s, elems), NEW sym \in Syms(elems)
    PROVE  LET new == DoTransition(elems, sym)
           IN  /\ new \in Seq(Element) /\ UniqueCores(new)
               /\ Follows(CoresOf(elems), sym, CoresOf(new)) /\ ElementsSound(s, new)
<1> DEFINE new == DoTransition(elems, sym)
           S == {i \in DOMAIN elems : GetPossibleTransition(elems[i].core) = sym}
           moving == At(elems, S)
           kernel == [k \in DOMAIN moving |->
                         [core |-> AdvanceCursor(moving[k].core), las |-> moving[k].las]]
<1>1. S \in SUBSET DOMAIN elems /\ sym # NoSymbol /\ \E i \in DOMAIN elems : i \in S
  BY DEF Syms, CoresOf
<1>2. \A i \in S : /\ GetPossibleTransition(elems[i].core) = sym
                   /\ elems[i] \in Element /\ elems[i].core \in Core /\ elems[i].las \in Seq(Terminal)
  BY ElementType
<1> HIDE DEF S
<1>3. /\ moving \in Seq(Element)
      /\ \A k \in DOMAIN moving : \E i \in S : moving[k] = elems[i]
      /\ \A i \in S : \E k \in DOMAIN moving : moving[k] = elems[i]
  BY <1>1, AtPlaces
<1> HIDE DEF moving
<1>4. \A k \in DOMAIN moving :
          /\ GetPossibleTransition(moving[k].core) = sym
          /\ moving[k].core \in Core /\ moving[k].las \in Seq(Terminal)
          /\ moving[k].core \in CoresOf(elems)
          /\ \A la \in Range(moving[k].las) : <<moving[k].core, la>> \in ItemsOf(elems)
  <2> SUFFICES ASSUME NEW k \in DOMAIN moving
               PROVE  /\ GetPossibleTransition(moving[k].core) = sym
                      /\ moving[k].core \in Core /\ moving[k].las \in Seq(Terminal)
                      /\ moving[k].core \in CoresOf(elems)
                      /\ \A la \in Range(moving[k].las) : <<moving[k].core, la>> \in ItemsOf(elems)
    OBVIOUS
  <2>1. PICK i \in S : moving[k] = elems[i]
    BY <1>3
  <2>2. i \in DOMAIN elems
    BY <1>1
  <2>3. /\ elems[i].core \in CoresOf(elems)
        /\ \A la \in Range(elems[i].las) : <<elems[i].core, la>> \in ItemsOf(elems)
    BY <2>2 DEF CoresOf, ItemsOf
  <2> QED
    BY <1>2, <2>1, <2>3
<1>5. \A k \in DOMAIN moving :
          /\ AdvanceCursor(moving[k].core) \in Core
          /\ AdvanceCursor(moving[k].core)[1] = moving[k].core[1]
          /\ AdvanceCursor(moving[k].core)[2] = moving[k].core[2] + 1
          /\ AdvanceCursor(moving[k].core)[2] > 0
          /\ GetRhs(AdvanceCursor(moving[k].core))[AdvanceCursor(moving[k].core)[2]] = sym
  BY <1>1, <1>4, Advanced
<1>6. kernel \in Seq(Element)
  <2>1. \A k \in DOMAIN moving :
            [core |-> AdvanceCursor(moving[k].core), las |-> moving[k].las] \in Element
    BY <1>4, <1>5 DEF Element
  <2>2. DOMAIN moving = 1 .. Len(moving) /\ Len(moving) \in Nat
    BY <1>3
  <2> QED
    BY <2>1, <2>2
<1>7. /\ DOMAIN kernel = DOMAIN moving
      /\ \A k \in DOMAIN moving : /\ kernel[k].core = AdvanceCursor(moving[k].core)
                                  /\ kernel[k].las = moving[k].las
  OBVIOUS
<1>8. new = LocalClosure(kernel)
  BY DEF DoTransition, moving, S
<1> HIDE DEF kernel, new
<1>9. IsClosureOf(new, kernel)
  BY <1>6, <1>8 DEF LocalClosureCorrect
<1>10. /\ new \in Seq(Element) /\ UniqueCores(new) /\ CoresOf(kernel) \subseteq CoresOf(new)
       /\ \A core \in CoresOf(new) \ CoresOf(kernel) : OpensRule(CoresOf(new), core)
       /\ \A x \in ItemsOf(new) \ ItemsOf(kernel) : OpensRule(CoresOf(new), x[1])
  BY <1>9 DEF IsClosureOf, ClosureOfKernel
<1>11. \A core \in CoresOf(kernel) :
           /\ core[2] > 0
           /\ \E old \in CoresOf(elems) : old \in Core /\ core[1] = old[1] /\ core[2] = old[2] + 1
           /\ GetRhs(core)[core[2]] = sym
  BY <1>4, <1>5, <1>7 DEF CoresOf
<1>12. \A core \in CoresOf(new) : core[2] > 0 => core \in CoresOf(kernel)
  BY <1>10 DEF OpensRule
<1>13. Follows(CoresOf(elems), sym, CoresOf(new))
  <2>1. \E core \in CoresOf(new) : core[2] > 0
    <3>1. \E k \in DOMAIN kernel : TRUE
      BY <1>1, <1>3, <1>7
    <3>2. \E core \in CoresOf(kernel) : TRUE
      BY <3>1 DEF CoresOf
    <3> QED
      BY <1>10, <1>11, <3>2
  <2>2. ASSUME NEW core \in CoresOf(new), core[2] > 0
        PROVE  <<core[1], core[2] - 1>> \in CoresOf(elems) /\ GetRhs(core)[core[2]] = sym
    <3>1. core \in CoresOf(kernel)
      BY <1>12, <2>2
    <3>2. PICK old \in CoresOf(elems) : old \in Core /\ core[1] = old[1] /\ core[2] = old[2] + 1
      BY <1>11, <3>1
    <3>3. core[2] - 1 = old[2] /\ core[1] = old[1] /\ old = <<old[1], old[2]>>
      <4>1. old[2] \in Nat /\ old = <<old[1], old[2]>>
        BY <3>2, CoreType
      <4>2. core[1] = old[1] /\ core[2] = old[2] + 1
        BY <3>2
      <4> QED
        BY <4>1, <4>2
    <3> QED
      BY <1>11, <3>1, <3>3
  <2>3. AllCalledFor(CoresOf(new))
    BY <1>10, <1>11 DEF AllCalledFor
  <2> QED
    BY <2>1, <2>2, <2>3 DEF Follows
<1>14. \A core \in CoresOf(new) :
           /\ core[2] = 0 => OpensRule(CoresOf(new), core)
           /\ core[2] > 0 => GetRhs(core)[core[2]] # g_eps
  <2>1. sym # g_eps
    BY <1>1 DEF NoSymbol
  <2>2. \A core \in CoresOf(new) : core[2] > 0 => GetRhs(core)[core[2]] = sym
    BY <1>13 DEF Follows
  <2> QED
    BY <1>10, <1>11, <2>1, <2>2
<1>15. ASSUME NEW x \in ItemsOf(new), x[1][1] = s PROVE x[2] = g_end
  <2>1. CASE x \in ItemsOf(kernel)
    <3>1. PICK k \in DOMAIN kernel : \E la \in Range(kernel[k].las) : x = <<kernel[k].core, la>>
      BY <2>1 DEF ItemsOf
    <3>2. x[2] \in Range(moving[k].las) /\ x[1][1] = moving[k].core[1]
      BY <1>5, <1>7, <3>1
    <3>3. <<moving[k].core, x[2]>> \in ItemsOf(elems)
      BY <1>4, <1>7, <3>2
    <3> QED
      BY <1>15, <3>2, <3>3 DEF ElementsSound
  <2>2. CASE x \notin ItemsOf(kernel)
    <3>1. PICK c \in CoresOf(new) : GetSymbolAtCursor(c) = GetLhs(x[1])
      BY <1>10, <2>2 DEF OpensRule
    <3>2. c \in Core
      BY <1>10, <3>1, ElementType
    <3> QED
      BY <1>15, <3>1, <3>2, StartNotCalled
  <2> QED
    BY <2>1, <2>2
<1>16. ElementsSound(s, new)
  <2>1. \A core \in CoresOf(new) :
            /\ core[2] = 0 => core = <<s, 0>> \/ OpensRule(CoresOf(new), core)
            /\ core[2] > 0 => GetRhs(core)[core[2]] # g_eps
    <3> SUFFICES ASSUME NEW core \in CoresOf(new)
                 PROVE  /\ core[2] = 0 => core = <<s, 0>> \/ OpensRule(CoresOf(new), core)
                        /\ core[2] > 0 => GetRhs(core)[core[2]] # g_eps
      OBVIOUS
    <3>1. core[2] = 0 => OpensRule(CoresOf(new), core)
      BY <1>14
    <3>2. core[2] > 0 => GetRhs(core)[core[2]] # g_eps
      BY <1>14
    <3> QED
      BY <3>1, <3>2
  <2>2. \A x \in ItemsOf(new) : x[1][1] = s => x[2] = g_end
    BY <1>15
  <2> HIDE DEF new
  <2> QED
    BY <2>1, <2>2 DEF ElementsSound
<1> QED
  BY <1>10, <1>13, <1>16 DEF new

\* Elements with the same hash have the same cores, in the whole hash also the
\* same look-aheads.
LEMMA SameHash ==
    ASSUME NEW a \in Seq(Element), NEW b \in Seq(Element)
    PROVE  /\ hash(a, TRUE) = hash(b, TRUE) <=> CoresOf(a) = CoresOf(b)
           /\ hash(a, FALSE) = hash(b, FALSE) =>
                  CoresOf(a) = CoresOf(b) /\ ItemsOf(a) = ItemsOf(b)
<1>1. \A e \in Seq(Element) : hash(e, TRUE) = {<<core>> : core \in CoresOf(e)}
  BY DEF hash, CoresOf
<1>2. hash(a, TRUE) = hash(b, TRUE) => CoresOf(a) = CoresOf(b)
  <2> SUFFICES ASSUME hash(a, TRUE) = hash(b, TRUE) PROVE CoresOf(a) = CoresOf(b)
    OBVIOUS
  <2>1. ASSUME NEW e \in Seq(Element), NEW x
        PROVE  x \in CoresOf(e) <=> <<x>> \in hash(e, TRUE)
    <3>1. <<x>> \in hash(e, TRUE) <=> \E i \in DOMAIN e : <<x>> = <<e[i].core>>
      BY DEF hash
    <3>2. \A core : <<x>> = <<core>> <=> x = core
      OBVIOUS
    <3> QED
      BY <3>1, <3>2 DEF CoresOf
  <2> QED
    BY <2>1
<1>3. CoresOf(a) = CoresOf(b) => hash(a, TRUE) = hash(b, TRUE)
  BY <1>1
<1>4. ASSUME hash(a, FALSE) = hash(b, FALSE) PROVE CoresOf(a) = CoresOf(b) /\ ItemsOf(a) = ItemsOf(b)
  <2>1. \A i \in DOMAIN a : \E j \in DOMAIN b : a[i].core = b[j].core /\ a[i].las = b[j].las
    <3> SUFFICES ASSUME NEW i \in DOMAIN a
                 PROVE  \E j \in DOMAIN b : a[i].core = b[j].core /\ a[i].las = b[j].las
      OBVIOUS
    <3>1. <<a[i].core, a[i].las>> \in hash(b, FALSE)
      BY <1>4 DEF hash
    <3> QED
      BY <3>1 DEF hash
  <2>2. \A j \in DOMAIN b : \E i \in DOMAIN a : a[i].core = b[j].core /\ a[i].las = b[j].las
    <3> SUFFICES ASSUME NEW j \in DOMAIN b
                 PROVE  \E i \in DOMAIN a : a[i].core = b[j].core /\ a[i].las = b[j].las
      OBVIOUS
    <3>1. <<b[j].core, b[j].las>> \in hash(a, FALSE)
      BY <1>4 DEF hash
    <3> QED
      BY <3>1 DEF hash
  <2>3. CoresOf(a) = CoresOf(b)
    <3>1. \A i \in DOMAIN a : a[i].core \in CoresOf(b)
      BY <2>1 DEF CoresOf
    <3>2. \A j \in DOMAIN b : b[j].core \in CoresOf(a)
      BY <2>2 DEF CoresOf
    <3> QED
      BY <3>1, <3>2 DEF CoresOf
  <2>4. \A x : x \in ItemsOf(a) <=> \E i \in DOMAIN a : \E la \in Range(a[i].las) : x = <<a[i].core, la>>
    BY DEF ItemsOf
  <2>5. \A x : x \in ItemsOf(b) <=> \E i \in DOMAIN b : \E la \in Range(b[i].las) : x = <<b[i].core, la>>
    BY DEF ItemsOf
  <2>6. ItemsOf(a) \subseteq ItemsOf(b)
    <3> SUFFICES ASSUME NEW x \in ItemsOf(a) PROVE x \in ItemsOf(b)
      OBVIOUS
    <3>1. PICK i \in DOMAIN a : \E la \in Range(a[i].las) : x = <<a[i].core, la>>
      BY <2>4
    <3>2. PICK j \in DOMAIN b : a[i].core = b[j].core /\ a[i].las = b[j].las
      BY <2>1
    <3> QED
      BY <2>5, <3>1, <3>2
  <2>7. ItemsOf(b) \subseteq ItemsOf(a)
    <3> SUFFICES ASSUME NEW x \in ItemsOf(b) PROVE x \in ItemsOf(a)
      OBVIOUS
    <3>1. PICK i \in DOMAIN b : \E la \in Range(b[i].las) : x = <<b[i].core, la>>
      BY <2>5
    <3>2. PICK j \in DOMAIN a : a[j].core = b[i].core /\ a[j].las = b[i].las
      BY <2>2
    <3> QED
      BY <2>4, <3>1, <3>2
  <2> QED
    BY <2>3, <2>6, <2>7
<1> QED
  BY <1>2, <1>3, <1>4

\* Uniting look-aheads adds items and no core.
LEMMA LookaheadsAdded ==
    ASSUME NEW elems \in Seq(Element), NEW others \in Seq(Element), UniqueCores(others)
    PROVE  LET new == AddLookaheads(elems, others)
           IN  /\ new \in Seq(Element) /\ CoresOf(new) = CoresOf(elems)
               /\ UniqueCores(elems) => UniqueCores(new)
               /\ ItemsOf(elems) \subseteq ItemsOf(new)
               /\ ItemsOf(new) \subseteq ItemsOf(elems) \cup ItemsOf(others)
               /\ CoresOf(others) \subseteq CoresOf(elems) => ItemsOf(others) \subseteq ItemsOf(new)
<1> DEFINE new == AddLookaheads(elems, others)
           Same(i) == IndexOfCore(others, elems[i].core)
           Other(i) == others[CHOOSE j \in Same(i) : TRUE]
<1>1. \A i \in DOMAIN elems : elems[i] \in Element /\ elems[i].core \in Core /\ elems[i].las \in Seq(Terminal)
  BY ElementType
<1>2. \A j \in DOMAIN others : others[j].core \in Core /\ others[j].las \in Seq(Terminal)
  BY ElementType
<1>3. \A i \in DOMAIN elems : Same(i) # {} =>
          /\ (CHOOSE j \in Same(i) : TRUE) \in DOMAIN others
          /\ Other(i).core = elems[i].core
  BY DEF IndexOfCore
<1>4. ASSUME NEW i \in DOMAIN elems
      PROVE  /\ i \in DOMAIN new /\ new[i] \in Element /\ new[i].core = elems[i].core
             /\ Same(i) = {} => new[i].las = elems[i].las
             /\ Same(i) # {} => Range(new[i].las) = Range(elems[i].las) \cup Range(Other(i).las)
  <2>1. new[i] = IF Same(i) = {} THEN elems[i]
                 ELSE [elems[i] EXCEPT !.las = AddLookaheadsTo(@, Other(i).las)]
    BY DEF AddLookaheads
  <2>2. CASE Same(i) = {}
    BY <1>1, <2>1, <2>2 DEF AddLookaheads
  <2>3. CASE Same(i) # {}
    <3>1. Other(i).las \in Seq(Terminal)
      BY <1>2, <1>3, <2>3
    <3> DEFINE las == AddLookaheadsTo(elems[i].las, Other(i).las)
    <3>2. las \in Seq(Terminal) /\ Range(las) = Range(elems[i].las) \cup Range(Other(i).las)
      BY <1>1, <3>1, AddLookaheadsToRange
    <3>3. new[i] = [elems[i] EXCEPT !.las = las]
      BY <2>1, <2>3
    <3> HIDE DEF las
    <3>4. new[i] \in Element /\ new[i].core = elems[i].core /\ new[i].las = las
      BY <1>1, <3>2, <3>3 DEF Element
    <3>5. i \in DOMAIN new
      BY DEF AddLookaheads
    <3> QED
      BY <2>3, <3>2, <3>4, <3>5
  <2> QED
    BY <2>2, <2>3
<1>5. DOMAIN new = DOMAIN elems /\ new = [i \in DOMAIN elems |-> new[i]]
  BY DEF AddLookaheads
<1>6. \A i \in DOMAIN elems : \A j \in DOMAIN others :
          others[j].core = elems[i].core => Same(i) # {} /\ Other(i) = others[j]
  BY <1>3 DEF IndexOfCore, UniqueCores
<1> HIDE DEF new, Same, Other
<1>7. new \in Seq(Element)
  <2>1. DOMAIN elems = 1 .. Len(elems) /\ Len(elems) \in Nat
    OBVIOUS
  <2>2. \A i \in DOMAIN elems : new[i] \in Element
    BY <1>4
  <2>3. new \in [1 .. Len(elems) -> Element]
    BY <1>5, <2>1, <2>2
  <2> QED
    BY <2>1, <2>3
<1>8. CoresOf(new) = CoresOf(elems)
  BY <1>4, <1>5 DEF CoresOf
<1>9. UniqueCores(elems) => UniqueCores(new)
  BY <1>4, <1>5 DEF UniqueCores
<1>10. \A es : \A x : x \in ItemsOf(es) <=> \E i \in DOMAIN es : \E la \in Range(es[i].las) : x = <<es[i].core, la>>
  BY DEF ItemsOf
<1>11. ItemsOf(elems) \subseteq ItemsOf(new)
  <2> SUFFICES ASSUME NEW x \in ItemsOf(elems) PROVE x \in ItemsOf(new)
    OBVIOUS
  <2>1. PICK i \in DOMAIN elems : \E la \in Range(elems[i].las) : x = <<elems[i].core, la>>
    BY <1>10
  <2>2. Range(elems[i].las) \subseteq Range(new[i].las) /\ new[i].core = elems[i].core
    BY <1>4
  <2> QED
    BY <1>5, <1>10, <2>1, <2>2
<1>12. ItemsOf(new) \subseteq ItemsOf(elems) \cup ItemsOf(others)
  <2> SUFFICES ASSUME NEW x \in ItemsOf(new) PROVE x \in ItemsOf(elems) \cup ItemsOf(others)
    OBVIOUS
  <2>1. PICK i \in DOMAIN elems : \E la \in Range(new[i].las) : x = <<new[i].core, la>>
    BY <1>5, <1>10
  <2>2. PICK la \in Range(new[i].las) : x = <<elems[i].core, la>>
    BY <1>4, <2>1
  <2>3. CASE la \in Range(elems[i].las)
    BY <1>10, <2>2, <2>3
  <2>4. CASE la \notin Range(elems[i].las)
    <3>1. Same(i) # {} /\ la \in Range(Other(i).las)
      BY <1>4, <2>2, <2>4
    <3>2. Other(i).core = elems[i].core /\ \E j \in DOMAIN others : Other(i) = others[j]
      BY <1>3, <3>1 DEF Other
    <3> QED
      BY <1>10, <2>2, <3>1, <3>2
  <2> QED
    BY <2>3, <2>4
<1>13. ASSUME CoresOf(others) \subseteq CoresOf(elems) PROVE ItemsOf(others) \subseteq ItemsOf(new)
  <2> SUFFICES ASSUME NEW x \in ItemsOf(others) PROVE x \in ItemsOf(new)
    OBVIOUS
  <2>1. PICK j \in DOMAIN others : \E la \in Range(others[j].las) : x = <<others[j].core, la>>
    BY <1>10
  <2>2. PICK i \in DOMAIN elems : elems[i].core = others[j].core
    BY <1>13 DEF CoresOf
  <2>3. Same(i) # {} /\ Other(i) = others[j]
    BY <1>6, <2>2
  <2>4. Range(others[j].las) \subseteq Range(new[i].las) /\ new[i].core = others[j].core
    BY <1>4, <2>2, <2>3
  <2> QED
    BY <1>5, <1>10, <2>1, <2>4
<1> QED
  BY <1>7, <1>8, <1>9, <1>11, <1>12, <1>13 DEF new

-----------------------------------------------------------------------------
\* The calls of DoTransitions: what they have still to do leads to closures
\* that are not there yet, each with its own number.
PendingTransition == [sym : Symbol, to : Nat, elems : Seq(Element)]
Frame == [from : Nat, pending : Seq(PendingTransition)]

PendingOK(s, c, g, from, p) ==
    /\ p.to < g /\ p.to \notin DOMAIN c.closures
    /\ UniqueCores(p.elems) /\ ElementsSound(s, p.elems)
    /\ Follows(CoresOf(c.closures[from].elems), p.sym, CoresOf(p.elems))

FramesOK(s, c, g, fr) ==
    /\ fr \in Seq(Frame)
    /\ \A k \in DOMAIN fr :
           /\ fr[k].from \in DOMAIN c.closures
           /\ \A i \in DOMAIN fr[k].pending : PendingOK(s, c, g, fr[k].from, fr[k].pending[i])
    /\ \A j, k \in DOMAIN fr : \A i \in DOMAIN fr[j].pending, l \in DOMAIN fr[k].pending :
           fr[j].pending[i].to = fr[k].pending[l].to => j = k /\ i = l

\* The transition of a closure is made and leads to all it implies, or a call
\* will make it.
Covered(c, o, sym) ==
    \E t \in c.m_transitions :
        /\ t[1] = o /\ t[3] = sym
        /\ ItemsOf(DoTransition(c.closures[o].elems, sym)) \subseteq ItemsOf(c.closures[t[2]].elems)

Pending(c, fr, o, sym) ==
    \E k \in DOMAIN fr :
        /\ fr[k].from = o
        /\ \E i \in DOMAIN fr[k].pending :
               /\ fr[k].pending[i].sym = sym
               /\ fr[k].pending[i].elems = DoTransition(c.closures[o].elems, sym)

AllCovered(c, fr) ==
    \A o \in DOMAIN c.closures : \A sym \in Syms(c.closures[o].elems) :
        Covered(c, o, sym) \/ Pending(c, fr, o, sym)

IdsKept(c, g) == \A o \in DOMAIN c.closures : c.closures[o].id = o /\ o < g

LRInv ==
    /\ start \in StartRules /\ mode \in Modes /\ g_id \in Nat
    /\ phase \in {"transitions", "states", "done"}
    /\ IsCollection(lr) /\ Apart(lr, ~full_lr)
    /\ ClosuresSound(start, lr) /\ TransitionsSound(lr) /\ Remembered(lr)
    /\ FramesOK(start, lr, g_id, frames) /\ AllCovered(lr, frames)
    /\ phase = "transitions" =>
           /\ IdsKept(lr, g_id)
           /\ frames # <<>>
           /\ closure_map = <<>> /\ coll = Empty
    /\ phase # "transitions" => Numbered(lr) /\ frames = <<>>

\* The conversion: the old closures up to a place have a new one, with the
\* same cores, that stands for them.
MapOK(c, map, d) ==
    /\ IsFiniteSet(DOMAIN map)
    /\ Cardinality(DOMAIN map) <= Len(c.m_collection)
    /\ DOMAIN map = {c.m_collection[i] : i \in 1 .. Cardinality(DOMAIN map)}
    /\ \A o \in DOMAIN map :
           /\ map[o] \in DOMAIN d.closures
           /\ CoresOf(d.closures[map[o]].elems) = CoresOf(c.closures[o].elems)
    /\ \A n \in DOMAIN d.closures : n \in DOMAIN map /\ map[n] = n
    /\ 0 \in DOMAIN map => 0 \in DOMAIN d.closures

UnitedOK(s, c, map, d) ==
    \A n \in DOMAIN d.closures :
        /\ d.closures[n].id = c.closures[n].id
        /\ ElementsSound(s, d.closures[n].elems)
        /\ d.closures[n].comefrom =
               UNION {c.closures[o].comefrom : o \in {p \in DOMAIN map : map[p] = n}}

ConversionInv ==
    phase = "states" =>
        /\ mode \in {"convert", "slr"}
        /\ IsCollection(coll) /\ coll.m_transitions = {} /\ Apart(coll, TRUE)
        /\ MapOK(lr, closure_map, coll) /\ UnitedOK(start, lr, closure_map, coll)

\* What CreateParseTables is called with.
ResultInv ==
    Generated =>
        /\ IsCollection(Result) /\ Numbered(Result)
        /\ ClosuresSound(start, Result) /\ TransitionsSound(Result)
        /\ Remembered(Result) /\ TransitionsMade(Result)
        /\ Conflicts(Result) \subseteq reported

CollInv == LRInv /\ ConversionInv /\ ResultInv
-----------------------------------------------------------------------------
\* A call of DoTransitions begins with a transition for every symbol, numbered
\* from the next number on.
CallOK(s, elems, call, from, g) ==
    /\ call \in Frame /\ call.from = from
    /\ \A i \in DOMAIN call.pending :
           LET p == call.pending[i]
           IN  /\ p.to >= g /\ p.to < g + Len(call.pending)
               /\ UniqueCores(p.elems) /\ ElementsSound(s, p.elems)
               /\ Follows(CoresOf(elems), p.sym, CoresOf(p.elems))
    /\ \A i, l \in DOMAIN call.pending : call.pending[i].to = call.pending[l].to => i = l
    /\ \A sym \in Syms(elems) : \E i \in DOMAIN call.pending :
           /\ call.pending[i].sym = sym
           /\ call.pending[i].elems = DoTransition(elems, sym)

LEMMA CallBegins ==
    ASSUME LocalClosureCorrect, NEW s \in StartRules, NEW elems \in Seq(Element),
           ElementsSound(s, elems), NEW from \in Nat, NEW g \in Nat
    PROVE  CallOK(s, elems, DoTransitionsOf(from, elems, g), from, g)
<1> DEFINE syms == GetPossibleTransitions(elems)
           P(k) == [sym |-> syms[k], to |-> g + k - 1, elems |-> DoTransition(elems, syms[k])]
           pending == [k \in DOMAIN syms |-> P(k)]
           call == [from |-> from, pending |-> pending]
<1>1. call = DoTransitionsOf(from, elems, g)
  BY DEF DoTransitionsOf
<1>2. syms \in Seq(Symbol) /\ Range(syms) = Syms(elems)
  BY SymsType
<1> HIDE DEF syms
<1>3. DOMAIN syms = 1 .. Len(syms) /\ Len(syms) \in Nat /\ \A k \in DOMAIN syms : syms[k] \in Symbol
  BY <1>2
<1>4. \A k \in DOMAIN syms : syms[k] \in Syms(elems)
  BY <1>2 DEF Range
<1>5. \A sym \in Syms(elems) : \E k \in DOMAIN syms : syms[k] = sym
  BY <1>2 DEF Range
<1>6. \A k \in DOMAIN syms :
          LET new == DoTransition(elems, syms[k])
          IN  /\ new \in Seq(Element) /\ UniqueCores(new)
              /\ Follows(CoresOf(elems), syms[k], CoresOf(new)) /\ ElementsSound(s, new)
  BY <1>4, TransitionMoves
<1>7. \A k \in DOMAIN syms : /\ P(k).sym = syms[k] /\ P(k).to = g + k - 1
                             /\ P(k).elems = DoTransition(elems, syms[k])
                             /\ P(k) \in PendingTransition
  BY <1>3, <1>6 DEF PendingTransition
<1> HIDE DEF P
<1>8. /\ DOMAIN pending = DOMAIN syms /\ \A k \in DOMAIN syms : pending[k] = P(k)
      /\ pending \in Seq(PendingTransition) /\ Len(pending) = Len(syms)
  <2>1. pending \in [1 .. Len(syms) -> PendingTransition]
    BY <1>3, <1>7
  <2> QED
    BY <1>3, <2>1
<1> HIDE DEF pending
<1>9. call \in Frame /\ call.from = from /\ call.pending = pending
  BY <1>8 DEF Frame
<1> HIDE DEF call
<1>10. \A i \in DOMAIN pending :
          /\ pending[i].to >= g /\ pending[i].to < g + Len(pending)
          /\ UniqueCores(pending[i].elems) /\ ElementsSound(s, pending[i].elems)
          /\ Follows(CoresOf(elems), pending[i].sym, CoresOf(pending[i].elems))
  BY <1>3, <1>6, <1>7, <1>8
<1>11. \A i, l \in DOMAIN pending : pending[i].to = pending[l].to => i = l
  BY <1>3, <1>7, <1>8
<1>12. \A sym \in Syms(elems) : \E i \in DOMAIN pending :
           pending[i].sym = sym /\ pending[i].elems = DoTransition(elems, sym)
  <2> TAKE sym \in Syms(elems)
  <2>1. PICK k \in DOMAIN syms : syms[k] = sym
    BY <1>5
  <2> QED
    BY <1>7, <1>8, <2>1
<1>13. CallOK(s, elems, call, from, g)
  BY <1>9, <1>10, <1>11, <1>12 DEF CallOK
<1> QED
  BY <1>1, <1>13

\* The calls without the first transition of the last one.
Resumed(fr) ==
    [fr EXCEPT ![Len(fr)] = [from |-> fr[Len(fr)].from, pending |-> Tail(fr[Len(fr)].pending)]]

LEMMA ResumedFrames ==
    ASSUME NEW fr \in Seq(Frame), fr # <<>>, fr[Len(fr)].pending # <<>>
    PROVE  /\ Resumed(fr) \in Seq(Frame) /\ DOMAIN Resumed(fr) = DOMAIN fr /\ Resumed(fr) # <<>>
           /\ Len(fr) \in DOMAIN fr /\ 1 \in DOMAIN fr[Len(fr)].pending
           /\ fr[Len(fr)].from \in Nat
           /\ Head(fr[Len(fr)].pending) = fr[Len(fr)].pending[1]
           /\ fr[Len(fr)].pending[1] \in PendingTransition
           /\ \A k \in DOMAIN fr : Resumed(fr)[k].from = fr[k].from
           /\ \A k \in DOMAIN fr : k # Len(fr) => Resumed(fr)[k] = fr[k]
           /\ DOMAIN Resumed(fr)[Len(fr)].pending = 1 .. Len(fr[Len(fr)].pending) - 1
           /\ \A i \in DOMAIN Resumed(fr)[Len(fr)].pending :
                  /\ i + 1 \in DOMAIN fr[Len(fr)].pending
                  /\ Resumed(fr)[Len(fr)].pending[i] = fr[Len(fr)].pending[i + 1]
           /\ \A i \in DOMAIN fr[Len(fr)].pending : i # 1 =>
                  /\ i - 1 \in DOMAIN Resumed(fr)[Len(fr)].pending
                  /\ Resumed(fr)[Len(fr)].pending[i - 1] = fr[Len(fr)].pending[i]
<1> DEFINE n == Len(fr)
           pending == fr[n].pending
           f == [from |-> fr[n].from, pending |-> Tail(pending)]
<1>1. n \in DOMAIN fr /\ n \in Nat /\ DOMAIN fr = 1 .. n /\ fr[n] \in Frame
  BY EmptySeq
<1>2. pending \in Seq(PendingTransition) /\ fr[n].from \in Nat
  BY <1>1 DEF Frame
<1> HIDE DEF pending
<1>3. /\ Len(pending) \in Nat /\ Len(pending) >= 1 /\ DOMAIN pending = 1 .. Len(pending)
      /\ Head(pending) = pending[1] /\ pending[1] \in PendingTransition
      /\ Tail(pending) \in Seq(PendingTransition) /\ DOMAIN Tail(pending) = 1 .. Len(pending) - 1
      /\ \A i \in 1 .. Len(pending) - 1 : Tail(pending)[i] = pending[i + 1]
  <2>1. pending # <<>>
    BY DEF pending
  <2> QED
    BY <1>2, <2>1
<1>4. f \in Frame /\ f.from = fr[n].from /\ f.pending = Tail(pending)
  BY <1>2, <1>3 DEF Frame
<1>5. Resumed(fr) = [fr EXCEPT ![n] = f]
  BY DEF Resumed, pending
<1> HIDE DEF f, n
<1>6. /\ DOMAIN Resumed(fr) = DOMAIN fr /\ Resumed(fr)[n] = f
      /\ \A k \in DOMAIN fr : k # n => Resumed(fr)[k] = fr[k]
      /\ Resumed(fr) \in Seq(Frame) /\ Resumed(fr) # <<>>
  <2>1. DOMAIN Resumed(fr) = DOMAIN fr
    BY <1>5
  <2>2. Resumed(fr)[n] = f /\ \A k \in DOMAIN fr : k # n => Resumed(fr)[k] = fr[k]
    BY <1>1, <1>5
  <2>3. Resumed(fr) \in [1 .. n -> Frame]
    BY <1>1, <1>4, <1>5
  <2>4. Resumed(fr) \in Seq(Frame)
    BY <1>1, <2>3
  <2>5. Resumed(fr) # <<>>
    BY <1>1, <2>1, EmptySeq
  <2> QED
    BY <2>1, <2>2, <2>4, <2>5
<1>7. \A i \in 1 .. Len(pending) - 1 : i + 1 \in 1 .. Len(pending)
  BY <1>3
<1>8. \A i \in 1 .. Len(pending) : i # 1 => i - 1 \in 1 .. Len(pending) - 1 /\ i - 1 + 1 = i
  BY <1>3
<1>9. 1 \in 1 .. Len(pending)
  BY <1>3
<1>10. /\ Resumed(fr)[n].from = fr[n].from
       /\ DOMAIN Resumed(fr)[n].pending = 1 .. Len(pending) - 1
       /\ \A i \in 1 .. Len(pending) - 1 : Resumed(fr)[n].pending[i] = pending[i + 1]
  BY <1>3, <1>4, <1>6
<1>11. /\ \A i \in DOMAIN Resumed(fr)[n].pending :
              /\ i + 1 \in DOMAIN pending
              /\ Resumed(fr)[n].pending[i] = pending[i + 1]
       /\ \A i \in DOMAIN pending : i # 1 =>
              /\ i - 1 \in DOMAIN Resumed(fr)[n].pending
              /\ Resumed(fr)[n].pending[i - 1] = pending[i]
  BY <1>3, <1>7, <1>8, <1>10
<1> QED
  BY <1>1, <1>2, <1>3, <1>6, <1>9, <1>10, <1>11 DEF n, pending

LEMMA ResumedOK ==
    ASSUME NEW s, NEW c, NEW g, NEW fr, FramesOK(s, c, g, fr),
           fr # <<>>, fr[Len(fr)].pending # <<>>
    PROVE  /\ FramesOK(s, c, g, Resumed(fr))
           /\ \A k \in DOMAIN Resumed(fr) : \A i \in DOMAIN Resumed(fr)[k].pending :
                  Resumed(fr)[k].pending[i].to # fr[Len(fr)].pending[1].to
<1> DEFINE n == Len(fr)
           new == Resumed(fr)
           Old(k, i) == IF k = n THEN i + 1 ELSE i
<1>1. fr \in Seq(Frame)
  BY DEF FramesOK
<1>2. /\ new \in Seq(Frame) /\ DOMAIN new = DOMAIN fr /\ n \in DOMAIN fr /\ 1 \in DOMAIN fr[n].pending
      /\ \A k \in DOMAIN fr : new[k].from = fr[k].from
  BY <1>1, ResumedFrames
<1>3. \A k \in DOMAIN fr : \A i \in DOMAIN new[k].pending :
          /\ Old(k, i) \in DOMAIN fr[k].pending
          /\ new[k].pending[i] = fr[k].pending[Old(k, i)]
          /\ ~(k = n /\ Old(k, i) = 1) /\ i \in Int
  <2> SUFFICES ASSUME NEW k \in DOMAIN fr, NEW i \in DOMAIN new[k].pending
               PROVE  /\ Old(k, i) \in DOMAIN fr[k].pending
                      /\ new[k].pending[i] = fr[k].pending[Old(k, i)]
                      /\ ~(k = n /\ Old(k, i) = 1) /\ i \in Int
    OBVIOUS
  <2>0. new[k] \in Frame
    BY <1>2
  <2>1. i \in Int /\ i >= 1
    BY <2>0 DEF Frame
  <2>2. CASE k = n
    <3>1. /\ i + 1 \in DOMAIN fr[n].pending
          /\ new[n].pending[i] = fr[n].pending[i + 1]
      BY <1>1, <2>2, ResumedFrames
    <3> QED
      BY <2>1, <2>2, <3>1
  <2>3. CASE k # n
    <3>1. new[k] = fr[k]
      BY <1>1, <2>3, ResumedFrames
    <3> QED
      BY <2>1, <2>3, <3>1
  <2> QED
    BY <2>2, <2>3
<1>4. /\ \A k \in DOMAIN fr :
             /\ fr[k].from \in DOMAIN c.closures
             /\ \A i \in DOMAIN fr[k].pending : PendingOK(s, c, g, fr[k].from, fr[k].pending[i])
      /\ \A j, k \in DOMAIN fr : \A i \in DOMAIN fr[j].pending, l \in DOMAIN fr[k].pending :
             fr[j].pending[i].to = fr[k].pending[l].to => j = k /\ i = l
  BY DEF FramesOK
<1>5. \A k, i, l : i \in Int /\ l \in Int /\ Old(k, i) = Old(k, l) => i = l
  OBVIOUS
<1> HIDE DEF new, n, Old
<1>6. \A k \in DOMAIN new :
          /\ new[k].from \in DOMAIN c.closures
          /\ \A i \in DOMAIN new[k].pending : PendingOK(s, c, g, new[k].from, new[k].pending[i])
  BY <1>2, <1>3, <1>4
<1>7. ASSUME NEW j \in DOMAIN new, NEW k \in DOMAIN new,
             NEW i \in DOMAIN new[j].pending, NEW l \in DOMAIN new[k].pending,
             new[j].pending[i].to = new[k].pending[l].to
      PROVE  j = k /\ i = l
  <2>1. /\ Old(j, i) \in DOMAIN fr[j].pending /\ new[j].pending[i] = fr[j].pending[Old(j, i)]
        /\ Old(k, l) \in DOMAIN fr[k].pending /\ new[k].pending[l] = fr[k].pending[Old(k, l)]
        /\ i \in Int /\ l \in Int /\ j \in DOMAIN fr /\ k \in DOMAIN fr
    BY <1>2, <1>3
  <2>2. j = k /\ Old(j, i) = Old(k, l)
    BY <1>4, <1>7, <2>1
  <2> QED
    BY <1>5, <2>1, <2>2
<1>8. ASSUME NEW k \in DOMAIN new, NEW i \in DOMAIN new[k].pending,
             new[k].pending[i].to = fr[n].pending[1].to
      PROVE  FALSE
  <2>1. /\ Old(k, i) \in DOMAIN fr[k].pending /\ new[k].pending[i] = fr[k].pending[Old(k, i)]
        /\ ~(k = n /\ Old(k, i) = 1) /\ k \in DOMAIN fr
    BY <1>2, <1>3
  <2>2. k = n /\ Old(k, i) = 1
    BY <1>2, <1>4, <1>8, <2>1
  <2> QED
    BY <2>1, <2>2
<1>9. FramesOK(s, c, g, new)
  BY <1>2, <1>6, <1>7 DEF FramesOK
<1> QED
  BY <1>8, <1>9 DEF new, n

\* Closures keep their cores.
CoresKept(c, d) ==
    \A o \in DOMAIN c.closures :
        o \in DOMAIN d.closures /\ CoresOf(d.closures[o].elems) = CoresOf(c.closures[o].elems)

LEMMA FramesMoved ==
    ASSUME NEW s, NEW c, NEW d, NEW g, NEW fr, FramesOK(s, c, g, fr), CoresKept(c, d),
           \A k \in DOMAIN fr : \A i \in DOMAIN fr[k].pending :
               fr[k].pending[i].to \notin DOMAIN d.closures
    PROVE  FramesOK(s, d, g, fr)
<1>1. \A k \in DOMAIN fr :
          /\ fr[k].from \in DOMAIN c.closures
          /\ \A i \in DOMAIN fr[k].pending : PendingOK(s, c, g, fr[k].from, fr[k].pending[i])
  BY DEF FramesOK
<1>2. ASSUME NEW k \in DOMAIN fr, NEW i \in DOMAIN fr[k].pending
      PROVE  PendingOK(s, d, g, fr[k].from, fr[k].pending[i])
  BY <1>1 DEF PendingOK, CoresKept
<1>3. \A k \in DOMAIN fr : fr[k].from \in DOMAIN d.closures
  BY <1>1 DEF CoresKept
<1> QED
  BY <1>2, <1>3 DEF FramesOK

LEMMA Pushed ==
    ASSUME NEW fr \in Seq(Frame), NEW f \in Frame
    PROVE  /\ Append(fr, f) \in Seq(Frame) /\ Append(fr, f) # <<>>
           /\ Len(fr) + 1 \in DOMAIN Append(fr, f) /\ Append(fr, f)[Len(fr) + 1] = f
           /\ \A k \in DOMAIN fr : k \in DOMAIN Append(fr, f) /\ Append(fr, f)[k] = fr[k]
           /\ \A k \in DOMAIN Append(fr, f) :
                  \/ k \in DOMAIN fr /\ Append(fr, f)[k] = fr[k] /\ k # Len(fr) + 1
                  \/ k = Len(fr) + 1 /\ Append(fr, f)[k] = f /\ k \notin DOMAIN fr
OBVIOUS

LEMMA FramesPushed ==
    ASSUME NEW s, NEW c, NEW g \in Nat, NEW fr, FramesOK(s, c, g, fr),
           NEW elems, NEW call, NEW from \in DOMAIN c.closures, CallOK(s, elems, call, from, g),
           CoresOf(elems) = CoresOf(c.closures[from].elems),
           \A o \in DOMAIN c.closures : o < g
    PROVE  FramesOK(s, c, g + Len(call.pending), Append(fr, call))
<1> DEFINE new == Append(fr, call)
           n == Len(fr) + 1
           h == g + Len(call.pending)
<1>1. fr \in Seq(Frame) /\ call \in Frame /\ call.from = from
  BY DEF FramesOK, CallOK
<1>2. /\ new \in Seq(Frame) /\ n \in DOMAIN new /\ new[n] = call
      /\ \A k \in DOMAIN new : k # n => k \in DOMAIN fr /\ new[k] = fr[k]
  BY <1>1, Pushed
<1>3. Len(call.pending) \in Nat /\ g <= h
  BY <1>1 DEF Frame
<1>4. \A k \in DOMAIN fr : fr[k] \in Frame
  BY <1>1
<1>5. ASSUME NEW f \in Frame, NEW i \in DOMAIN f.pending PROVE f.pending[i].to \in Nat
  <2>1. f.pending \in Seq(PendingTransition)
    BY DEF Frame
  <2>2. f.pending[i] \in PendingTransition
    BY <2>1
  <2> QED
    BY <2>2 DEF PendingTransition
<1>6. /\ \A k \in DOMAIN fr :
             /\ fr[k].from \in DOMAIN c.closures
             /\ \A i \in DOMAIN fr[k].pending : PendingOK(s, c, g, fr[k].from, fr[k].pending[i])
      /\ \A j, k \in DOMAIN fr : \A i \in DOMAIN fr[j].pending, l \in DOMAIN fr[k].pending :
             fr[j].pending[i].to = fr[k].pending[l].to => j = k /\ i = l
  BY DEF FramesOK
<1>7. \A i \in DOMAIN call.pending :
           /\ call.pending[i].to >= g /\ call.pending[i].to < h
           /\ UniqueCores(call.pending[i].elems) /\ ElementsSound(s, call.pending[i].elems)
           /\ Follows(CoresOf(elems), call.pending[i].sym, CoresOf(call.pending[i].elems))
  BY DEF CallOK
<1>8. \A i, l \in DOMAIN call.pending : call.pending[i].to = call.pending[l].to => i = l
  BY DEF CallOK
<1> HIDE DEF new, n, h
<1>9. ASSUME NEW i \in DOMAIN call.pending PROVE PendingOK(s, c, h, from, call.pending[i])
  <2>1. call.pending[i].to \notin DOMAIN c.closures
    <3> SUFFICES ASSUME call.pending[i].to \in DOMAIN c.closures PROVE FALSE
      OBVIOUS
    <3>1. call.pending[i].to < g /\ call.pending[i].to >= g /\ call.pending[i].to \in Nat
      BY <1>1, <1>5, <1>7
    <3> QED
      BY <3>1
  <2> QED
    BY <1>7, <2>1 DEF PendingOK
<1>10. ASSUME NEW k \in DOMAIN fr, NEW i \in DOMAIN fr[k].pending
       PROVE  PendingOK(s, c, h, fr[k].from, fr[k].pending[i]) /\ fr[k].pending[i].to < g
  <2>1. PendingOK(s, c, g, fr[k].from, fr[k].pending[i]) /\ fr[k].pending[i].to \in Nat
    BY <1>4, <1>5, <1>6
  <2>2. fr[k].pending[i].to < g
    BY <2>1 DEF PendingOK
  <2>3. fr[k].pending[i].to < h
    BY <1>3, <2>1, <2>2 DEF h
  <2> QED
    BY <2>1, <2>2, <2>3 DEF PendingOK
<1>11. \A k \in DOMAIN new :
           /\ new[k].from \in DOMAIN c.closures
           /\ \A i \in DOMAIN new[k].pending : PendingOK(s, c, h, new[k].from, new[k].pending[i])
  BY <1>1, <1>2, <1>6, <1>9, <1>10
<1>12. ASSUME NEW k \in DOMAIN fr, NEW i \in DOMAIN fr[k].pending, NEW l \in DOMAIN call.pending
       PROVE  fr[k].pending[i].to # call.pending[l].to
  <2>1. fr[k].pending[i].to < g /\ call.pending[l].to >= g
    BY <1>7, <1>10
  <2>2. fr[k].pending[i].to \in Nat /\ call.pending[l].to \in Nat
    BY <1>1, <1>4, <1>5
  <2> QED
    BY <2>1, <2>2
<1>13. ASSUME NEW j \in DOMAIN new, NEW k \in DOMAIN new,
              NEW i \in DOMAIN new[j].pending, NEW l \in DOMAIN new[k].pending,
              new[j].pending[i].to = new[k].pending[l].to
       PROVE  j = k /\ i = l
  <2>1. CASE j = n /\ k = n
    BY <1>2, <1>8, <1>13, <2>1
  <2>2. CASE j # n /\ k # n
    BY <1>2, <1>6, <1>13, <2>2
  <2>3. CASE j = n /\ k # n
    BY <1>2, <1>12, <1>13, <2>3
  <2>4. CASE j # n /\ k = n
    BY <1>2, <1>12, <1>13, <2>4
  <2> QED
    BY <2>1, <2>2, <2>3, <2>4
<1> QED
  BY <1>2, <1>11, <1>13 DEF FramesOK, new, h

LEMMA Popped ==
    ASSUME NEW fr \in Seq(Frame), Len(fr) > 1
    PROVE  LET new == SubSeq(fr, 1, Len(fr) - 1)
           IN  /\ new \in Seq(Frame) /\ new # <<>> /\ DOMAIN new = 1 .. Len(fr) - 1
               /\ \A k \in DOMAIN new : k \in DOMAIN fr /\ new[k] = fr[k]
               /\ \A k \in DOMAIN fr : k \in DOMAIN new \/ k = Len(fr)
<1> DEFINE n == Len(fr)
           new == SubSeq(fr, 1, n - 1)
<1>1. n \in Nat /\ n > 1 /\ DOMAIN fr = 1 .. n
  OBVIOUS
<1>2. new \in Seq(Frame) /\ Len(new) = n - 1 /\ \A k \in 1 .. n - 1 : new[k] = fr[k]
  BY <1>1
<1> HIDE DEF new, n
<1>3. DOMAIN new = 1 .. n - 1
  BY <1>2
<1>4. new # <<>>
  BY <1>1, <1>2
<1>5. \A k \in 1 .. n : k \in 1 .. n - 1 \/ k = n
  BY <1>1
<1>6. \A k \in 1 .. n - 1 : k \in 1 .. n
  BY <1>1
<1> QED
  BY <1>1, <1>2, <1>3, <1>4, <1>5, <1>6 DEF new, n

LEMMA FramesPopped ==
    ASSUME NEW s, NEW c, NEW g, NEW fr, FramesOK(s, c, g, fr), Len(fr) > 1
    PROVE  FramesOK(s, c, g, SubSeq(fr, 1, Len(fr) - 1))
<1> DEFINE new == SubSeq(fr, 1, Len(fr) - 1)
<1>1. new \in Seq(Frame) /\ \A k \in DOMAIN new : k \in DOMAIN fr /\ new[k] = fr[k]
  BY Popped DEF FramesOK
<1> HIDE DEF new
<1>2. FramesOK(s, c, g, new)
  BY <1>1 DEF FramesOK
<1> QED
  BY <1>2 DEF new

-----------------------------------------------------------------------------
\* Collection d is c after closure n, which holds elems, was reached from f.
Reaches(c, d, f, sym, n, elems) ==
    /\ d.m_collection \in Seq(Nat)
    /\ \A i, j \in DOMAIN d.m_collection : d.m_collection[i] = d.m_collection[j] => i = j
    /\ Range(d.m_collection) = DOMAIN d.closures
    /\ DOMAIN d.closures = DOMAIN c.closures \cup {n}
    /\ \A o \in DOMAIN c.closures : o # n => d.closures[o] = c.closures[o]
    /\ d.closures[n] =
           [id |-> n, elems |-> elems,
            comefrom |-> (IF n \in DOMAIN c.closures THEN c.closures[n].comefrom ELSE {})
                             \cup {<<sym, f>>}]
    /\ d.m_transitions = c.m_transitions \cup {<<f, n, sym>>}
    /\ n \in DOMAIN c.closures =>
           /\ CoresOf(elems) = CoresOf(c.closures[n].elems)
           /\ ItemsOf(c.closures[n].elems) \subseteq ItemsOf(elems)

LEMMA ReachesCores ==
    ASSUME NEW c, NEW d, NEW f, NEW sym, NEW n, NEW elems, Reaches(c, d, f, sym, n, elems)
    PROVE  /\ CoresKept(c, d) /\ n \in DOMAIN d.closures
           /\ d.closures[n].elems = elems /\ d.closures[n].id = n
           /\ \A o \in DOMAIN c.closures :
                  ItemsOf(c.closures[o].elems) \subseteq ItemsOf(d.closures[o].elems)
           /\ \A o \in DOMAIN d.closures : o # n => o \in DOMAIN c.closures /\ d.closures[o] = c.closures[o]
<1>1. d.closures[n].elems = elems /\ d.closures[n].id = n /\ n \in DOMAIN d.closures
  BY DEF Reaches
<1>2. \A o \in DOMAIN d.closures : o # n => o \in DOMAIN c.closures /\ d.closures[o] = c.closures[o]
  BY DEF Reaches
<1>3. ASSUME NEW o \in DOMAIN c.closures
      PROVE  /\ o \in DOMAIN d.closures
             /\ CoresOf(d.closures[o].elems) = CoresOf(c.closures[o].elems)
             /\ ItemsOf(c.closures[o].elems) \subseteq ItemsOf(d.closures[o].elems)
  BY <1>1 DEF Reaches
<1> QED
  BY <1>1, <1>2, <1>3 DEF CoresKept

LEMMA ReachesCollection ==
    ASSUME NEW c, NEW d, NEW f \in DOMAIN c.closures, NEW sym \in Symbol, NEW n \in Nat,
           NEW elems \in Seq(Element), UniqueCores(elems), Reaches(c, d, f, sym, n, elems),
           IsCollection(c), NEW g, IdsKept(c, g), n < g
    PROVE  IsCollection(d) /\ IdsKept(d, g)
<1>1. /\ \A o \in DOMAIN c.closures :
             c.closures[o] \in ClosureObject /\ UniqueCores(c.closures[o].elems)
      /\ c.m_transitions \subseteq (DOMAIN c.closures) \X (DOMAIN c.closures) \X Symbol
      /\ DOMAIN c.closures \subseteq Nat
  BY DEF IsCollection, Range
<1> DEFINE old == IF n \in DOMAIN c.closures THEN c.closures[n].comefrom ELSE {}
<1>2. old \subseteq Symbol \X Nat
  BY <1>1 DEF ClosureObject
<1>3. d.closures[n] = [id |-> n, elems |-> elems, comefrom |-> old \cup {<<sym, f>>}]
  BY DEF Reaches
<1> HIDE DEF old
<1>4. d.closures[n] \in ClosureObject /\ UniqueCores(d.closures[n].elems) /\ d.closures[n].id = n
  BY <1>1, <1>2, <1>3 DEF ClosureObject
<1>5. /\ \A o \in DOMAIN d.closures : o # n => o \in DOMAIN c.closures /\ d.closures[o] = c.closures[o]
      /\ DOMAIN d.closures = DOMAIN c.closures \cup {n}
  BY ReachesCores DEF Reaches
<1>6. \A o \in DOMAIN d.closures : d.closures[o] \in ClosureObject /\ UniqueCores(d.closures[o].elems)
  BY <1>1, <1>4, <1>5
<1>7. IdsKept(d, g)
  BY <1>4, <1>5 DEF IdsKept
<1>8. \A o, p \in DOMAIN d.closures : d.closures[o].id = d.closures[p].id => o = p
  BY <1>7 DEF IdsKept
<1>9. d.m_transitions \subseteq (DOMAIN d.closures) \X (DOMAIN d.closures) \X Symbol
  <2>1. d.m_transitions = c.m_transitions \cup {<<f, n, sym>>}
    BY DEF Reaches
  <2>2. <<f, n, sym>> \in (DOMAIN d.closures) \X (DOMAIN d.closures) \X Symbol
    BY <1>5
  <2>3. c.m_transitions \subseteq (DOMAIN d.closures) \X (DOMAIN d.closures) \X Symbol
    BY <1>1, <1>5
  <2> QED
    BY <2>1, <2>2, <2>3
<1>10. /\ d.m_collection \in Seq(Nat)
       /\ \A i, j \in DOMAIN d.m_collection : d.m_collection[i] = d.m_collection[j] => i = j
       /\ Range(d.m_collection) = DOMAIN d.closures
  BY DEF Reaches
<1> QED
  BY <1>6, <1>7, <1>8, <1>9, <1>10 DEF IsCollection

LEMMA ReachesSound ==
    ASSUME NEW s, NEW c, NEW d, NEW f \in DOMAIN c.closures, NEW sym, NEW n, NEW elems,
           Reaches(c, d, f, sym, n, elems), ClosuresSound(s, c), TransitionsSound(c),
           c.m_transitions \subseteq (DOMAIN c.closures) \X (DOMAIN c.closures) \X Symbol,
           ElementsSound(s, elems), Follows(CoresOf(c.closures[f].elems), sym, CoresOf(elems))
    PROVE  ClosuresSound(s, d) /\ TransitionsSound(d)
<1>1. /\ CoresKept(c, d) /\ n \in DOMAIN d.closures /\ d.closures[n].elems = elems
      /\ \A o \in DOMAIN d.closures : o # n => o \in DOMAIN c.closures /\ d.closures[o] = c.closures[o]
  BY ReachesCores
<1>2. 0 \in DOMAIN d.closures /\ CoresOf(d.closures[0].elems) = CoresOf(c.closures[0].elems)
  BY <1>1 DEF ClosuresSound, CoresKept
<1>3. \A o \in DOMAIN d.closures : ElementsSound(s, d.closures[o].elems)
  BY <1>1 DEF ClosuresSound
<1>4. ClosuresSound(s, d)
  <2>1. AllCalledFor(CoresOf(elems))
    BY DEF Follows
  <2>2. \A o \in DOMAIN d.closures \ {0} : AllCalledFor(CoresOf(d.closures[o].elems))
    BY <1>1, <2>1 DEF ClosuresSound
  <2>3. \A core \in CoresOf(d.closures[0].elems) : core[2] = 0
    BY <1>2 DEF ClosuresSound
  <2> QED
    BY <1>2, <1>3, <2>2, <2>3 DEF ClosuresSound
<1>5. ASSUME NEW t \in d.m_transitions
      PROVE  Follows(CoresOf(d.closures[t[1]].elems), t[3], CoresOf(d.closures[t[2]].elems))
  <2>1. CASE t \in c.m_transitions
    <3>1. t[1] \in DOMAIN c.closures /\ t[2] \in DOMAIN c.closures
      BY <2>1
    <3> QED
      BY <1>1, <2>1, <3>1 DEF TransitionsSound, CoresKept
  <2>2. CASE t = <<f, n, sym>>
    <3>1. t[1] = f /\ t[2] = n /\ t[3] = sym
      BY <2>2
    <3> QED
      BY <1>1, <3>1 DEF CoresKept
  <2> QED
    BY <2>1, <2>2 DEF Reaches
<1> QED
  BY <1>4, <1>5 DEF TransitionsSound

LEMMA ReachesRemembered ==
    ASSUME NEW c, NEW d, NEW f, NEW sym, NEW n, NEW elems,
           Reaches(c, d, f, sym, n, elems), Remembered(c),
           c.m_transitions \subseteq (DOMAIN c.closures) \X (DOMAIN c.closures) \X Symbol
    PROVE  Remembered(d)
<1> DEFINE Into(e, o) == {<<t[3], t[1]>> : t \in {u \in e.m_transitions : u[2] = o}}
<1>1. d.m_transitions = c.m_transitions \cup {<<f, n, sym>>}
  BY DEF Reaches
<1>2. \A o : o # n => Into(d, o) = Into(c, o)
  BY <1>1
<1>3. Into(d, n) = Into(c, n) \cup {<<sym, f>>}
  <2>1. \A t : t \in {u \in d.m_transitions : u[2] = n} <=>
                 t \in {u \in c.m_transitions : u[2] = n} \/ t = <<f, n, sym>>
    BY <1>1
  <2>2. \A x : x \in Into(d, n) <=> \E t \in {u \in d.m_transitions : u[2] = n} : x = <<t[3], t[1]>>
    OBVIOUS
  <2>3. \A x : x \in Into(c, n) <=> \E t \in {u \in c.m_transitions : u[2] = n} : x = <<t[3], t[1]>>
    OBVIOUS
  <2>4. \A t : t = <<f, n, sym>> => <<t[3], t[1]>> = <<sym, f>>
    OBVIOUS
  <2> HIDE DEF Into
  <2>5. \A x : x \in Into(d, n) <=> x \in Into(c, n) \/ x = <<sym, f>>
    BY <2>1, <2>2, <2>3, <2>4
  <2> QED
    BY <2>5
<1>4. n \notin DOMAIN c.closures => Into(c, n) = {}
  <2>1. \A t \in c.m_transitions : t[2] \in DOMAIN c.closures
    OBVIOUS
  <2> QED
    BY <2>1
<1>5. \A o \in DOMAIN c.closures : c.closures[o].comefrom = Into(c, o)
  BY DEF Remembered
<1> HIDE DEF Into
<1>6. d.closures[n].comefrom =
          (IF n \in DOMAIN c.closures THEN c.closures[n].comefrom ELSE {}) \cup {<<sym, f>>}
  BY DEF Reaches
<1>7. d.closures[n].comefrom = Into(d, n)
  BY <1>3, <1>4, <1>5, <1>6
<1>8. \A o \in DOMAIN d.closures : o # n => d.closures[o].comefrom = Into(d, o)
  BY <1>2, <1>5, ReachesCores
<1>9. \A o \in DOMAIN d.closures : d.closures[o].comefrom = Into(d, o)
  BY <1>7, <1>8
<1> QED
  BY <1>9 DEF Remembered, Into

LEMMA ReachesApart ==
    ASSUME NEW c, NEW d, NEW f, NEW sym, NEW n, NEW elems, NEW only_core,
           Reaches(c, d, f, sym, n, elems), Apart(c, only_core),
           \A o \in DOMAIN c.closures :
               o # n => hash(c.closures[o].elems, only_core) # hash(elems, only_core)
    PROVE  Apart(d, only_core)
<1>1. /\ d.closures[n].elems = elems
      /\ \A o \in DOMAIN d.closures : o # n => o \in DOMAIN c.closures /\ d.closures[o] = c.closures[o]
  BY ReachesCores
<1> QED
  BY <1>1 DEF Apart

\* The frames after a transition has been taken from the last call.
LEMMA ReachesFrames ==
    ASSUME NEW s, NEW c, NEW d, NEW g, NEW fr, FramesOK(s, c, g, fr),
           fr # <<>>, fr[Len(fr)].pending # <<>>,
           NEW f, NEW sym, NEW n, NEW elems, Reaches(c, d, f, sym, n, elems),
           n \in DOMAIN c.closures \/ n = fr[Len(fr)].pending[1].to
    PROVE  FramesOK(s, d, g, Resumed(fr))
<1>1. /\ FramesOK(s, c, g, Resumed(fr))
      /\ \A k \in DOMAIN Resumed(fr) : \A i \in DOMAIN Resumed(fr)[k].pending :
             Resumed(fr)[k].pending[i].to # fr[Len(fr)].pending[1].to
  BY ResumedOK
<1>2. CoresKept(c, d) /\ DOMAIN d.closures = DOMAIN c.closures \cup {n}
  <2>1. CoresKept(c, d)
    BY ReachesCores
  <2>2. DOMAIN d.closures = DOMAIN c.closures \cup {n}
    BY DEF Reaches
  <2> QED
    BY <2>1, <2>2
<1> DEFINE new == Resumed(fr)
<1> HIDE DEF new
<1>3. ASSUME NEW k \in DOMAIN new, NEW i \in DOMAIN new[k].pending
      PROVE  new[k].pending[i].to \notin DOMAIN d.closures
  <2>1. new[k].pending[i].to \notin DOMAIN c.closures
    BY <1>1, <1>3 DEF FramesOK, PendingOK, new
  <2> QED
    BY <1>1, <1>2, <1>3, <2>1 DEF new
<1>4. FramesOK(s, d, g, new)
  BY <1>1, <1>2, <1>3, FramesMoved DEF new
<1> QED
  BY <1>4 DEF new

LEMMA CoverageKept ==
    ASSUME NEW c, NEW d, NEW fr \in Seq(Frame), fr # <<>>, fr[Len(fr)].pending # <<>>,
           NEW sym, NEW n, NEW elems, Reaches(c, d, fr[Len(fr)].from, sym, n, elems),
           sym = fr[Len(fr)].pending[1].sym,
           ItemsOf(fr[Len(fr)].pending[1].elems) \subseteq ItemsOf(elems),
           AllCovered(c, fr),
           c.m_transitions \subseteq (DOMAIN c.closures) \X (DOMAIN c.closures) \X Symbol,
           NEW o \in DOMAIN c.closures, d.closures[o].elems = c.closures[o].elems,
           NEW X \in Syms(c.closures[o].elems)
    PROVE  Covered(d, o, X) \/ Pending(d, Resumed(fr), o, X)
<1> DEFINE implied == ItemsOf(DoTransition(c.closures[o].elems, X))
           last == Len(fr)
<1>1. /\ d.m_transitions = c.m_transitions \cup {<<fr[last].from, n, sym>>}
      /\ d.closures[n].elems = elems
      /\ \A p \in DOMAIN c.closures :
             ItemsOf(c.closures[p].elems) \subseteq ItemsOf(d.closures[p].elems)
  <2>1. d.m_transitions = c.m_transitions \cup {<<fr[last].from, n, sym>>}
    BY DEF Reaches
  <2>2. d.closures[n].elems = elems
    BY DEF Reaches
  <2>3. ASSUME NEW p \in DOMAIN c.closures
        PROVE  ItemsOf(c.closures[p].elems) \subseteq ItemsOf(d.closures[p].elems)
    BY <2>2 DEF Reaches
  <2> QED
    BY <2>1, <2>2, <2>3
<1>2. CASE Covered(c, o, X)
  <2>1. PICK t \in c.m_transitions : /\ t[1] = o /\ t[3] = X
                                     /\ implied \subseteq ItemsOf(c.closures[t[2]].elems)
    BY <1>2 DEF Covered
  <2>2. t[2] \in DOMAIN c.closures
    BY <2>1
  <2>3. implied \subseteq ItemsOf(d.closures[t[2]].elems) /\ t \in d.m_transitions
    BY <1>1, <2>1, <2>2
  <2> QED
    BY <2>1, <2>3 DEF Covered
<1>3. CASE Pending(c, fr, o, X)
  <2>1. PICK k \in DOMAIN fr : /\ fr[k].from = o
                               /\ \E i \in DOMAIN fr[k].pending :
                                      /\ fr[k].pending[i].sym = X
                                      /\ fr[k].pending[i].elems = DoTransition(c.closures[o].elems, X)
    BY <1>3 DEF Pending
  <2>2. PICK i \in DOMAIN fr[k].pending :
            /\ fr[k].pending[i].sym = X
            /\ fr[k].pending[i].elems = DoTransition(c.closures[o].elems, X)
    BY <2>1
  <2>3. CASE k = last /\ i = 1
    <3>1. X = sym /\ implied \subseteq ItemsOf(d.closures[n].elems)
      BY <1>1, <2>2, <2>3
    <3> DEFINE t == <<o, n, sym>>
    <3>2. t \in d.m_transitions /\ t[1] = o /\ t[2] = n /\ t[3] = X
      BY <1>1, <2>1, <2>3, <3>1
    <3> QED
      BY <3>1, <3>2 DEF Covered
  <2>4. CASE k # last
    <3>1. k \in DOMAIN Resumed(fr) /\ Resumed(fr)[k] = fr[k]
      BY <2>4, ResumedFrames
    <3> QED
      BY <2>1, <2>2, <3>1 DEF Pending
  <2>5. CASE k = last /\ i # 1
    <3>1. /\ k \in DOMAIN Resumed(fr) /\ Resumed(fr)[k].from = fr[k].from
          /\ i - 1 \in DOMAIN Resumed(fr)[k].pending
          /\ Resumed(fr)[k].pending[i - 1] = fr[k].pending[i]
      BY <2>5, ResumedFrames
    <3> QED
      BY <2>1, <2>2, <3>1 DEF Pending
  <2> QED
    BY <2>3, <2>4, <2>5
<1> QED
  BY <1>2, <1>3 DEF AllCovered

LEMMA PendingPushed ==
    ASSUME NEW d, NEW fr \in Seq(Frame), NEW call \in Frame, NEW o, NEW X, Pending(d, fr, o, X)
    PROVE  Pending(d, Append(fr, call), o, X)
<1>1. PICK k \in DOMAIN fr :
          /\ fr[k].from = o
          /\ \E i \in DOMAIN fr[k].pending :
                 /\ fr[k].pending[i].sym = X
                 /\ fr[k].pending[i].elems = DoTransition(d.closures[o].elems, X)
  BY DEF Pending
<1>2. k \in DOMAIN Append(fr, call) /\ Append(fr, call)[k] = fr[k]
  BY Pushed
<1> QED
  BY <1>1, <1>2 DEF Pending

LEMMA CallPending ==
    ASSUME NEW s, NEW d, NEW fr \in Seq(Frame), NEW call, NEW n, NEW g,
           CallOK(s, d.closures[n].elems, call, n, g), NEW X \in Syms(d.closures[n].elems)
    PROVE  Pending(d, Append(fr, call), n, X)
<1>1. call \in Frame /\ call.from = n
  BY DEF CallOK
<1>2. PICK i \in DOMAIN call.pending :
          /\ call.pending[i].sym = X
          /\ call.pending[i].elems = DoTransition(d.closures[n].elems, X)
  BY DEF CallOK
<1>3. Len(fr) + 1 \in DOMAIN Append(fr, call) /\ Append(fr, call)[Len(fr) + 1] = call
  BY <1>1, Pushed
<1> QED
  BY <1>1, <1>2, <1>3 DEF Pending

-----------------------------------------------------------------------------
\* The parts of the invariant that speak of the closures, the calls and the
\* next number, while transitions are made.
Transiting(c, fr, g) ==
    /\ IsCollection(c) /\ Apart(c, ~full_lr)
    /\ ClosuresSound(start, c) /\ TransitionsSound(c) /\ Remembered(c)
    /\ g \in Nat /\ FramesOK(start, c, g, fr) /\ AllCovered(c, fr)
    /\ IdsKept(c, g) /\ fr # <<>>

\* The transition that the last call makes next leads to closure n.
Arrives(d, n, elems) ==
    LET last == frames[Len(frames)]
    IN  /\ Reaches(lr, d, last.from, last.pending[1].sym, n, elems)
        /\ n \in DOMAIN lr.closures \/ n = last.pending[1].to
        /\ elems \in Seq(Element) /\ UniqueCores(elems) /\ ElementsSound(start, elems)
        /\ CoresOf(last.pending[1].elems) = CoresOf(elems)
        /\ ItemsOf(last.pending[1].elems) \subseteq ItemsOf(elems)
        /\ \A o \in DOMAIN lr.closures :
               o # n => hash(lr.closures[o].elems, ~full_lr) # hash(elems, ~full_lr)

LEMMA PendingFacts ==
    ASSUME NEW s, NEW c, NEW g, NEW fr, FramesOK(s, c, g, fr), fr # <<>>, fr[Len(fr)].pending # <<>>
    PROVE  LET last == fr[Len(fr)]
           IN  /\ fr \in Seq(Frame) /\ last.from \in DOMAIN c.closures
               /\ last.pending[1].sym \in Symbol /\ last.pending[1].to \in Nat
               /\ last.pending[1].elems \in Seq(Element)
               /\ PendingOK(s, c, g, last.from, last.pending[1])
               /\ Head(last.pending) = last.pending[1]
<1>1. fr \in Seq(Frame)
  BY DEF FramesOK
<1>2. /\ Len(fr) \in DOMAIN fr /\ 1 \in DOMAIN fr[Len(fr)].pending
      /\ fr[Len(fr)].pending[1] \in PendingTransition
      /\ Head(fr[Len(fr)].pending) = fr[Len(fr)].pending[1]
  BY <1>1, ResumedFrames
<1>3. /\ fr[Len(fr)].from \in DOMAIN c.closures
      /\ PendingOK(s, c, g, fr[Len(fr)].from, fr[Len(fr)].pending[1])
  BY <1>2 DEF FramesOK
<1>4. /\ fr[Len(fr)].pending[1].sym \in Symbol /\ fr[Len(fr)].pending[1].to \in Nat
      /\ fr[Len(fr)].pending[1].elems \in Seq(Element)
  BY <1>2 DEF PendingTransition
<1> QED
  BY <1>1, <1>2, <1>3, <1>4

LEMMA TransitionTaken ==
    ASSUME Transiting(lr, frames, g_id), frames[Len(frames)].pending # <<>>,
           NEW d, NEW n, NEW elems, Arrives(d, n, elems)
    PROVE  /\ IsCollection(d) /\ Apart(d, ~full_lr)
           /\ ClosuresSound(start, d) /\ TransitionsSound(d) /\ Remembered(d)
           /\ FramesOK(start, d, g_id, Resumed(frames)) /\ IdsKept(d, g_id)
           /\ n \in DOMAIN d.closures /\ n \in Nat /\ d.closures[n].elems = elems
           /\ \A o \in DOMAIN d.closures : o # n => o \in DOMAIN lr.closures /\ d.closures[o] = lr.closures[o]
           /\ \A o \in DOMAIN lr.closures : \A X \in Syms(lr.closures[o].elems) :
                  d.closures[o].elems = lr.closures[o].elems =>
                      Covered(d, o, X) \/ Pending(d, Resumed(frames), o, X)
<1> DEFINE last == frames[Len(frames)]
           p == last.pending[1]
<1>1. /\ IsCollection(lr) /\ Apart(lr, ~full_lr)
      /\ ClosuresSound(start, lr) /\ TransitionsSound(lr) /\ Remembered(lr)
      /\ FramesOK(start, lr, g_id, frames) /\ AllCovered(lr, frames)
      /\ IdsKept(lr, g_id) /\ frames # <<>>
  BY DEF Transiting
<1>2. /\ frames \in Seq(Frame) /\ last.from \in DOMAIN lr.closures
      /\ p.sym \in Symbol /\ p.to \in Nat /\ p.elems \in Seq(Element)
      /\ PendingOK(start, lr, g_id, last.from, p)
  BY <1>1, PendingFacts
<1>3. /\ Reaches(lr, d, last.from, p.sym, n, elems)
      /\ n \in DOMAIN lr.closures \/ n = p.to
      /\ elems \in Seq(Element) /\ UniqueCores(elems) /\ ElementsSound(start, elems)
      /\ CoresOf(p.elems) = CoresOf(elems) /\ ItemsOf(p.elems) \subseteq ItemsOf(elems)
      /\ \A o \in DOMAIN lr.closures :
             o # n => hash(lr.closures[o].elems, ~full_lr) # hash(elems, ~full_lr)
  BY DEF Arrives
<1>4. p.to < g_id /\ Follows(CoresOf(lr.closures[last.from].elems), p.sym, CoresOf(elems))
  BY <1>2, <1>3 DEF PendingOK
<1>5. n \in Nat /\ n < g_id
  <2>1. DOMAIN lr.closures \subseteq Nat
    BY <1>1 DEF IsCollection, Range
  <2> QED
    BY <1>1, <1>2, <1>3, <1>4, <2>1 DEF IdsKept
<1>6. lr.m_transitions \subseteq (DOMAIN lr.closures) \X (DOMAIN lr.closures) \X Symbol
  BY <1>1 DEF IsCollection
<1>7. FramesOK(start, d, g_id, Resumed(frames))
  BY <1>1, <1>3, ReachesFrames
<1>8. ASSUME NEW o \in DOMAIN lr.closures, NEW X \in Syms(lr.closures[o].elems),
             d.closures[o].elems = lr.closures[o].elems
      PROVE  Covered(d, o, X) \/ Pending(d, Resumed(frames), o, X)
  BY <1>1, <1>2, <1>3, <1>6, <1>8, CoverageKept
<1> HIDE DEF last, p
<1>9. IsCollection(d) /\ IdsKept(d, g_id)
  BY <1>1, <1>2, <1>3, <1>5, ReachesCollection
<1>10. ClosuresSound(start, d) /\ TransitionsSound(d)
  BY <1>1, <1>2, <1>3, <1>4, <1>6, ReachesSound
<1>11. Remembered(d)
  BY <1>1, <1>3, <1>6, ReachesRemembered
<1>12. Apart(d, ~full_lr)
  BY <1>1, <1>3, ReachesApart
<1>13. /\ n \in DOMAIN d.closures /\ d.closures[n].elems = elems
       /\ \A o \in DOMAIN d.closures : o # n => o \in DOMAIN lr.closures /\ d.closures[o] = lr.closures[o]
  BY <1>3, ReachesCores
<1> QED
  BY <1>5, <1>7, <1>8, <1>9, <1>10, <1>11, <1>12, <1>13

\* It goes on with a call for this closure, or without one when the elements
\* are what they were.
LEMMA GoesOn ==
    ASSUME LocalClosureCorrect, start \in StartRules,
           Transiting(lr, frames, g_id), frames[Len(frames)].pending # <<>>,
           NEW d, NEW n, NEW elems, Arrives(d, n, elems)
    PROVE  /\ LET call == DoTransitionsOf(n, elems, g_id)
              IN  Transiting(d, Append(Resumed(frames), call), g_id + Len(call.pending))
           /\ n \in DOMAIN lr.closures /\ elems = lr.closures[n].elems =>
                  Transiting(d, Resumed(frames), g_id)
<1> DEFINE call == DoTransitionsOf(n, elems, g_id)
           new == Resumed(frames)
           h == g_id + Len(call.pending)
           pushed == Append(new, call)
<1>1. /\ IsCollection(d) /\ Apart(d, ~full_lr)
      /\ ClosuresSound(start, d) /\ TransitionsSound(d) /\ Remembered(d)
      /\ FramesOK(start, d, g_id, new) /\ IdsKept(d, g_id)
      /\ n \in DOMAIN d.closures /\ n \in Nat /\ d.closures[n].elems = elems
      /\ \A o \in DOMAIN d.closures : o # n => o \in DOMAIN lr.closures /\ d.closures[o] = lr.closures[o]
      /\ \A o \in DOMAIN lr.closures : \A X \in Syms(lr.closures[o].elems) :
             d.closures[o].elems = lr.closures[o].elems => Covered(d, o, X) \/ Pending(d, new, o, X)
  BY TransitionTaken
<1>2. elems \in Seq(Element) /\ ElementsSound(start, elems)
  BY DEF Arrives
<1>3. g_id \in Nat /\ frames # <<>> /\ FramesOK(start, lr, g_id, frames)
  BY DEF Transiting
<1>4. CallOK(start, elems, call, n, g_id)
  BY <1>1, <1>2, <1>3, CallBegins
<1>5. new # <<>> /\ new \in Seq(Frame)
  BY <1>3, ResumedFrames DEF FramesOK
<1> HIDE DEF call, new
<1>6. call \in Frame /\ Len(call.pending) \in Nat
  <2>1. call \in Frame
    BY <1>4 DEF CallOK
  <2>2. call.pending \in Seq(PendingTransition)
    BY <2>1 DEF Frame
  <2> QED
    BY <2>1, <2>2
<1>7. pushed # <<>>
  BY <1>5, <1>6, Pushed
<1>8. FramesOK(start, d, h, pushed)
  <2>1. \A o \in DOMAIN d.closures : o < g_id
    BY <1>1 DEF IdsKept
  <2> QED
    BY <1>1, <1>3, <1>4, <2>1, FramesPushed
<1>9. IdsKept(d, h) /\ h \in Nat
  <2>1. DOMAIN d.closures \subseteq Nat
    BY <1>1 DEF IsCollection, Range
  <2>2. \A o \in Nat : o < g_id => o < h
    BY <1>3, <1>6
  <2> QED
    BY <1>1, <1>3, <1>6, <2>1, <2>2 DEF IdsKept
<1> HIDE DEF pushed, h
<1>10. ASSUME NEW o \in DOMAIN d.closures, NEW X \in Syms(d.closures[o].elems)
       PROVE  Covered(d, o, X) \/ Pending(d, pushed, o, X)
  <2>1. CASE o = n
    <3>1. Pending(d, pushed, n, X)
      BY <1>1, <1>4, <1>5, <1>10, <2>1, CallPending DEF pushed
    <3> QED
      BY <2>1, <3>1
  <2>2. CASE o # n
    <3>1. Covered(d, o, X) \/ Pending(d, new, o, X)
      BY <1>1, <1>10, <2>2
    <3> QED
      BY <1>5, <1>6, <3>1, PendingPushed DEF pushed
  <2> QED
    BY <2>1, <2>2
<1>11. Transiting(d, pushed, h)
  BY <1>1, <1>7, <1>8, <1>9, <1>10 DEF Transiting, AllCovered
<1>12. ASSUME n \in DOMAIN lr.closures, elems = lr.closures[n].elems
       PROVE  Transiting(d, new, g_id)
  <2>1. ASSUME NEW o \in DOMAIN d.closures, NEW X \in Syms(d.closures[o].elems)
        PROVE  Covered(d, o, X) \/ Pending(d, new, o, X)
    BY <1>1, <1>12, <2>1
  <2> QED
    BY <1>1, <1>3, <1>5, <2>1 DEF Transiting, AllCovered
<1> QED
  BY <1>11, <1>12 DEF call, new, pushed, h

LEMMA StillTransiting ==
    ASSUME LRInv, phase = "transitions", Transiting(lr, frames, g_id)',
           UNCHANGED <<start, mode, phase, closure_map, coll>>
    PROVE  LRInv'
<1>1. phase' = "transitions" /\ start' \in StartRules /\ mode' \in Modes
  BY DEF LRInv
<1>2. closure_map' = <<>> /\ coll' = Empty
  BY DEF LRInv
<1> QED
  BY <1>1, <1>2 DEF LRInv, Transiting

LEMMA InTransit ==
    ASSUME LRInv, phase = "transitions"
    PROVE  Transiting(lr, frames, g_id) /\ start \in StartRules /\ Len(frames) \in DOMAIN frames
<1>1. Transiting(lr, frames, g_id) /\ start \in StartRules
  BY DEF LRInv, Transiting
<1>2. frames \in Seq(Frame) /\ frames # <<>>
  BY <1>1 DEF Transiting, FramesOK
<1> QED
  BY <1>1, <1>2, EmptySeq

LEMMA Appended ==
    ASSUME NEW T, NEW seq \in Seq(T), NEW x \in T
    PROVE  /\ Append(seq, x) \in Seq(T) /\ DOMAIN Append(seq, x) = DOMAIN seq \cup {Len(seq) + 1}
           /\ Len(seq) + 1 \notin DOMAIN seq /\ Append(seq, x)[Len(seq) + 1] = x
           /\ \A i \in DOMAIN seq : Append(seq, x)[i] = seq[i]
           /\ Range(Append(seq, x)) = Range(seq) \cup {x}
<1>1. /\ Append(seq, x) \in Seq(T) /\ DOMAIN Append(seq, x) = DOMAIN seq \cup {Len(seq) + 1}
      /\ Len(seq) + 1 \notin DOMAIN seq /\ Append(seq, x)[Len(seq) + 1] = x
      /\ \A i \in DOMAIN seq : Append(seq, x)[i] = seq[i]
  OBVIOUS
<1> QED
  BY <1>1 DEF Range

\* A transition is taken: closure n has these elements now, and there is a call
\* for it unless it had them before.
Taking(n, elems) ==
    LET p == frames[Len(frames)].pending[1]
        call == DoTransitionsOf(n, elems, g_id)
        old == lr.closures[n].elems
    IN  /\ Arrives(lr', n, elems)
        /\ UNCHANGED <<start, mode, phase, closure_map, coll>>
        /\ \/ frames' = Append(Resumed(frames), call) /\ g_id' = g_id + Len(call.pending)
           \/ /\ n \in DOMAIN lr.closures /\ elems = old
              /\ frames' = Resumed(frames) /\ g_id' = g_id
        /\ hash(elems, ~full_lr) = hash(p.elems, ~full_lr)
        /\ IF n \in DOMAIN lr.closures
           THEN /\ full_lr => elems = old
                /\ hash(elems, ~full_lr) = hash(old, ~full_lr)
                /\ ItemsOf(elems) = ItemsOf(old) \cup ItemsOf(p.elems)
           ELSE elems = p.elems

LEMMA TakingKeeps ==
    ASSUME LocalClosureCorrect, LRInv, phase = "transitions", frames[Len(frames)].pending # <<>>,
           NEW n, NEW elems, Taking(n, elems)
    PROVE  LRInv'
<1> DEFINE call == DoTransitionsOf(n, elems, g_id)
<1>1. Transiting(lr, frames, g_id) /\ start \in StartRules
  BY InTransit
<1>2. /\ Arrives(lr', n, elems)
      /\ UNCHANGED <<start, mode, phase, closure_map, coll>>
      /\ \/ frames' = Append(Resumed(frames), call) /\ g_id' = g_id + Len(call.pending)
         \/ /\ n \in DOMAIN lr.closures /\ elems = lr.closures[n].elems
            /\ frames' = Resumed(frames) /\ g_id' = g_id
  BY DEF Taking
<1>3. /\ Transiting(lr', Append(Resumed(frames), call), g_id + Len(call.pending))
      /\ n \in DOMAIN lr.closures /\ elems = lr.closures[n].elems =>
             Transiting(lr', Resumed(frames), g_id)
  BY <1>1, <1>2, GoesOn
<1> HIDE DEF call
<1>4. Transiting(lr', frames', g_id')
  BY <1>2, <1>3
<1>5. Transiting(lr, frames, g_id)'
  BY <1>2, <1>4 DEF Transiting, full_lr
<1> QED
  BY <1>2, <1>5, StillTransiting

LEMMA NewClosureTakes ==
    ASSUME LRInv, NewClosure
    PROVE  /\ phase = "transitions" /\ frames[Len(frames)].pending # <<>>
           /\ \E n, elems : Taking(n, elems)
<1> DEFINE last == frames[Len(frames)]
           p == last.pending[1]
<1>1. /\ Transiting(lr, frames, g_id) /\ start \in StartRules
      /\ phase = "transitions" /\ last.pending # <<>>
  BY InTransit DEF NewClosure, top
<1>2. IsCollection(lr) /\ FramesOK(start, lr, g_id, frames) /\ frames # <<>>
  BY <1>1 DEF Transiting
<1>3. /\ p.to \in Nat /\ p.elems \in Seq(Element)
      /\ PendingOK(start, lr, g_id, last.from, p) /\ Head(last.pending) = p
  BY <1>1, <1>2, PendingFacts
<1>4. next = p /\ top = last
  BY <1>3 DEF next, top
<1>5. p.to \notin DOMAIN lr.closures /\ UniqueCores(p.elems) /\ ElementsSound(start, p.elems)
  BY <1>3 DEF PendingOK
<1> DEFINE d == [m_collection |-> Append(lr.m_collection, p.to),
                 closures |-> With(lr.closures, p.to,
                                   [id |-> p.to, elems |-> p.elems,
                                    comefrom |-> {<<p.sym, last.from>>}]),
                 m_transitions |-> lr.m_transitions \cup {<<last.from, p.to, p.sym>>}]
<1>6. lr' = d
  BY <1>4 DEF NewClosure
<1> HIDE DEF p, last
<1>7. /\ lr.m_collection \in Seq(Nat) /\ Range(lr.m_collection) = DOMAIN lr.closures
      /\ \A i, j \in DOMAIN lr.m_collection : lr.m_collection[i] = lr.m_collection[j] => i = j
      /\ \A i \in DOMAIN lr.m_collection : lr.m_collection[i] \in DOMAIN lr.closures
  BY <1>2 DEF IsCollection, Range
<1>8. Reaches(lr, d, last.from, p.sym, p.to, p.elems)
  <2> DEFINE seq == Append(lr.m_collection, p.to)
             n == Len(lr.m_collection) + 1
             f == With(lr.closures, p.to,
                       [id |-> p.to, elems |-> p.elems, comefrom |-> {<<p.sym, last.from>>}])
  <2>1. d.m_collection = seq /\ d.closures = f
        /\ d.m_transitions = lr.m_transitions \cup {<<last.from, p.to, p.sym>>}
    OBVIOUS
  <2>2. /\ seq \in Seq(Nat) /\ DOMAIN seq = DOMAIN lr.m_collection \cup {n}
        /\ n \notin DOMAIN lr.m_collection /\ seq[n] = p.to
        /\ \A i \in DOMAIN lr.m_collection : seq[i] = lr.m_collection[i]
        /\ Range(seq) = Range(lr.m_collection) \cup {p.to}
    <3>1. lr.m_collection \in Seq(Nat) /\ p.to \in Nat
      BY <1>3, <1>7
    <3> HIDE DEF d, f
    <3> QED
      BY <3>1, Appended
  <2>3. /\ DOMAIN f = DOMAIN lr.closures \cup {p.to}
        /\ f[p.to] = [id |-> p.to, elems |-> p.elems, comefrom |-> {<<p.sym, last.from>>}]
        /\ \A o \in DOMAIN lr.closures : o # p.to => f[o] = lr.closures[o]
    BY DEF With
  <2> HIDE DEF seq, f, d, n
  <2>4. \A i, j \in DOMAIN seq : seq[i] = seq[j] => i = j
    BY <1>5, <1>7, <2>2
  <2>5. {<<p.sym, last.from>>} = {} \cup {<<p.sym, last.from>>}
    OBVIOUS
  <2>6. f[p.to] = [id |-> p.to, elems |-> p.elems,
                   comefrom |-> (IF p.to \in DOMAIN lr.closures THEN lr.closures[p.to].comefrom ELSE {})
                                    \cup {<<p.sym, last.from>>}]
    BY <1>5, <2>3, <2>5
  <2> QED
    BY <1>5, <1>7, <2>1, <2>2, <2>3, <2>4, <2>6 DEF Reaches
<1>9. \A o \in DOMAIN lr.closures : hash(lr.closures[o].elems, ~full_lr) # hash(p.elems, ~full_lr)
  BY <1>4, <1>7 DEF NewClosure, Cached
<1> HIDE DEF d
<1>10. Arrives(d, p.to, p.elems)
  BY <1>3, <1>5, <1>8, <1>9 DEF Arrives, p, last
<1> DEFINE call == DoTransitionsOf(p.to, p.elems, g_id)
<1>11. frames' = Append(Resumed(frames), call) /\ g_id' = g_id + Len(call.pending)
  BY <1>4 DEF NewClosure, Calling, resumed, Resumed, top
<1>12. UNCHANGED <<start, mode, phase, closure_map, coll>>
  BY DEF NewClosure
<1> HIDE DEF call
<1>13. Taking(p.to, p.elems)
  BY <1>5, <1>6, <1>10, <1>11, <1>12 DEF Taking, p, last, call
<1> QED
  BY <1>1, <1>13 DEF last

LEMMA OldClosureTakes ==
    ASSUME LRInv, OldClosure
    PROVE  /\ phase = "transitions" /\ frames[Len(frames)].pending # <<>>
           /\ \E n, elems : Taking(n, elems)
<1> DEFINE last == frames[Len(frames)]
           p == last.pending[1]
<1>1. /\ Transiting(lr, frames, g_id) /\ start \in StartRules
      /\ phase = "transitions" /\ last.pending # <<>>
  BY InTransit DEF OldClosure, top
<1>2. /\ IsCollection(lr) /\ FramesOK(start, lr, g_id, frames) /\ frames # <<>>
      /\ Apart(lr, ~full_lr) /\ ClosuresSound(start, lr) /\ IdsKept(lr, g_id)
  BY <1>1 DEF Transiting
<1>3. /\ p.elems \in Seq(Element)
      /\ PendingOK(start, lr, g_id, last.from, p) /\ Head(last.pending) = p
  BY <1>1, <1>2, PendingFacts
<1>4. next = p /\ top = last
  BY <1>3 DEF next, top
<1>5. UniqueCores(p.elems) /\ ElementsSound(start, p.elems)
  BY <1>3 DEF PendingOK
<1> HIDE DEF p, last
<1>6. PICK o \in Cached :
          LET elems == IF full_lr THEN lr.closures[o].elems
                       ELSE AddLookaheads(lr.closures[o].elems, next.elems)
          IN  /\ lr' = [m_collection |-> lr.m_collection,
                        closures |-> [lr.closures EXCEPT
                                         ![o] = ReachedAgain(@, elems, next.sym, top.from)],
                        m_transitions |-> lr.m_transitions \cup {<<top.from, o, next.sym>>}]
              /\ Redone(o, elems)
  BY DEF OldClosure
<1> DEFINE old == lr.closures[o]
           elems == IF full_lr THEN old.elems ELSE AddLookaheads(old.elems, p.elems)
           d == [m_collection |-> lr.m_collection,
                 closures |-> [lr.closures EXCEPT ![o] = ReachedAgain(@, elems, p.sym, last.from)],
                 m_transitions |-> lr.m_transitions \cup {<<last.from, o, p.sym>>}]
<1>7. lr' = d /\ Redone(o, elems)
  BY <1>4, <1>6
<1>8. o \in DOMAIN lr.closures /\ hash(old.elems, ~full_lr) = hash(p.elems, ~full_lr)
  BY <1>2, <1>4 DEF Cached, IsCollection
<1>9. /\ old \in ClosureObject /\ UniqueCores(old.elems) /\ ElementsSound(start, old.elems)
      /\ old.elems \in Seq(Element) /\ old.id = o
  BY <1>2, <1>8 DEF IsCollection, ClosuresSound, IdsKept, ClosureObject
<1> HIDE DEF old
<1>10. /\ elems \in Seq(Element) /\ UniqueCores(elems)
       /\ CoresOf(elems) = CoresOf(old.elems) /\ CoresOf(p.elems) = CoresOf(elems)
       /\ ItemsOf(old.elems) \subseteq ItemsOf(elems) /\ ItemsOf(p.elems) \subseteq ItemsOf(elems)
       /\ ItemsOf(elems) \subseteq ItemsOf(old.elems) \cup ItemsOf(p.elems)
       /\ hash(elems, ~full_lr) = hash(old.elems, ~full_lr)
  <2>1. CASE full_lr
    <3>1. hash(old.elems, FALSE) = hash(p.elems, FALSE)
      BY <1>8, <2>1
    <3>2. CoresOf(old.elems) = CoresOf(p.elems) /\ ItemsOf(old.elems) = ItemsOf(p.elems)
      BY <1>3, <1>9, <3>1, SameHash
    <3> QED
      BY <1>9, <2>1, <3>2
  <2>2. CASE ~full_lr
    <3>0. (~full_lr) = TRUE
      BY <2>2
    <3>1. hash(old.elems, TRUE) = hash(p.elems, TRUE)
      BY <1>8, <3>0
    <3>2. CoresOf(old.elems) = CoresOf(p.elems)
      BY <1>3, <1>9, <3>1, SameHash
    <3> DEFINE new == AddLookaheads(old.elems, p.elems)
    <3>3. /\ new \in Seq(Element) /\ CoresOf(new) = CoresOf(old.elems)
          /\ UniqueCores(old.elems) => UniqueCores(new)
          /\ ItemsOf(old.elems) \subseteq ItemsOf(new)
          /\ ItemsOf(new) \subseteq ItemsOf(old.elems) \cup ItemsOf(p.elems)
          /\ CoresOf(p.elems) \subseteq CoresOf(old.elems) => ItemsOf(p.elems) \subseteq ItemsOf(new)
      BY <1>3, <1>5, <1>9, LookaheadsAdded
    <3>4. elems = new
      BY <2>2
    <3> HIDE DEF new, elems
    <3>5. hash(elems, TRUE) = hash(old.elems, TRUE)
      BY <1>9, <3>3, <3>4, SameHash
    <3> QED
      BY <1>9, <3>0, <3>2, <3>3, <3>4, <3>5
  <2> QED
    BY <2>1, <2>2
<1> HIDE DEF elems
<1>11. ElementsSound(start, elems)
  <2>1. \A core \in CoresOf(elems) :
            /\ core[2] = 0 => core = <<start, 0>> \/ OpensRule(CoresOf(elems), core)
            /\ core[2] > 0 => GetRhs(core)[core[2]] # g_eps
    BY <1>9, <1>10 DEF ElementsSound
  <2>2. \A x \in ItemsOf(elems) : x[1][1] = start => x[2] = g_end
    BY <1>5, <1>9, <1>10 DEF ElementsSound
  <2> QED
    BY <2>1, <2>2 DEF ElementsSound
<1>12. Reaches(lr, d, last.from, p.sym, o, elems)
  <2>1. /\ d.m_collection = lr.m_collection /\ DOMAIN d.closures = DOMAIN lr.closures
        /\ d.m_transitions = lr.m_transitions \cup {<<last.from, o, p.sym>>}
        /\ \A q \in DOMAIN lr.closures : q # o => d.closures[q] = lr.closures[q]
    OBVIOUS
  <2>2. d.closures[o] = [id |-> o, elems |-> elems, comefrom |-> old.comefrom \cup {<<p.sym, last.from>>}]
    BY <1>8, <1>9 DEF ReachedAgain, old
  <2> HIDE DEF d
  <2>3. /\ lr.m_collection \in Seq(Nat) /\ Range(lr.m_collection) = DOMAIN lr.closures
        /\ \A i, j \in DOMAIN lr.m_collection : lr.m_collection[i] = lr.m_collection[j] => i = j
    BY <1>2 DEF IsCollection
  <2>4. DOMAIN d.closures = DOMAIN lr.closures \cup {o}
    BY <1>8, <2>1
  <2>5. d.closures[o] =
            [id |-> o, elems |-> elems,
             comefrom |-> (IF o \in DOMAIN lr.closures THEN lr.closures[o].comefrom ELSE {})
                              \cup {<<p.sym, last.from>>}]
    BY <1>8, <2>2 DEF old
  <2>6. /\ CoresOf(elems) = CoresOf(lr.closures[o].elems)
        /\ ItemsOf(lr.closures[o].elems) \subseteq ItemsOf(elems)
    BY <1>10 DEF old
  <2> QED
    BY <2>1, <2>3, <2>4, <2>5, <2>6 DEF Reaches
<1>13. \A q \in DOMAIN lr.closures :
           q # o => hash(lr.closures[q].elems, ~full_lr) # hash(elems, ~full_lr)
  BY <1>2, <1>8, <1>10 DEF Apart, old
<1> HIDE DEF d
<1>14. Arrives(d, o, elems)
  BY <1>8, <1>10, <1>11, <1>12, <1>13 DEF Arrives, p, last
<1> DEFINE call == DoTransitionsOf(o, elems, g_id)
<1>15. \/ frames' = Append(Resumed(frames), call) /\ g_id' = g_id + Len(call.pending)
       \/ elems = lr.closures[o].elems /\ frames' = Resumed(frames) /\ g_id' = g_id
  <2>1. resumed = Resumed(frames)
    BY DEF resumed, Resumed, top
  <2> QED
    BY <1>7, <2>1 DEF Redone, Calling
<1> HIDE DEF call
<1>16. UNCHANGED <<start, mode, phase, closure_map, coll>>
  BY DEF OldClosure
<1>17. full_lr => elems = old.elems
  BY DEF elems
<1>18. Taking(o, elems)
  <2>1. Arrives(lr', o, elems)
    BY <1>7, <1>14
  <2>2. hash(elems, ~full_lr) = hash(p.elems, ~full_lr)
    BY <1>8, <1>10 DEF old
  <2>3. ItemsOf(elems) = ItemsOf(old.elems) \cup ItemsOf(p.elems)
    BY <1>10
  <2> QED
    BY <1>8, <1>10, <1>15, <1>16, <1>17, <2>1, <2>2, <2>3 DEF Taking, p, last, old, call
<1> QED
  BY <1>1, <1>18 DEF last

LEMMA TransitionsKeep ==
    ASSUME LocalClosureCorrect, LRInv, NewClosure \/ OldClosure
    PROVE  LRInv'
BY NewClosureTakes, OldClosureTakes, TakingKeeps

-----------------------------------------------------------------------------
\* The last call is gone when it has nothing left to do.
LEMMA ReturnKeeps ==
    ASSUME LRInv, Return
    PROVE  LRInv'
<1> DEFINE n == Len(frames)
           new == SubSeq(frames, 1, n - 1)
<1>1. Transiting(lr, frames, g_id) /\ phase = "transitions" /\ Len(frames) > 1
      /\ frames[n].pending = <<>>
  BY InTransit DEF Return, top
<1>2. FramesOK(start, lr, g_id, frames) /\ frames \in Seq(Frame)
  BY <1>1 DEF Transiting, FramesOK
<1>3. /\ new # <<>> /\ \A k \in DOMAIN new : k \in DOMAIN frames /\ new[k] = frames[k]
      /\ \A k \in DOMAIN frames : k \in DOMAIN new \/ k = n
      /\ FramesOK(start, lr, g_id, new)
  BY <1>1, <1>2, Popped, FramesPopped
<1>4. frames' = new
  BY DEF Return
<1> HIDE DEF new, n
<1>5. ASSUME NEW o, NEW X, Pending(lr, frames, o, X) PROVE Pending(lr, new, o, X)
  <2>1. PICK k \in DOMAIN frames :
            /\ frames[k].from = o
            /\ \E i \in DOMAIN frames[k].pending :
                   /\ frames[k].pending[i].sym = X
                   /\ frames[k].pending[i].elems = DoTransition(lr.closures[o].elems, X)
    BY <1>5 DEF Pending
  <2>2. k # n
    BY <1>1, <2>1
  <2>3. k \in DOMAIN new /\ new[k] = frames[k]
    BY <1>3, <2>2
  <2> QED
    BY <2>1, <2>3 DEF Pending
<1>6. AllCovered(lr, new)
  BY <1>1, <1>5 DEF Transiting, AllCovered
<1>7. UNCHANGED <<start, mode, phase, g_id, lr, closure_map, coll>>
  BY DEF Return
<1>8. Transiting(lr, frames, g_id)'
  <2>1. Transiting(lr, new, g_id)
    BY <1>1, <1>3, <1>6 DEF Transiting
  <2> QED
    BY <1>4, <1>7, <2>1 DEF Transiting, full_lr
<1> QED
  BY <1>1, <1>7, <1>8, StillTransiting

-----------------------------------------------------------------------------
\* Collections that differ in the order and the numbers of their closures.
Alike(c, d) ==
    /\ DOMAIN d.closures = DOMAIN c.closures /\ d.m_transitions = c.m_transitions
    /\ Range(d.m_collection) = Range(c.m_collection)
    /\ \A o \in DOMAIN c.closures : /\ d.closures[o].elems = c.closures[o].elems
                                    /\ d.closures[o].comefrom = c.closures[o].comefrom

LEMMA AlikeConflicts ==
    ASSUME NEW c, NEW d, Alike(c, d), IsCollection(c)
    PROVE  Conflicts(d) = Conflicts(c)
<1>1. /\ Range(d.m_collection) = Range(c.m_collection) /\ d.m_transitions = c.m_transitions
      /\ \A o \in Range(c.m_collection) : d.closures[o].elems = c.closures[o].elems
      /\ \A t \in c.m_transitions : d.closures[t[1]].elems = c.closures[t[1]].elems
  <2>1. /\ Range(c.m_collection) = DOMAIN c.closures
        /\ \A t \in c.m_transitions : t[1] \in DOMAIN c.closures
    BY DEF IsCollection
  <2> QED
    BY <2>1 DEF Alike
<1>2. HasReduceReduceConflict(d) <=> HasReduceReduceConflict(c)
  BY <1>1 DEF HasReduceReduceConflict
<1>3. HasShiftReduceConflict(d) <=> HasShiftReduceConflict(c)
  <2> DEFINE Reduced(elems) == UNION {Range(elems[i].las) :
                                          i \in {k \in DOMAIN elems : IsCursorAtEnd(elems[k].core)}}
             Both(e, o, t) == /\ hash(e.closures[t[1]].elems, FALSE) = hash(e.closures[o].elems, FALSE)
                              /\ t[3] \in Reduced(e.closures[o].elems)
  <2>1. \A e : HasShiftReduceConflict(e) <=>
                   \E o \in Range(e.m_collection), t \in e.m_transitions : Both(e, o, t)
    BY DEF HasShiftReduceConflict
  <2> HIDE DEF Reduced
  <2>2. \A o \in Range(c.m_collection), t \in c.m_transitions : Both(d, o, t) <=> Both(c, o, t)
    BY <1>1
  <2> HIDE DEF Both
  <2> QED
    BY <1>1, <2>1, <2>2
<1> QED
  BY <1>2, <1>3 DEF Conflicts

LEMMA AlikeSound ==
    ASSUME NEW s, NEW c, NEW d, Alike(c, d), IsCollection(c)
    PROVE  /\ \A b : Apart(c, b) => Apart(d, b)
           /\ ClosuresSound(s, c) => ClosuresSound(s, d)
           /\ TransitionsSound(c) => TransitionsSound(d)
           /\ Remembered(c) => Remembered(d)
           /\ AllCovered(c, <<>>) => AllCovered(d, <<>>)
           /\ TransitionsMade(c) => TransitionsMade(d)
<1>1. /\ DOMAIN d.closures = DOMAIN c.closures /\ d.m_transitions = c.m_transitions
      /\ \A o \in DOMAIN c.closures : /\ d.closures[o].elems = c.closures[o].elems
                                      /\ d.closures[o].comefrom = c.closures[o].comefrom
      /\ \A t \in c.m_transitions : t[1] \in DOMAIN c.closures /\ t[2] \in DOMAIN c.closures
  BY DEF Alike, IsCollection
<1>2. \A b : Apart(c, b) => Apart(d, b)
  BY <1>1 DEF Apart
<1>3. ClosuresSound(s, c) => ClosuresSound(s, d)
  BY <1>1 DEF ClosuresSound
<1>4. TransitionsSound(c) => TransitionsSound(d)
  BY <1>1 DEF TransitionsSound
<1>5. Remembered(c) => Remembered(d)
  BY <1>1 DEF Remembered
<1>6. AllCovered(c, <<>>) => AllCovered(d, <<>>)
  <2>1. \A e, o, X : ~Pending(e, <<>>, o, X)
    BY DEF Pending
  <2>2. \A o \in DOMAIN c.closures : \A X : Covered(c, o, X) => Covered(d, o, X)
    BY <1>1 DEF Covered
  <2> QED
    BY <1>1, <2>1, <2>2 DEF AllCovered
<1>7. TransitionsMade(c) => TransitionsMade(d)
  <2> SUFFICES ASSUME TransitionsMade(c), NEW o \in DOMAIN d.closures,
                      NEW sym \in Syms(d.closures[o].elems)
               PROVE  \E t \in d.m_transitions : t[1] = o /\ t[3] = sym
    BY DEF TransitionsMade
  <2>1. o \in DOMAIN c.closures /\ sym \in Syms(c.closures[o].elems)
    BY <1>1
  <2>2. \E t \in c.m_transitions : t[1] = o /\ t[3] = sym
    BY <2>1 DEF TransitionsMade
  <2> QED
    BY <1>1, <2>2
<1> QED
  BY <1>2, <1>3, <1>4, <1>5, <1>6, <1>7

\* All cores are different hence all hashes: what is apart by cores is apart.
LEMMA ApartByCores ==
    ASSUME NEW c, IsCollection(c), Apart(c, TRUE)
    PROVE  Apart(c, FALSE)
<1>1. \A o \in DOMAIN c.closures : c.closures[o].elems \in Seq(Element)
  BY DEF IsCollection, ClosureObject
<1>2. ASSUME NEW o \in DOMAIN c.closures, NEW p \in DOMAIN c.closures,
             hash(c.closures[o].elems, FALSE) = hash(c.closures[p].elems, FALSE)
      PROVE  o = p
  <2>1. CoresOf(c.closures[o].elems) = CoresOf(c.closures[p].elems)
    BY <1>1, <1>2, SameHash
  <2>2. hash(c.closures[o].elems, TRUE) = hash(c.closures[p].elems, TRUE)
    BY <1>1, <2>1, SameHash
  <2> QED
    BY <2>2 DEF Apart
<1> QED
  BY <1>2 DEF Apart

LEMMA AsManyAsMembers ==
    ASSUME NEW T, NEW seq \in Seq(T), \A i, j \in DOMAIN seq : seq[i] = seq[j] => i = j
    PROVE  IsFiniteSet(Range(seq)) /\ Cardinality(Range(seq)) = Len(seq)
<1>1. DOMAIN seq = 1 .. Len(seq) /\ Len(seq) \in Nat /\ seq \in [1 .. Len(seq) -> Range(seq)]
  <2>1. DOMAIN seq = 1 .. Len(seq) /\ Len(seq) \in Nat /\ seq = [i \in DOMAIN seq |-> seq[i]]
    OBVIOUS
  <2> QED
    BY <2>1 DEF Range
<1>2. seq \in Bijection(1 .. Len(seq), Range(seq))
  BY <1>1 DEF Bijection, Injection, Surjection, IsInjective, Range
<1>3. ExistsBijection(1 .. Len(seq), Range(seq))
  BY <1>2 DEF ExistsBijection
<1>4. 1 \in Int /\ Len(seq) \in Int
  BY <1>1
<1>5. /\ IsFiniteSet(1 .. Len(seq))
      /\ Cardinality(1 .. Len(seq)) = IF 1 > Len(seq) THEN 0 ELSE Len(seq) - 1 + 1
  BY <1>4, FS_Interval
<1>6. IsFiniteSet(Range(seq)) /\ Cardinality(Range(seq)) = Cardinality(1 .. Len(seq))
  BY <1>3, <1>5, FS_Bijection
<1> QED
  BY <1>1, <1>5, <1>6

LEMMA SimplifyNumbers ==
    ASSUME NEW c, IsCollection(c), Apart(c, FALSE), 0 \in DOMAIN c.closures, c.closures[0].id = 0
    PROVE  IsCollection(Simplify(c)) /\ Alike(c, Simplify(c)) /\ Numbered(Simplify(c))
<1> DEFINE all == Range(c.m_collection)
           n == Len(c.m_collection)
           Hash(o) == hash(c.closures[o].elems, FALSE)
           Before(o) == {p \in all : c.closures[p].id < c.closures[o].id}
           fresh == {o \in all : \A p \in Before(o) : Hash(p) # Hash(o)}
           idf == [o \in all |-> c.closures[o].id]
           Nth(k) == CHOOSE o \in all : Cardinality(Before(o)) = k - 1
           d == Simplify(c)
<1>1. /\ c.m_collection \in Seq(Nat) /\ DOMAIN c.m_collection = 1 .. n /\ n \in Nat
      /\ \A i, j \in DOMAIN c.m_collection : c.m_collection[i] = c.m_collection[j] => i = j
      /\ all = DOMAIN c.closures
      /\ \A o \in all : c.closures[o] \in ClosureObject /\ UniqueCores(c.closures[o].elems)
      /\ \A o, p \in all : c.closures[o].id = c.closures[p].id => o = p
      /\ c.m_transitions \subseteq all \X all \X Symbol
      /\ all \subseteq Nat
  <2>1. c.m_collection \in Seq(Nat) /\ all = DOMAIN c.closures
    BY DEF IsCollection
  <2>2. DOMAIN c.m_collection = 1 .. n /\ n \in Nat /\ all \subseteq Nat
    BY <2>1 DEF Range
  <2> QED
    BY <2>1, <2>2 DEF IsCollection
<1>2. IsFiniteSet(all) /\ Cardinality(all) = n
  BY <1>1, AsManyAsMembers
<1>3. /\ idf \in [all -> Nat] /\ \A o, p \in all : idf[o] = idf[p] => o = p
      /\ \A o \in all : idf[o] = c.closures[o].id
  BY <1>1 DEF ClosureObject
<1>4. \A o \in all : Rank(all, idf, o) = Cardinality(Before(o))
  <2>1. \A o \in all : {p \in all : idf[p] < idf[o]} = Before(o)
    OBVIOUS
  <2> QED
    BY <2>1 DEF Rank
<1>5. fresh = all
  <2>1. \A o \in all : \A p \in Before(o) : p # o
    BY <1>1 DEF ClosureObject
  <2> QED
    BY <1>1, <2>1 DEF Apart
<1>6. \A o \in all : Before(o) \cap fresh = Before(o)
  BY <1>5
<1>7. d = [m_collection |-> [k \in DOMAIN c.m_collection |-> Nth(k)],
           closures |-> [o \in DOMAIN c.closures |->
                            IF o \in fresh THEN [c.closures[o] EXCEPT !.id = Cardinality(Before(o) \cap fresh)]
                            ELSE c.closures[o]],
           m_transitions |-> c.m_transitions]
  BY DEF Simplify
<1> HIDE DEF idf, d
<1>8. \A o \in all : Rank(all, idf, o) \in Nat /\ Rank(all, idf, o) \in 0 .. n - 1
  <2> TAKE o \in all
  <2>1. Rank(all, idf, o) \in 0 .. Cardinality(all) - 1
    BY <1>2, <1>3, RankBound
  <2> QED
    BY <1>1, <1>2, <2>1
<1>9. /\ DOMAIN d.m_collection = 1 .. n /\ DOMAIN d.closures = all /\ d.m_transitions = c.m_transitions
      /\ d.m_collection = [k \in 1 .. n |-> Nth(k)]
      /\ \A o \in all : d.closures[o] = [c.closures[o] EXCEPT !.id = Cardinality(Before(o))]
  BY <1>1, <1>5, <1>6, <1>7
<1>10. \A k \in 1 .. n : Nth(k) \in all /\ Rank(all, idf, Nth(k)) = k - 1
  <2> TAKE k \in 1 .. n
  <2>1. \E o \in all : Rank(all, idf, o) = k - 1
    BY <1>2, <1>3, RankOnto
  <2>2. \E o \in all : Cardinality(Before(o)) = k - 1
    BY <1>4, <2>1
  <2>3. Nth(k) \in all /\ Cardinality(Before(Nth(k))) = k - 1
    BY <2>2
  <2> QED
    BY <1>4, <2>3
<1> HIDE DEF Nth, fresh, Hash
<1>11. \A o \in all : /\ d.closures[o] \in ClosureObject /\ d.closures[o].id = Rank(all, idf, o)
                      /\ d.closures[o].elems = c.closures[o].elems
                      /\ d.closures[o].comefrom = c.closures[o].comefrom
  <2> SUFFICES ASSUME NEW o \in all
               PROVE  /\ d.closures[o] \in ClosureObject /\ d.closures[o].id = Rank(all, idf, o)
                      /\ d.closures[o].elems = c.closures[o].elems
                      /\ d.closures[o].comefrom = c.closures[o].comefrom
    OBVIOUS
  <2> DEFINE r == Rank(all, idf, o)
  <2>1. d.closures[o] = [c.closures[o] EXCEPT !.id = r] /\ r \in Nat
    BY <1>4, <1>8, <1>9
  <2> HIDE DEF r
  <2>2. c.closures[o] \in ClosureObject
    BY <1>1
  <2>3. /\ d.closures[o] \in ClosureObject /\ d.closures[o].id = r
        /\ d.closures[o].elems = c.closures[o].elems
        /\ d.closures[o].comefrom = c.closures[o].comefrom
    BY <2>1, <2>2 DEF ClosureObject
  <2> QED
    BY <2>3 DEF r
<1> HIDE DEF Before
<1>12. \A o, p \in all : d.closures[o].id = d.closures[p].id => o = p
  <2> SUFFICES ASSUME NEW o \in all, NEW p \in all, d.closures[o].id = d.closures[p].id PROVE o = p
    OBVIOUS
  <2>1. Rank(all, idf, o) = Rank(all, idf, p)
    BY <1>11
  <2>2. idf[o] = idf[p]
    BY <1>2, <1>3, <2>1, RankInjective
  <2> QED
    BY <1>3, <2>2
<1>13. /\ d.m_collection \in Seq(Nat)
       /\ \A k \in 1 .. n : d.m_collection[k] \in all /\ Rank(all, idf, d.m_collection[k]) = k - 1
  <2>1. \A k \in 1 .. n : d.m_collection[k] = Nth(k)
    BY <1>9
  <2>2. \A k \in 1 .. n : Nth(k) \in Nat
    BY <1>1, <1>10
  <2>3. d.m_collection \in Seq(Nat)
    BY <1>1, <1>9, <2>2
  <2> QED
    BY <1>10, <2>1, <2>3
<1>14. \A i, j \in 1 .. n : d.m_collection[i] = d.m_collection[j] => i = j
  <2> SUFFICES ASSUME NEW i \in 1 .. n, NEW j \in 1 .. n, d.m_collection[i] = d.m_collection[j]
               PROVE  i = j
    OBVIOUS
  <2>1. i - 1 = j - 1
    BY <1>13
  <2> QED
    BY <2>1
<1>15. \A o \in all : \E k \in 1 .. n : d.m_collection[k] = o
  <2> SUFFICES ASSUME NEW o \in all PROVE \E k \in 1 .. n : d.m_collection[k] = o
    OBVIOUS
  <2> DEFINE k == Rank(all, idf, o) + 1
  <2>1. k \in 1 .. n /\ Rank(all, idf, o) = k - 1
    BY <1>1, <1>8
  <2> HIDE DEF k
  <2>2. d.m_collection[k] \in all /\ Rank(all, idf, d.m_collection[k]) = Rank(all, idf, o)
    BY <1>13, <2>1
  <2>3. idf[d.m_collection[k]] = idf[o]
    BY <1>2, <1>3, <2>2, RankInjective
  <2> QED
    BY <1>3, <2>1, <2>2, <2>3
<1>a. all = Range(c.m_collection)
  OBVIOUS
<1> HIDE DEF all
<1>16. Range(d.m_collection) = all
  <2> DEFINE seq == d.m_collection
  <2>1. /\ DOMAIN seq = 1 .. n /\ \A k \in 1 .. n : seq[k] \in all
        /\ \A o \in all : \E k \in 1 .. n : seq[k] = o
    BY <1>9, <1>13, <1>15
  <2> HIDE DEF seq, n
  <2>2. Range(seq) = all
    BY <2>1 DEF Range
  <2> QED
    BY <2>2 DEF seq
<1>17. IsCollection(d)
  BY <1>1, <1>9, <1>11, <1>12, <1>13, <1>14, <1>16 DEF IsCollection
<1>18. Alike(c, d)
  BY <1>1, <1>a, <1>9, <1>11, <1>16 DEF Alike
<1>19. Numbered(d)
  <2>1. \A k \in 1 .. n : d.closures[d.m_collection[k]].id = k - 1
    BY <1>11, <1>13
  <2>2. Rank(all, idf, 0) = 0
    <3>1. {p \in all : idf[p] < idf[0]} = {}
      BY <1>1, <1>3
    <3> QED
      BY <3>1, FS_EmptySet DEF Rank
  <2>3. PICK k \in 1 .. n : d.m_collection[k] = 0
    BY <1>1, <1>15
  <2>4. k = 1
    BY <1>13, <2>2, <2>3
  <2>5. d.m_collection # <<>> /\ d.m_collection[1] = 0
    BY <1>9, <1>13, <2>3, <2>4, EmptySeq
  <2> QED
    BY <1>9, <2>1, <2>5 DEF Numbered
<1> QED
  BY <1>17, <1>18, <1>19 DEF d

LEMMA TransitionsDoneKeeps ==
    ASSUME LRInv, TransitionsDone
    PROVE  LRInv' /\ ConversionInv' /\ ResultInv'
<1>1. /\ Transiting(lr, frames, g_id) /\ phase = "transitions" /\ Len(frames) = 1
      /\ frames[1].pending = <<>> /\ start \in StartRules /\ mode \in Modes
      /\ closure_map = <<>> /\ coll = Empty
  BY InTransit DEF TransitionsDone, top, LRInv
<1> DEFINE d == Simplify(lr)
<1>2. /\ lr' = d /\ frames' = <<>> /\ reported' = Conflicts(lr)
      /\ phase' = IF mode \in {"convert", "slr"} THEN "states" ELSE "done"
      /\ UNCHANGED <<start, mode, g_id, closure_map, coll>>
  BY DEF TransitionsDone
<1>3. /\ IsCollection(lr) /\ Apart(lr, ~full_lr) /\ ClosuresSound(start, lr)
      /\ TransitionsSound(lr) /\ Remembered(lr) /\ AllCovered(lr, frames) /\ IdsKept(lr, g_id)
      /\ g_id \in Nat
  BY <1>1 DEF Transiting
<1>4. Apart(lr, FALSE)
  <2>1. CASE full_lr
    <3>1. (~full_lr) = FALSE
      BY <2>1
    <3> QED
      BY <1>3, <3>1
  <2>2. CASE ~full_lr
    <3>1. (~full_lr) = TRUE
      BY <2>2
    <3> QED
      BY <1>3, <3>1, ApartByCores
  <2> QED
    BY <2>1, <2>2
<1>5. 0 \in DOMAIN lr.closures /\ lr.closures[0].id = 0
  BY <1>3 DEF ClosuresSound, IdsKept
<1>6. IsCollection(d) /\ Alike(lr, d) /\ Numbered(d)
  BY <1>3, <1>4, <1>5, SimplifyNumbers
<1>7. AllCovered(lr, <<>>)
  <2>1. \A o, X : ~Pending(lr, frames, o, X)
    <3>1. frames \in Seq(Frame)
      BY <1>1 DEF Transiting, FramesOK
    <3>2. \A k \in DOMAIN frames : frames[k].pending = <<>>
      BY <1>1, <3>1
    <3> QED
      BY <3>2 DEF Pending
  <2> QED
    BY <1>3, <2>1 DEF AllCovered
<1> HIDE DEF d
<1>8. /\ Apart(d, ~full_lr) /\ ClosuresSound(start, d) /\ TransitionsSound(d)
      /\ Remembered(d) /\ AllCovered(d, <<>>)
  BY <1>3, <1>6, <1>7, AlikeSound
<1>9. FramesOK(start, d, g_id, <<>>)
  BY DEF FramesOK
<1>10. phase' \in {"states", "done"} /\ (phase' = "done" => mode \in {"lr1", "lalr"})
  BY <1>1, <1>2 DEF Modes
<1>11. LRInv'
  <2>1. start' \in StartRules /\ mode' \in Modes /\ g_id' \in Nat
    BY <1>1, <1>2, <1>3
  <2>2. IsCollection(lr') /\ Apart(lr', ~full_lr') /\ full_lr' = full_lr
    BY <1>2, <1>6, <1>8 DEF full_lr
  <2>3. ClosuresSound(start', lr') /\ TransitionsSound(lr') /\ Remembered(lr')
    BY <1>2, <1>8
  <2>4. FramesOK(start', lr', g_id', frames') /\ AllCovered(lr', frames')
    BY <1>2, <1>8, <1>9
  <2>5. Numbered(lr') /\ frames' = <<>>
    BY <1>2, <1>6
  <2> QED
    BY <1>10, <2>1, <2>2, <2>3, <2>4, <2>5 DEF LRInv
<1>12. ConversionInv'
  <2> SUFFICES ASSUME phase' = "states"
               PROVE  /\ mode' \in {"convert", "slr"}
                      /\ IsCollection(coll') /\ coll'.m_transitions = {} /\ Apart(coll', TRUE)
                      /\ MapOK(lr', closure_map', coll') /\ UnitedOK(start', lr', closure_map', coll')
    BY DEF ConversionInv
  <2>1. mode' \in {"convert", "slr"}
    BY <1>2
  <2>2. coll' = Empty /\ closure_map' = <<>>
    BY <1>1, <1>2
  <2>3. /\ DOMAIN Empty.closures = {} /\ Empty.m_collection = <<>> /\ Empty.m_transitions = {}
        /\ DOMAIN <<>> = {}
    BY DEF Empty
  <2>4. IsCollection(Empty)
    BY <2>3 DEF IsCollection, Range
  <2>5. Apart(Empty, TRUE)
    BY <2>3 DEF Apart
  <2>6. MapOK(d, <<>>, Empty)
    <3>1. IsFiniteSet({}) /\ Cardinality({}) = 0
      BY FS_EmptySet
    <3>2. d.m_collection \in Seq(Nat)
      BY <1>6 DEF IsCollection
    <3>3. Len(d.m_collection) \in Nat
      BY <3>2
    <3>4. {d.m_collection[i] : i \in 1 .. 0} = {}
      OBVIOUS
    <3> QED
      BY <2>3, <3>1, <3>3, <3>4 DEF MapOK
  <2>7. UnitedOK(start, d, <<>>, Empty)
    BY <2>3 DEF UnitedOK
  <2> QED
    BY <1>2, <2>1, <2>2, <2>3, <2>4, <2>5, <2>6, <2>7
<1>13. ResultInv'
  <2> SUFFICES ASSUME phase' = "done"
               PROVE  /\ IsCollection(Result') /\ Numbered(Result')
                      /\ ClosuresSound(start', Result') /\ TransitionsSound(Result')
                      /\ Remembered(Result') /\ TransitionsMade(Result')
                      /\ Conflicts(Result') \subseteq reported'
    BY DEF ResultInv, Generated
  <2>1. Result' = d
    BY <1>2, <1>10 DEF Result
  <2>2. TransitionsMade(d)
    <3>1. \A o, X : ~Pending(d, <<>>, o, X)
      BY DEF Pending
    <3> QED
      BY <1>8, <3>1 DEF AllCovered, Covered, TransitionsMade
  <2>3. Conflicts(d) = Conflicts(lr)
    BY <1>3, <1>6, AlikeConflicts
  <2> QED
    BY <1>2, <1>6, <1>8, <2>1, <2>2, <2>3
<1> QED
  BY <1>11, <1>12, <1>13

-----------------------------------------------------------------------------
\* The start: one closure, and the call for it.
LEMMA StartSound ==
    ASSUME LocalClosureCorrect, NEW s \in StartRules
    PROVE  LET elems == LocalClosure(<<[core |-> <<s, 0>>, las |-> <<g_end>>]>>)
           IN  /\ elems \in Seq(Element) /\ UniqueCores(elems) /\ ElementsSound(s, elems)
               /\ \A core \in CoresOf(elems) : core[2] = 0
<1> DEFINE e == [core |-> <<s, 0>>, las |-> <<g_end>>]
           kernel == <<e>>
           elems == LocalClosure(kernel)
<1>1. s \in RuleNr /\ g_end \in Terminal
  BY CollectionAssumption, GrammarAssumption
<1>2. <<s, 0>> \in Core
  <2>1. Rules[s].rhs \in Seq(Terminal \cup NonTerminal \cup {g_eps})
    BY <1>1, GrammarAssumption
  <2>2. Len(Rules[s].rhs) \in Nat
    BY <2>1
  <2> QED
    BY <1>1, <2>2 DEF Core
<1>3. e \in Element /\ e.core = <<s, 0>> /\ e.las = <<g_end>>
  BY <1>1, <1>2 DEF Element
<1> HIDE DEF e
<1>4. kernel \in Seq(Element) /\ DOMAIN kernel = {1} /\ kernel[1] = e
  BY <1>3
<1> HIDE DEF kernel
<1>5. IsClosureOf(elems, kernel)
  BY <1>4 DEF LocalClosureCorrect
<1> HIDE DEF elems
<1>6. /\ elems \in Seq(Element) /\ UniqueCores(elems)
      /\ \A core \in CoresOf(elems) \ CoresOf(kernel) : OpensRule(CoresOf(elems), core)
      /\ \A x \in ItemsOf(elems) \ ItemsOf(kernel) : OpensRule(CoresOf(elems), x[1])
  BY <1>5 DEF IsClosureOf, ClosureOfKernel
<1>7. CoresOf(kernel) = {<<s, 0>>}
  BY <1>3, <1>4 DEF CoresOf
<1>8. \A x \in ItemsOf(kernel) : x[2] = g_end
  <2>1. Range(e.las) = {g_end}
    <3>1. \A y : <<y>>[1] = y /\ DOMAIN <<y>> = {1}
      OBVIOUS
    <3> QED
      BY <1>3, <3>1 DEF Range
  <2> QED
    BY <1>4, <2>1 DEF ItemsOf
<1>9. \A core \in CoresOf(elems) : core[2] = 0 /\ (core = <<s, 0>> \/ OpensRule(CoresOf(elems), core))
  BY <1>6, <1>7 DEF OpensRule
<1>10. ASSUME NEW x \in ItemsOf(elems), x[1][1] = s PROVE x[2] = g_end
  <2>1. CASE x \in ItemsOf(kernel)
    BY <1>8, <2>1
  <2>2. CASE x \notin ItemsOf(kernel)
    <3>1. PICK c \in CoresOf(elems) : GetSymbolAtCursor(c) = GetLhs(x[1])
      BY <1>6, <2>2 DEF OpensRule
    <3>2. c \in Core
      BY <1>6, <3>1, ElementType
    <3> QED
      BY <1>10, <3>1, <3>2, StartNotCalled
  <2> QED
    BY <2>1, <2>2
<1>11. ElementsSound(s, elems)
  BY <1>9, <1>10 DEF ElementsSound
<1> QED
  BY <1>6, <1>9, <1>11 DEF elems, kernel, e

LEMMA InitHolds ==
    ASSUME LocalClosureCorrect, CollectionInit
    PROVE  CollInv
<1> DEFINE elems == LocalClosure(<<[core |-> <<start, 0>>, las |-> <<g_end>>]>>)
           call == DoTransitionsOf(0, elems, 1)
           object == [id |-> 0, elems |-> elems, comefrom |-> {}]
<1>1. /\ start \in StartRules /\ mode \in Modes /\ phase = "transitions"
      /\ lr = [m_collection |-> <<0>>, closures |-> [o \in {0} |-> object], m_transitions |-> {}]
      /\ frames = <<call>> /\ g_id = 1 + Len(call.pending)
      /\ closure_map = <<>> /\ coll = Empty
  BY DEF CollectionInit
<1>2. /\ elems \in Seq(Element) /\ UniqueCores(elems) /\ ElementsSound(start, elems)
      /\ \A core \in CoresOf(elems) : core[2] = 0
  BY <1>1, StartSound
<1>3. CallOK(start, elems, call, 0, 1)
  BY <1>1, <1>2, CallBegins
<1> HIDE DEF elems, call
<1>4. /\ lr.m_collection = <<0>> /\ lr.m_transitions = {} /\ DOMAIN lr.closures = {0}
      /\ lr.closures[0] = object
  BY <1>1
<1>5. object \in ClosureObject /\ object.elems = elems /\ object.id = 0 /\ object.comefrom = {}
  BY <1>2 DEF ClosureObject
<1> HIDE DEF object
<1>6. <<0>> \in Seq(Nat) /\ DOMAIN <<0>> = {1} /\ <<0>>[1] = 0
  OBVIOUS
<1>7. IsCollection(lr)
  BY <1>2, <1>4, <1>5, <1>6 DEF IsCollection, Range
<1>8. Apart(lr, ~full_lr)
  BY <1>4 DEF Apart
<1>9. ClosuresSound(start, lr)
  BY <1>2, <1>4, <1>5 DEF ClosuresSound
<1>10. TransitionsSound(lr)
  BY <1>4 DEF TransitionsSound
<1>11. Remembered(lr)
  BY <1>4, <1>5 DEF Remembered
<1>12. call \in Frame /\ Len(call.pending) \in Nat
  <2>1. call \in Frame
    BY <1>3 DEF CallOK
  <2>2. call.pending \in Seq(PendingTransition)
    BY <2>1 DEF Frame
  <2> QED
    BY <2>1, <2>2
<1>13. frames = Append(<<>>, call) /\ frames # <<>> /\ <<>> \in Seq(Frame)
  BY <1>1, <1>12
<1>14. FramesOK(start, lr, g_id, frames)
  <2>1. FramesOK(start, lr, 1, <<>>)
    BY DEF FramesOK
  <2>2. 0 \in DOMAIN lr.closures /\ \A o \in DOMAIN lr.closures : o < 1
    BY <1>4
  <2>3. CoresOf(elems) = CoresOf(lr.closures[0].elems)
    BY <1>4, <1>5
  <2> QED
    BY <1>1, <1>3, <1>13, <2>1, <2>2, <2>3, FramesPushed
<1>15. AllCovered(lr, frames)
  <2>1. CallOK(start, lr.closures[0].elems, call, 0, 1)
    BY <1>3, <1>4, <1>5
  <2>2. \A X \in Syms(lr.closures[0].elems) : Pending(lr, frames, 0, X)
    BY <1>13, <2>1, CallPending
  <2> QED
    BY <1>4, <2>2 DEF AllCovered
<1>16. IdsKept(lr, g_id) /\ g_id \in Nat
  BY <1>1, <1>4, <1>5, <1>12 DEF IdsKept
<1>17. LRInv
  BY <1>1, <1>7, <1>8, <1>9, <1>10, <1>11, <1>13, <1>14, <1>15, <1>16 DEF LRInv
<1>18. ConversionInv /\ ResultInv
  BY <1>1 DEF ConversionInv, ResultInv, Generated
<1> QED
  BY <1>17, <1>18 DEF CollInv

-----------------------------------------------------------------------------
\* In the conversion, d becomes e as closure n takes over the old closure o.
TakesOver(c, d, e, o, n, elems) ==
    /\ e.m_collection \in Seq(Nat) /\ e.m_transitions = {}
    /\ \A i, j \in DOMAIN e.m_collection : e.m_collection[i] = e.m_collection[j] => i = j
    /\ Range(e.m_collection) = DOMAIN e.closures
    /\ DOMAIN e.closures = DOMAIN d.closures \cup {n}
    /\ \A p \in DOMAIN d.closures : p # n => e.closures[p] = d.closures[p]
    /\ e.closures[n] =
           [id |-> c.closures[n].id, elems |-> elems,
            comefrom |-> (IF n \in DOMAIN d.closures THEN d.closures[n].comefrom ELSE {})
                             \cup c.closures[o].comefrom]
    /\ elems \in Seq(Element) /\ UniqueCores(elems)
    /\ CoresOf(elems) = CoresOf(c.closures[o].elems)
    /\ IF n \in DOMAIN d.closures THEN CoresOf(elems) = CoresOf(d.closures[n].elems)
       ELSE /\ n = o
            /\ \A p \in DOMAIN d.closures : CoresOf(d.closures[p].elems) # CoresOf(elems)

LEMMA TakenOver ==
    ASSUME NEW s, NEW c, NEW d, NEW map, NEW e, NEW n, NEW elems,
           IsCollection(c), Numbered(c), IsCollection(d), d.m_transitions = {}, Apart(d, TRUE),
           MapOK(c, map, d), UnitedOK(s, c, map, d),
           Cardinality(DOMAIN map) < Len(c.m_collection),
           TakesOver(c, d, e, c.m_collection[Cardinality(DOMAIN map) + 1], n, elems),
           ElementsSound(s, elems)
    PROVE  LET new == With(map, c.m_collection[Cardinality(DOMAIN map) + 1], n)
           IN  /\ IsCollection(e) /\ e.m_transitions = {} /\ Apart(e, TRUE)
               /\ MapOK(c, new, e) /\ UnitedOK(s, c, new, e)
<1> DEFINE m == Cardinality(DOMAIN map)
           o == c.m_collection[m + 1]
           new == With(map, o, n)
<1>1. /\ c.m_collection \in Seq(Nat) /\ DOMAIN c.m_collection = 1 .. Len(c.m_collection)
      /\ Len(c.m_collection) \in Nat
      /\ \A i, j \in DOMAIN c.m_collection : c.m_collection[i] = c.m_collection[j] => i = j
      /\ \A i \in DOMAIN c.m_collection : c.m_collection[i] \in DOMAIN c.closures
      /\ \A p \in DOMAIN c.closures : c.closures[p] \in ClosureObject
      /\ \A p, q \in DOMAIN c.closures : c.closures[p].id = c.closures[q].id => p = q
  <2>1. c.m_collection \in Seq(Nat) /\ Range(c.m_collection) = DOMAIN c.closures
    BY DEF IsCollection
  <2>2. DOMAIN c.m_collection = 1 .. Len(c.m_collection) /\ Len(c.m_collection) \in Nat
    BY <2>1
  <2>3. \A i \in DOMAIN c.m_collection : c.m_collection[i] \in DOMAIN c.closures
    BY <2>1 DEF Range
  <2> QED
    BY <2>1, <2>2, <2>3 DEF IsCollection
<1>2. /\ IsFiniteSet(DOMAIN map) /\ m <= Len(c.m_collection)
      /\ DOMAIN map = {c.m_collection[i] : i \in 1 .. m}
      /\ \A p \in DOMAIN map :
             /\ map[p] \in DOMAIN d.closures
             /\ CoresOf(d.closures[map[p]].elems) = CoresOf(c.closures[p].elems)
      /\ \A p \in DOMAIN d.closures : p \in DOMAIN map /\ map[p] = p
      /\ 0 \in DOMAIN map => 0 \in DOMAIN d.closures
  BY DEF MapOK
<1>3. m \in Nat /\ m + 1 \in 1 .. Len(c.m_collection)
  <2>1. m \in Nat
    BY <1>2, FS_CardinalityType
  <2> QED
    BY <1>1, <2>1
<1>4. TakesOver(c, d, e, o, n, elems)
  OBVIOUS
<1> HIDE DEF m
<1>a. \A p : p \in DOMAIN map <=> \E i \in 1 .. m : p = c.m_collection[i]
  BY <1>2
<1>b. /\ m + 1 \in DOMAIN c.m_collection
      /\ \A i \in 1 .. m : i \in DOMAIN c.m_collection /\ i # m + 1
  BY <1>1, <1>3
<1>5. o \in DOMAIN c.closures /\ o \notin DOMAIN map
  <2>1. o \in DOMAIN c.closures
    BY <1>1, <1>b
  <2>2. ASSUME o \in DOMAIN map PROVE FALSE
    <3>1. PICK i \in 1 .. m : o = c.m_collection[i]
      BY <1>a, <2>2
    <3> QED
      BY <1>1, <1>b, <3>1
  <2> QED
    BY <2>1, <2>2
<1>6. DOMAIN map \subseteq DOMAIN c.closures
  <2> SUFFICES ASSUME NEW p \in DOMAIN map PROVE p \in DOMAIN c.closures
    OBVIOUS
  <2>1. PICK i \in 1 .. m : p = c.m_collection[i]
    BY <1>a
  <2> QED
    BY <1>1, <1>b, <2>1
<1> HIDE DEF o
<1>7. /\ DOMAIN e.closures = DOMAIN d.closures \cup {n}
      /\ \A p \in DOMAIN d.closures : p # n => e.closures[p] = d.closures[p]
      /\ e.closures[n].id = c.closures[n].id /\ e.closures[n].elems = elems
      /\ e.closures[n].comefrom =
             (IF n \in DOMAIN d.closures THEN d.closures[n].comefrom ELSE {}) \cup c.closures[o].comefrom
      /\ n \in DOMAIN d.closures \/ n = o
      /\ n \in DOMAIN c.closures
  <2>1. /\ DOMAIN e.closures = DOMAIN d.closures \cup {n}
        /\ \A p \in DOMAIN d.closures : p # n => e.closures[p] = d.closures[p]
        /\ n \in DOMAIN d.closures \/ n = o
    BY <1>4 DEF TakesOver
  <2>2. /\ e.closures[n].id = c.closures[n].id /\ e.closures[n].elems = elems
        /\ e.closures[n].comefrom =
               (IF n \in DOMAIN d.closures THEN d.closures[n].comefrom ELSE {}) \cup c.closures[o].comefrom
    BY <1>4 DEF TakesOver
  <2>3. n \in DOMAIN c.closures
    BY <1>2, <1>5, <1>6, <2>1
  <2> QED
    BY <2>1, <2>2, <2>3
<1>8. \A p \in DOMAIN e.closures : p # n => p \in DOMAIN d.closures /\ e.closures[p] = d.closures[p]
  BY <1>7
<1>9. /\ \A p \in DOMAIN d.closures :
             /\ d.closures[p].id = c.closures[p].id /\ ElementsSound(s, d.closures[p].elems)
             /\ d.closures[p].comefrom =
                    UNION {c.closures[q].comefrom : q \in {x \in DOMAIN map : map[x] = p}}
      /\ \A p \in DOMAIN d.closures :
             d.closures[p] \in ClosureObject /\ UniqueCores(d.closures[p].elems)
  BY DEF UnitedOK, IsCollection
<1>10. e.closures[n] \in ClosureObject /\ UniqueCores(e.closures[n].elems)
  <2> DEFINE from == (IF n \in DOMAIN d.closures THEN d.closures[n].comefrom ELSE {})
                         \cup c.closures[o].comefrom
  <2>1. c.closures[n].id \in Nat /\ c.closures[o].comefrom \subseteq Symbol \X Nat
    BY <1>1, <1>5, <1>7 DEF ClosureObject
  <2>2. from \subseteq Symbol \X Nat
    BY <1>9, <2>1 DEF ClosureObject
  <2> HIDE DEF from
  <2>3. elems \in Seq(Element) /\ UniqueCores(elems)
        /\ e.closures[n] = [id |-> c.closures[n].id, elems |-> elems, comefrom |-> from]
    BY <1>4 DEF TakesOver, from
  <2> QED
    BY <2>1, <2>2, <2>3 DEF ClosureObject
<1>11. \A p \in DOMAIN e.closures :
           /\ e.closures[p] \in ClosureObject /\ UniqueCores(e.closures[p].elems)
           /\ e.closures[p].id = c.closures[p].id /\ ElementsSound(s, e.closures[p].elems)
           /\ p \in DOMAIN c.closures
  <2> SUFFICES ASSUME NEW p \in DOMAIN e.closures
               PROVE  /\ e.closures[p] \in ClosureObject /\ UniqueCores(e.closures[p].elems)
                      /\ e.closures[p].id = c.closures[p].id /\ ElementsSound(s, e.closures[p].elems)
                      /\ p \in DOMAIN c.closures
    OBVIOUS
  <2>1. CASE p = n
    BY <1>7, <1>10, <2>1
  <2>2. CASE p # n
    <3>1. p \in DOMAIN d.closures /\ e.closures[p] = d.closures[p]
      BY <1>8, <2>2
    <3> QED
      BY <1>2, <1>6, <1>9, <3>1
  <2> QED
    BY <2>1, <2>2
<1>12. IsCollection(e) /\ e.m_transitions = {}
  <2>1. /\ e.m_collection \in Seq(Nat) /\ e.m_transitions = {}
        /\ \A i, j \in DOMAIN e.m_collection : e.m_collection[i] = e.m_collection[j] => i = j
        /\ Range(e.m_collection) = DOMAIN e.closures
    BY <1>4 DEF TakesOver
  <2>2. \A p, q \in DOMAIN e.closures : e.closures[p].id = e.closures[q].id => p = q
    BY <1>1, <1>11
  <2> QED
    BY <1>11, <2>1, <2>2 DEF IsCollection
<1>13. /\ CoresOf(elems) = CoresOf(c.closures[o].elems)
       /\ n \in DOMAIN d.closures => CoresOf(elems) = CoresOf(d.closures[n].elems)
       /\ n \notin DOMAIN d.closures =>
              n = o /\ \A p \in DOMAIN d.closures : CoresOf(d.closures[p].elems) # CoresOf(elems)
  BY <1>4 DEF TakesOver
<1>14. \A p \in DOMAIN d.closures :
           p \in DOMAIN e.closures /\ CoresOf(e.closures[p].elems) = CoresOf(d.closures[p].elems)
  BY <1>7, <1>13
<1>15. Apart(e, TRUE)
  <2>1. \A p \in DOMAIN e.closures : e.closures[p].elems \in Seq(Element)
    BY <1>11 DEF ClosureObject
  <2>2. \A p \in DOMAIN d.closures : d.closures[p].elems \in Seq(Element)
    BY <1>9 DEF ClosureObject
  <2>3. \A p, q \in DOMAIN d.closures :
            CoresOf(d.closures[p].elems) = CoresOf(d.closures[q].elems) => p = q
    BY <2>2, SameHash DEF Apart
  <2>4. ASSUME NEW p \in DOMAIN e.closures, NEW q \in DOMAIN e.closures,
               CoresOf(e.closures[p].elems) = CoresOf(e.closures[q].elems)
        PROVE  p = q
    <3>1. CASE n \in DOMAIN d.closures
      <4>1. p \in DOMAIN d.closures /\ q \in DOMAIN d.closures
        BY <1>8, <3>1
      <4> QED
        BY <1>14, <2>3, <2>4, <4>1
    <3>2. CASE n \notin DOMAIN d.closures
      <4>1. CASE p # n /\ q # n
        BY <1>8, <2>3, <2>4, <4>1
      <4>2. CASE p = n /\ q # n
        BY <1>7, <1>8, <1>13, <2>4, <3>2, <4>2
      <4>3. CASE p # n /\ q = n
        BY <1>7, <1>8, <1>13, <2>4, <3>2, <4>3
      <4> QED
        BY <4>1, <4>2, <4>3
    <3> QED
      BY <3>1, <3>2
  <2> QED
    BY <2>1, <2>4, SameHash DEF Apart
<1>16. /\ DOMAIN new = DOMAIN map \cup {o} /\ new[o] = n
       /\ \A p \in DOMAIN map : new[p] = map[p]
  BY <1>5 DEF With
<1>17. IsFiniteSet(DOMAIN new) /\ Cardinality(DOMAIN new) = m + 1
  <2>1. IsFiniteSet(DOMAIN map \cup {o}) /\ Cardinality(DOMAIN map \cup {o}) = m + 1
    BY <1>2, <1>5, FS_AddElement DEF m
  <2> QED
    BY <1>16, <2>1
<1> HIDE DEF new
<1>18. MapOK(c, new, e)
  <2>1. Cardinality(DOMAIN new) <= Len(c.m_collection)
    BY <1>1, <1>3, <1>17
  <2>2. DOMAIN new = {c.m_collection[i] : i \in 1 .. Cardinality(DOMAIN new)}
    <3>1. \A i : i \in 1 .. m + 1 <=> i \in 1 .. m \/ i = m + 1
      BY <1>3
    <3>2. {c.m_collection[i] : i \in 1 .. m + 1} = {c.m_collection[i] : i \in 1 .. m} \cup {o}
      BY <3>1 DEF o
    <3> QED
      BY <1>2, <1>16, <1>17, <3>2
  <2>3. ASSUME NEW p \in DOMAIN new
        PROVE  /\ new[p] \in DOMAIN e.closures
               /\ CoresOf(e.closures[new[p]].elems) = CoresOf(c.closures[p].elems)
    <3>1. CASE p = o
      BY <1>7, <1>13, <1>16, <3>1
    <3>2. CASE p # o
      BY <1>2, <1>14, <1>16, <3>2
    <3> QED
      BY <3>1, <3>2
  <2>4. ASSUME NEW p \in DOMAIN e.closures PROVE p \in DOMAIN new /\ new[p] = p
    <3>1. CASE p \in DOMAIN d.closures
      BY <1>2, <1>16, <3>1
    <3>2. CASE p \notin DOMAIN d.closures
      BY <1>7, <1>13, <1>16, <3>2
    <3> QED
      BY <3>1, <3>2
  <2>5. ASSUME 0 \in DOMAIN new PROVE 0 \in DOMAIN e.closures
    <3>1. CASE 0 \in DOMAIN map
      BY <1>2, <1>7, <3>1
    <3>2. CASE o = 0
      <4>1. 1 \in DOMAIN c.m_collection /\ c.m_collection[1] = 0 /\ m + 1 \in DOMAIN c.m_collection
        BY <1>1, <1>3, EmptySeq DEF Numbered
      <4>2. m + 1 = 1
        BY <1>1, <3>2, <4>1 DEF o
      <4>3. m = 0
        BY <1>3, <4>2
      <4>4. DOMAIN map = {}
        BY <1>2, <4>3
      <4> QED
        BY <1>2, <1>7, <3>2, <4>4
    <3> QED
      BY <1>16, <2>5, <3>1, <3>2
  <2> QED
    BY <1>17, <2>1, <2>2, <2>3, <2>4, <2>5 DEF MapOK
<1>19. UnitedOK(s, c, new, e)
  <2> DEFINE From(q) == c.closures[q].comefrom
             In(f, p) == {x \in DOMAIN f : f[x] = p}
  <2>1. ASSUME NEW p \in DOMAIN e.closures
        PROVE  e.closures[p].comefrom = UNION {From(q) : q \in In(new, p)}
    <3>1. CASE p # n
      <4>1. In(new, p) = In(map, p)
        BY <1>5, <1>16, <3>1 DEF o
      <4> QED
        BY <1>8, <1>9, <3>1, <4>1
    <3>2. CASE p = n
      <4>1. In(new, n) = In(map, n) \cup {o}
        BY <1>16
      <4>2. UNION {From(q) : q \in In(new, n)} = (UNION {From(q) : q \in In(map, n)}) \cup From(o)
        BY <4>1
      <4>3. n \notin DOMAIN d.closures => In(map, n) = {}
        BY <1>2
      <4>4. UNION {From(q) : q \in In(map, n)} =
                IF n \in DOMAIN d.closures THEN d.closures[n].comefrom ELSE {}
        BY <1>9, <4>3
      <4>5. e.closures[n].comefrom =
                (IF n \in DOMAIN d.closures THEN d.closures[n].comefrom ELSE {}) \cup From(o)
        BY <1>7 DEF o
      <4> QED
        BY <3>2, <4>2, <4>4, <4>5
    <3> QED
      BY <3>1, <3>2
  <2> QED
    BY <1>11, <2>1 DEF UnitedOK
<1> QED
  BY <1>12, <1>15, <1>18, <1>19 DEF new, o, m

\* What the next old closure becomes in the conversion.
Gathering(n, elems) ==
    LET o == lr.m_collection[Cardinality(DOMAIN closure_map) + 1]
    IN  /\ TakesOver(lr, coll, coll', o, n, elems)
        /\ closure_map' = With(closure_map, o, n)
        /\ ElementsSound(start, elems)
        /\ ItemsOf(elems) = ItemsOf(lr.closures[o].elems)
               \cup (IF n \in DOMAIN coll.closures THEN ItemsOf(coll.closures[n].elems) ELSE {})

LEMMA ConvertClosureGathers ==
    ASSUME LRInv, ConversionInv, ConvertClosure
    PROVE  \E n, elems : Gathering(n, elems)
<1> DEFINE m == Cardinality(DOMAIN closure_map)
           o == lr.m_collection[m + 1]
           old == lr.closures[o].elems
           cached == {n \in Range(coll.m_collection) : hash(coll.closures[n].elems, TRUE) = hash(old, TRUE)}
           added == [m_collection |-> Append(coll.m_collection, o),
                     closures |-> With(coll.closures, o, lr.closures[o]), m_transitions |-> {}]
           united(n) == [m_collection |-> coll.m_collection,
                         closures |-> [coll.closures EXCEPT ![n] = ClosureUnited(@, lr.closures[o])],
                         m_transitions |-> {}]
<1>1. /\ phase = "states" /\ m < Len(lr.m_collection)
      /\ UNCHANGED <<start, mode, phase, g_id, lr, frames, reported>>
      /\ \/ cached = {} /\ closure_map' = With(closure_map, o, o) /\ coll' = added
         \/ \E n \in cached : closure_map' = With(closure_map, o, n) /\ coll' = united(n)
  BY DEF ConvertClosure
<1>2. /\ start \in StartRules /\ IsCollection(lr) /\ Numbered(lr) /\ ClosuresSound(start, lr)
  BY <1>1 DEF LRInv
<1>3. /\ mode \in {"convert", "slr"}
      /\ IsCollection(coll) /\ coll.m_transitions = {} /\ Apart(coll, TRUE)
      /\ MapOK(lr, closure_map, coll) /\ UnitedOK(start, lr, closure_map, coll)
  BY <1>1 DEF ConversionInv
<1>4. /\ m \in Nat /\ o \in DOMAIN lr.closures
  <2>1. m \in Nat
    BY <1>3, FS_CardinalityType DEF MapOK
  <2>2. lr.m_collection \in Seq(Nat) /\ Range(lr.m_collection) = DOMAIN lr.closures
    BY <1>2 DEF IsCollection
  <2> HIDE DEF m
  <2>3. m + 1 \in DOMAIN lr.m_collection
    <3>1. DOMAIN lr.m_collection = 1 .. Len(lr.m_collection) /\ Len(lr.m_collection) \in Nat
      BY <2>2
    <3> QED
      BY <1>1, <2>1, <3>1
  <2> QED
    BY <2>1, <2>2, <2>3 DEF Range
<1>5. /\ old \in Seq(Element) /\ UniqueCores(old) /\ ElementsSound(start, old)
      /\ lr.closures[o] \in ClosureObject
  BY <1>2, <1>4 DEF IsCollection, ClosureObject, ClosuresSound
<1>6. /\ coll.m_collection \in Seq(Nat) /\ Range(coll.m_collection) = DOMAIN coll.closures
      /\ \A i, j \in DOMAIN coll.m_collection : coll.m_collection[i] = coll.m_collection[j] => i = j
      /\ \A p \in DOMAIN coll.closures :
             coll.closures[p].elems \in Seq(Element) /\ UniqueCores(coll.closures[p].elems)
      /\ \A p \in DOMAIN coll.closures :
             /\ coll.closures[p].id = lr.closures[p].id
             /\ ElementsSound(start, coll.closures[p].elems)
  BY <1>3 DEF IsCollection, ClosureObject, UnitedOK
<1>7. SUFFICES \E n, elems :
                   /\ TakesOver(lr, coll, coll', o, n, elems)
                   /\ closure_map' = With(closure_map, o, n) /\ ElementsSound(start, elems)
                   /\ ItemsOf(elems) = ItemsOf(old)
                          \cup (IF n \in DOMAIN coll.closures THEN ItemsOf(coll.closures[n].elems) ELSE {})
  BY DEF Gathering
<1>8. CASE cached = {} /\ closure_map' = With(closure_map, o, o) /\ coll' = added
  <2> DEFINE seq == Append(coll.m_collection, o)
             f == With(coll.closures, o, lr.closures[o])
             k == Len(coll.m_collection) + 1
  <2>1. coll'.m_collection = seq /\ coll'.closures = f /\ coll'.m_transitions = {}
    BY <1>8
  <2>2. \A p \in DOMAIN coll.closures : CoresOf(coll.closures[p].elems) # CoresOf(old)
    BY <1>5, <1>6, <1>8, SameHash
  <2> HIDE DEF cached, added, united, m
  <2>3. o \in Nat
    BY <1>2, <1>4 DEF IsCollection, Range
  <2>4. o \notin DOMAIN coll.closures
    <3> SUFFICES ASSUME o \in DOMAIN coll.closures PROVE FALSE
      OBVIOUS
    <3>1. o \in DOMAIN closure_map /\ closure_map[o] = o
      BY <1>3 DEF MapOK
    <3>2. CoresOf(coll.closures[o].elems) = CoresOf(lr.closures[o].elems)
      BY <1>3, <3>1 DEF MapOK
    <3> QED
      BY <2>2, <3>2
  <2> HIDE DEF o
  <2>5. /\ seq \in Seq(Nat) /\ DOMAIN seq = DOMAIN coll.m_collection \cup {k}
        /\ k \notin DOMAIN coll.m_collection /\ seq[k] = o
        /\ \A i \in DOMAIN coll.m_collection : seq[i] = coll.m_collection[i]
        /\ Range(seq) = Range(coll.m_collection) \cup {o}
    BY <1>6, <2>3, Appended
  <2>6. \A i \in DOMAIN coll.m_collection : coll.m_collection[i] # o
    BY <1>6, <2>4 DEF Range
  <2>7. /\ DOMAIN f = DOMAIN coll.closures \cup {o} /\ f[o] = lr.closures[o]
        /\ \A p \in DOMAIN coll.closures : p # o => f[p] = coll.closures[p]
    BY DEF With
  <2> HIDE DEF seq, f, k
  <2>8. \A i, j \in DOMAIN seq : seq[i] = seq[j] => i = j
    BY <1>6, <2>5, <2>6
  <2>9. lr.closures[o] =
            [id |-> lr.closures[o].id, elems |-> old,
             comefrom |-> (IF o \in DOMAIN coll.closures THEN coll.closures[o].comefrom ELSE {})
                              \cup lr.closures[o].comefrom]
    <3>1. (IF o \in DOMAIN coll.closures THEN coll.closures[o].comefrom ELSE {})
              \cup lr.closures[o].comefrom = lr.closures[o].comefrom
      BY <2>4
    <3> QED
      BY <1>5, <3>1 DEF ClosureObject
  <2>10. TakesOver(lr, coll, coll', o, o, old)
    BY <1>5, <1>6, <2>1, <2>2, <2>4, <2>5, <2>7, <2>8, <2>9 DEF TakesOver
  <2>11. ItemsOf(old) = ItemsOf(old)
             \cup (IF o \in DOMAIN coll.closures THEN ItemsOf(coll.closures[o].elems) ELSE {})
    BY <2>4
  <2> QED
    BY <1>5, <1>8, <2>10, <2>11
<1>9. ASSUME NEW n \in cached, closure_map' = With(closure_map, o, n), coll' = united(n)
      PROVE  \E x, elems : /\ TakesOver(lr, coll, coll', o, x, elems)
                           /\ closure_map' = With(closure_map, o, x) /\ ElementsSound(start, elems)
                           /\ ItemsOf(elems) = ItemsOf(old)
                                  \cup (IF x \in DOMAIN coll.closures
                                        THEN ItemsOf(coll.closures[x].elems) ELSE {})
  <2> DEFINE now == coll.closures[n].elems
             elems == AddLookaheads(now, old)
  <2>1. n \in DOMAIN coll.closures /\ hash(now, TRUE) = hash(old, TRUE)
    BY <1>6
  <2>2. CoresOf(now) = CoresOf(old)
    BY <1>5, <1>6, <2>1, SameHash
  <2>3. coll'.closures = [coll.closures EXCEPT ![n] = ClosureUnited(@, lr.closures[o])]
        /\ coll'.m_collection = coll.m_collection /\ coll'.m_transitions = {}
    BY <1>9
  <2> HIDE DEF cached, added, united, m, o
  <2>4. /\ elems \in Seq(Element) /\ UniqueCores(elems) /\ CoresOf(elems) = CoresOf(now)
        /\ ItemsOf(elems) = ItemsOf(now) \cup ItemsOf(old)
    BY <1>5, <1>6, <2>1, <2>2, LookaheadsAdded
  <2>5. ElementsSound(start, elems)
    <3>1. \A core \in CoresOf(elems) :
              /\ core[2] = 0 => core = <<start, 0>> \/ OpensRule(CoresOf(elems), core)
              /\ core[2] > 0 => GetRhs(core)[core[2]] # g_eps
      BY <1>6, <2>1, <2>4 DEF ElementsSound
    <3>2. \A x \in ItemsOf(elems) : x[1][1] = start => x[2] = g_end
      BY <1>5, <1>6, <2>1, <2>4 DEF ElementsSound
    <3> QED
      BY <3>1, <3>2 DEF ElementsSound
  <2>6. /\ DOMAIN coll'.closures = DOMAIN coll.closures
        /\ \A p \in DOMAIN coll.closures : p # n => coll'.closures[p] = coll.closures[p]
        /\ coll'.closures[n] = [id |-> coll.closures[n].id, elems |-> elems,
                                comefrom |-> coll.closures[n].comefrom \cup lr.closures[o].comefrom]
    BY <2>1, <2>3 DEF ClosureUnited
  <2> HIDE DEF elems
  <2>7. coll'.closures[n] =
            [id |-> lr.closures[n].id, elems |-> elems,
             comefrom |-> (IF n \in DOMAIN coll.closures THEN coll.closures[n].comefrom ELSE {})
                              \cup lr.closures[o].comefrom]
    BY <1>6, <2>1, <2>6
  <2>8. TakesOver(lr, coll, coll', o, n, elems)
    BY <1>6, <2>1, <2>2, <2>3, <2>4, <2>6, <2>7 DEF TakesOver
  <2> QED
    BY <1>9, <2>1, <2>4, <2>5, <2>8
<1> QED
  BY <1>1, <1>8, <1>9

LEMMA GatheringKeeps ==
    ASSUME LRInv, ConversionInv, ConvertClosure, NEW n, NEW elems, Gathering(n, elems)
    PROVE  ConversionInv'
<1> DEFINE o == lr.m_collection[Cardinality(DOMAIN closure_map) + 1]
<1>1. /\ phase = "states" /\ Cardinality(DOMAIN closure_map) < Len(lr.m_collection)
      /\ UNCHANGED <<start, mode, phase, g_id, lr, frames, reported>>
  BY DEF ConvertClosure
<1>2. IsCollection(lr) /\ Numbered(lr)
  BY <1>1 DEF LRInv
<1>3. /\ mode \in {"convert", "slr"}
      /\ IsCollection(coll) /\ coll.m_transitions = {} /\ Apart(coll, TRUE)
      /\ MapOK(lr, closure_map, coll) /\ UnitedOK(start, lr, closure_map, coll)
  BY <1>1 DEF ConversionInv
<1>4. /\ TakesOver(lr, coll, coll', o, n, elems)
      /\ closure_map' = With(closure_map, o, n) /\ ElementsSound(start, elems)
  BY DEF Gathering
<1>5. /\ IsCollection(coll') /\ coll'.m_transitions = {} /\ Apart(coll', TRUE)
      /\ MapOK(lr, With(closure_map, o, n), coll')
      /\ UnitedOK(start, lr, With(closure_map, o, n), coll')
  BY <1>1, <1>2, <1>3, <1>4, TakenOver
<1> QED
  BY <1>1, <1>3, <1>4, <1>5 DEF ConversionInv

-----------------------------------------------------------------------------
\* What Converted numbers: the new closures with their transitions.
Joined(c, map, d) ==
    [m_collection |-> d.m_collection,
     closures |-> [o \in DOMAIN d.closures |->
         [d.closures[o] EXCEPT
             !.comefrom = {<<x[1], map[CHOOSE p \in DOMAIN map : c.closures[p].id = c.closures[x[2]].id]>> :
                               x \in @}]],
     m_transitions |-> {<<map[t[1]], map[t[2]], t[3]>> : t \in c.m_transitions}]

LEMMA JoinedClosures ==
    ASSUME NEW s, NEW c, NEW map, NEW d,
           IsCollection(c), Remembered(c), IsCollection(d),
           MapOK(c, map, d), UnitedOK(s, c, map, d), DOMAIN map = DOMAIN c.closures
    PROVE  LET e == Joined(c, map, d)
           IN  /\ e.m_collection = d.m_collection /\ DOMAIN e.closures = DOMAIN d.closures
               /\ e.m_transitions = {<<map[t[1]], map[t[2]], t[3]>> : t \in c.m_transitions}
               /\ \A n \in DOMAIN d.closures :
                      /\ e.closures[n].id = d.closures[n].id
                      /\ e.closures[n].elems = d.closures[n].elems
                      /\ e.closures[n].comefrom = {<<t[3], t[1]>> : t \in {u \in e.m_transitions : u[2] = n}}
                      /\ e.closures[n] \in ClosureObject
<1> DEFINE e == Joined(c, map, d)
           Into(n) == {<<t[3], t[1]>> : t \in {u \in e.m_transitions : u[2] = n}}
           New(x) == <<x[1], map[CHOOSE p \in DOMAIN map : c.closures[p].id = c.closures[x[2]].id]>>
<1>1. /\ e.m_collection = d.m_collection /\ DOMAIN e.closures = DOMAIN d.closures
      /\ e.m_transitions = {<<map[t[1]], map[t[2]], t[3]>> : t \in c.m_transitions}
      /\ \A n \in DOMAIN d.closures :
             e.closures[n] = [d.closures[n] EXCEPT !.comefrom = {New(x) : x \in @}]
  BY DEF Joined
<1>2. /\ \A o, p \in DOMAIN c.closures : c.closures[o].id = c.closures[p].id => o = p
      /\ c.m_transitions \subseteq (DOMAIN c.closures) \X (DOMAIN c.closures) \X Symbol
      /\ \A n \in DOMAIN d.closures : d.closures[n] \in ClosureObject
      /\ \A o \in DOMAIN c.closures : map[o] \in DOMAIN d.closures
      /\ DOMAIN d.closures \subseteq Nat
  <2>1. DOMAIN d.closures \subseteq Nat
    BY DEF IsCollection, Range
  <2> QED
    BY <2>1 DEF IsCollection, MapOK
<1>3. \A o \in DOMAIN c.closures :
          (CHOOSE p \in DOMAIN map : c.closures[p].id = c.closures[o].id) = o
  BY <1>2
<1> HIDE DEF e
<1>4. ASSUME NEW n \in DOMAIN d.closures
      PROVE  {New(x) : x \in d.closures[n].comefrom} = Into(n)
  <2>1. d.closures[n].comefrom = UNION {c.closures[o].comefrom : o \in {p \in DOMAIN map : map[p] = n}}
    BY DEF UnitedOK
  <2>2. \A x : x \in d.closures[n].comefrom <=>
                 \E o \in DOMAIN map : map[o] = n /\ x \in c.closures[o].comefrom
    BY <2>1
  <2>3. \A o \in DOMAIN map : \A x :
            x \in c.closures[o].comefrom <=> \E t \in c.m_transitions : t[2] = o /\ x = <<t[3], t[1]>>
    BY DEF Remembered
  <2>4. \A x : x \in d.closures[n].comefrom <=>
                 \E t \in c.m_transitions : map[t[2]] = n /\ x = <<t[3], t[1]>>
    <3>1. \A t \in c.m_transitions : t[2] \in DOMAIN map
      BY <1>2
    <3> QED
      BY <2>2, <2>3, <3>1
  <2>5. \A t \in c.m_transitions : New(<<t[3], t[1]>>) = <<t[3], map[t[1]]>>
    BY <1>2, <1>3
  <2>6. \A t \in c.m_transitions : LET u == <<map[t[1]], map[t[2]], t[3]>>
                                   IN  u[1] = map[t[1]] /\ u[2] = map[t[2]] /\ u[3] = t[3]
    OBVIOUS
  <2>7. \A y : y \in Into(n) <=> \E u \in e.m_transitions : u[2] = n /\ y = <<u[3], u[1]>>
    OBVIOUS
  <2>8. \A y : y \in Into(n) <=> \E t \in c.m_transitions : map[t[2]] = n /\ y = <<t[3], map[t[1]]>>
    <3>1. \A u : u \in e.m_transitions <=>
                     \E t \in c.m_transitions : u = <<map[t[1]], map[t[2]], t[3]>>
      BY <1>1
    <3>2. ASSUME NEW y, NEW t \in c.m_transitions, map[t[2]] = n, y = <<t[3], map[t[1]]>>
          PROVE  y \in Into(n)
      <4> DEFINE u == <<map[t[1]], map[t[2]], t[3]>>
      <4>1. u[1] = map[t[1]] /\ u[2] = map[t[2]] /\ u[3] = t[3] /\ u \in e.m_transitions
        BY <3>1
      <4> QED
        BY <2>7, <3>2, <4>1
    <3>3. ASSUME NEW y \in Into(n)
          PROVE  \E t \in c.m_transitions : map[t[2]] = n /\ y = <<t[3], map[t[1]]>>
      <4>1. PICK u \in e.m_transitions : u[2] = n /\ y = <<u[3], u[1]>>
        BY <2>7
      <4>2. PICK t \in c.m_transitions : u = <<map[t[1]], map[t[2]], t[3]>>
        BY <3>1
      <4>3. u[1] = map[t[1]] /\ u[2] = map[t[2]] /\ u[3] = t[3]
        BY <4>2
      <4> QED
        BY <4>1, <4>3
    <3> QED
      BY <3>2, <3>3
  <2>9. \A y : y \in {New(x) : x \in d.closures[n].comefrom} <=>
                   \E x \in d.closures[n].comefrom : y = New(x)
    OBVIOUS
  <2> HIDE DEF New, Into
  <2>10. \A y : y \in {New(x) : x \in d.closures[n].comefrom} <=> y \in Into(n)
    <3>1. ASSUME NEW x \in d.closures[n].comefrom PROVE New(x) \in Into(n)
      <4>1. PICK t \in c.m_transitions : map[t[2]] = n /\ x = <<t[3], t[1]>>
        BY <2>4
      <4> QED
        BY <2>5, <2>8, <4>1
    <3>2. ASSUME NEW y \in Into(n) PROVE \E x \in d.closures[n].comefrom : y = New(x)
      <4>1. PICK t \in c.m_transitions : map[t[2]] = n /\ y = <<t[3], map[t[1]]>>
        BY <2>8
      <4>2. <<t[3], t[1]>> \in d.closures[n].comefrom
        BY <2>4, <4>1
      <4> QED
        BY <2>5, <4>1, <4>2
    <3> QED
      BY <2>9, <3>1, <3>2
  <2> QED
    BY <2>10
<1>5. ASSUME NEW n \in DOMAIN d.closures
      PROVE  /\ e.closures[n].id = d.closures[n].id /\ e.closures[n].elems = d.closures[n].elems
             /\ e.closures[n].comefrom = Into(n) /\ e.closures[n] \in ClosureObject
  <2>1. Into(n) \subseteq Symbol \X Nat
    <3> SUFFICES ASSUME NEW t \in c.m_transitions
                 PROVE  <<t[3], map[t[1]]>> \in Symbol \X Nat
      BY <1>1
    <3>1. t[3] \in Symbol /\ map[t[1]] \in DOMAIN d.closures
      BY <1>2
    <3> QED
      BY <1>2, <3>1
  <2>2. e.closures[n] = [d.closures[n] EXCEPT !.comefrom = Into(n)]
    BY <1>1, <1>4
  <2>3. d.closures[n] \in ClosureObject
    BY <1>2
  <2> HIDE DEF Into
  <2> QED
    BY <2>1, <2>2, <2>3 DEF ClosureObject
<1> QED
  BY <1>1, <1>5 DEF e

\* The transition symbols are those of the cores.
LEMMA SameCoresSameSyms ==
    ASSUME NEW a, NEW b, CoresOf(a) = CoresOf(b)
    PROVE  Syms(a) = Syms(b)
BY DEF Syms

LEMMA JoinedSound ==
    ASSUME NEW s, NEW c, NEW map, NEW d,
           IsCollection(c), Numbered(c), ClosuresSound(s, c), TransitionsSound(c), Remembered(c),
           AllCovered(c, <<>>), IsCollection(d), Apart(d, TRUE),
           MapOK(c, map, d), UnitedOK(s, c, map, d), DOMAIN map = DOMAIN c.closures
    PROVE  LET e == Joined(c, map, d)
           IN  /\ IsCollection(e) /\ Apart(e, TRUE)
               /\ 0 \in DOMAIN e.closures /\ e.closures[0].id = 0
               /\ ClosuresSound(s, e) /\ TransitionsSound(e) /\ Remembered(e) /\ TransitionsMade(e)
<1> DEFINE e == Joined(c, map, d)
<1>1. /\ e.m_collection = d.m_collection /\ DOMAIN e.closures = DOMAIN d.closures
      /\ e.m_transitions = {<<map[t[1]], map[t[2]], t[3]>> : t \in c.m_transitions}
      /\ \A n \in DOMAIN d.closures :
             /\ e.closures[n].id = d.closures[n].id
             /\ e.closures[n].elems = d.closures[n].elems
             /\ e.closures[n].comefrom = {<<t[3], t[1]>> : t \in {u \in e.m_transitions : u[2] = n}}
             /\ e.closures[n] \in ClosureObject
  BY JoinedClosures
<1>2. /\ \A o \in DOMAIN c.closures :
             /\ map[o] \in DOMAIN d.closures
             /\ CoresOf(d.closures[map[o]].elems) = CoresOf(c.closures[o].elems)
      /\ \A n \in DOMAIN d.closures : n \in DOMAIN c.closures /\ map[n] = n
      /\ 0 \in DOMAIN c.closures => 0 \in DOMAIN d.closures
  BY DEF MapOK
<1>3. \A n \in DOMAIN d.closures :
          /\ d.closures[n].id = c.closures[n].id /\ ElementsSound(s, d.closures[n].elems)
  BY DEF UnitedOK
<1>4. \A t \in c.m_transitions :
          /\ t[1] \in DOMAIN c.closures /\ t[2] \in DOMAIN c.closures /\ t[3] \in Symbol
          /\ LET u == <<map[t[1]], map[t[2]], t[3]>>
             IN  u[1] = map[t[1]] /\ u[2] = map[t[2]] /\ u[3] = t[3]
  BY DEF IsCollection
<1> HIDE DEF e
<1>5. IsCollection(e)
  <2>1. e.m_transitions \subseteq (DOMAIN e.closures) \X (DOMAIN e.closures) \X Symbol
    <3> SUFFICES ASSUME NEW t \in c.m_transitions
                 PROVE  <<map[t[1]], map[t[2]], t[3]>> \in (DOMAIN e.closures) \X (DOMAIN e.closures) \X Symbol
      BY <1>1
    <3> QED
      BY <1>1, <1>2, <1>4
  <2> QED
    BY <1>1, <2>1 DEF IsCollection
<1>6. Apart(e, TRUE)
  BY <1>1 DEF Apart
<1>7. 0 \in DOMAIN e.closures /\ e.closures[0].id = 0
  <2>1. 0 \in DOMAIN c.closures
    BY DEF ClosuresSound
  <2>2. c.closures[0].id = 0
    <3>1. c.m_collection \in Seq(Nat)
      BY DEF IsCollection
    <3>2. 1 \in DOMAIN c.m_collection
      BY <3>1, EmptySeq DEF Numbered
    <3> QED
      BY <3>2 DEF Numbered
  <2> QED
    BY <1>1, <1>2, <1>3, <2>1, <2>2
<1>8. ClosuresSound(s, e)
  <2>1. CoresOf(e.closures[0].elems) = CoresOf(c.closures[0].elems)
    BY <1>1, <1>2, <1>7
  <2>2. \A n \in DOMAIN e.closures : ElementsSound(s, e.closures[n].elems)
    BY <1>1, <1>3
  <2>3. \A n \in DOMAIN e.closures \ {0} : AllCalledFor(CoresOf(e.closures[n].elems))
    <3>1. \A n \in DOMAIN e.closures :
              n \in DOMAIN c.closures /\ CoresOf(e.closures[n].elems) = CoresOf(c.closures[n].elems)
      BY <1>1, <1>2
    <3> QED
      BY <3>1 DEF ClosuresSound
  <2> QED
    BY <1>7, <2>1, <2>2, <2>3 DEF ClosuresSound
<1>9. TransitionsSound(e)
  <2> SUFFICES ASSUME NEW u \in e.m_transitions
               PROVE  Follows(CoresOf(e.closures[u[1]].elems), u[3], CoresOf(e.closures[u[2]].elems))
    BY DEF TransitionsSound
  <2>1. PICK t \in c.m_transitions : u = <<map[t[1]], map[t[2]], t[3]>>
    BY <1>1
  <2>2. u[1] = map[t[1]] /\ u[2] = map[t[2]] /\ u[3] = t[3]
    BY <2>1
  <2>3. /\ CoresOf(e.closures[u[1]].elems) = CoresOf(c.closures[t[1]].elems)
        /\ CoresOf(e.closures[u[2]].elems) = CoresOf(c.closures[t[2]].elems)
    <3>1. \A o \in DOMAIN c.closures :
              CoresOf(e.closures[map[o]].elems) = CoresOf(c.closures[o].elems)
      <4>1. \A n \in DOMAIN d.closures : e.closures[n].elems = d.closures[n].elems
        BY <1>1
      <4> QED
        BY <1>2, <4>1
    <3>2. t[1] \in DOMAIN c.closures /\ t[2] \in DOMAIN c.closures
      BY <1>4
    <3> QED
      BY <2>2, <3>1, <3>2
  <2> QED
    BY <2>2, <2>3 DEF TransitionsSound
<1>10. Remembered(e)
  BY <1>1 DEF Remembered
<1>11. TransitionsMade(e)
  <2> SUFFICES ASSUME NEW n \in DOMAIN e.closures, NEW X \in Syms(e.closures[n].elems)
               PROVE  \E u \in e.m_transitions : u[1] = n /\ u[3] = X
    BY DEF TransitionsMade
  <2>1. n \in DOMAIN c.closures /\ map[n] = n /\ n \in DOMAIN d.closures
    BY <1>1, <1>2
  <2>2. CoresOf(e.closures[n].elems) = CoresOf(c.closures[n].elems)
    BY <1>1, <1>2, <2>1
  <2>3. X \in Syms(c.closures[n].elems)
    BY <2>2, SameCoresSameSyms
  <2>4. Covered(c, n, X)
    BY <2>1, <2>3 DEF AllCovered, Pending
  <2>5. PICK t \in c.m_transitions : t[1] = n /\ t[3] = X
    BY <2>4 DEF Covered
  <2>6. <<map[t[1]], map[t[2]], t[3]>> \in e.m_transitions
    BY <1>1
  <2> QED
    BY <1>4, <2>1, <2>5, <2>6
<1> QED
  BY <1>5, <1>6, <1>7, <1>8, <1>9, <1>10, <1>11 DEF e

\* Look-aheads are not what transitions, numbers and cores depend on.
LEMMA SlrSound ==
    ASSUME NEW s \in StartRules, NEW c, IsCollection(c), Numbered(c), ClosuresSound(s, c),
           TransitionsSound(c), Remembered(c), TransitionsMade(c)
    PROVE  LET d == SetLookaheads(c)
           IN  /\ IsCollection(d) /\ Numbered(d) /\ ClosuresSound(s, d)
               /\ TransitionsSound(d) /\ Remembered(d) /\ TransitionsMade(d)
<1> DEFINE d == SetLookaheads(c)
           New(elems) == [i \in DOMAIN elems |->
                             [elems[i] EXCEPT !.las = Listed(Follow[GetLhs(elems[i].core)])]]
<1>1. /\ d.m_collection = c.m_collection /\ d.m_transitions = c.m_transitions
      /\ DOMAIN d.closures = DOMAIN c.closures
      /\ \A o \in DOMAIN c.closures : d.closures[o] = [c.closures[o] EXCEPT !.elems = New(@)]
  BY DEF SetLookaheads
<1>2. \A o \in DOMAIN c.closures :
          /\ c.closures[o] \in ClosureObject /\ UniqueCores(c.closures[o].elems)
          /\ ElementsSound(s, c.closures[o].elems)
  BY DEF IsCollection, ClosuresSound
<1>3. ASSUME NEW elems \in Seq(Element)
      PROVE  /\ New(elems) \in Seq(Element) /\ CoresOf(New(elems)) = CoresOf(elems)
             /\ UniqueCores(elems) => UniqueCores(New(elems))
             /\ ElementsSound(s, elems) => ElementsSound(s, New(elems))
  <2> DEFINE new == New(elems)
             las(i) == Listed(Follow[GetLhs(elems[i].core)])
  <2>1. DOMAIN new = DOMAIN elems /\ DOMAIN elems = 1 .. Len(elems) /\ Len(elems) \in Nat
    OBVIOUS
  <2>2. ASSUME NEW i \in DOMAIN elems
        PROVE  /\ new[i] \in Element /\ new[i].core = elems[i].core
               /\ Range(new[i].las) = Follow[GetLhs(elems[i].core)]
    <3>1. elems[i] \in Element /\ elems[i].core \in Core
      BY ElementType
    <3>2. GetLhs(elems[i].core) \in NonTerminal
      BY <3>1, CoreType
    <3>3. Follow[GetLhs(elems[i].core)] \in SUBSET Terminal
      BY <3>2, CollectionAssumption
    <3>4. las(i) \in Seq(Terminal) /\ Range(las(i)) = Follow[GetLhs(elems[i].core)]
      BY <3>3, ListedRange
    <3>5. new[i] = [elems[i] EXCEPT !.las = las(i)]
      OBVIOUS
    <3> HIDE DEF las, new
    <3> QED
      BY <3>1, <3>4, <3>5 DEF Element
  <2> HIDE DEF new
  <2>3. new \in Seq(Element)
    <3>1. new \in [1 .. Len(elems) -> Element]
      <4>1. new = [i \in DOMAIN elems |-> new[i]]
        BY DEF new
      <4> QED
        BY <2>1, <2>2, <4>1
    <3> QED
      BY <2>1, <3>1
  <2>4. CoresOf(new) = CoresOf(elems)
    BY <2>1, <2>2 DEF CoresOf
  <2>5. UniqueCores(elems) => UniqueCores(new)
    BY <2>1, <2>2 DEF UniqueCores
  <2>6. ASSUME ElementsSound(s, elems) PROVE ElementsSound(s, new)
    <3>1. \A core \in CoresOf(new) :
              /\ core[2] = 0 => core = <<s, 0>> \/ OpensRule(CoresOf(new), core)
              /\ core[2] > 0 => GetRhs(core)[core[2]] # g_eps
      BY <2>4, <2>6 DEF ElementsSound
    <3>2. ASSUME NEW x \in ItemsOf(new), x[1][1] = s PROVE x[2] = g_end
      <4>1. PICK i \in DOMAIN new : \E la \in Range(new[i].las) : x = <<new[i].core, la>>
        BY DEF ItemsOf
      <4>2. x[2] \in Follow[GetLhs(elems[i].core)] /\ elems[i].core[1] = s
        BY <2>1, <2>2, <3>2, <4>1
      <4>3. GetLhs(elems[i].core) = Rules[s].lhs
        BY <4>2 DEF GetLhs
      <4> QED
        BY <4>2, <4>3, StartAssumption
    <3> QED
      BY <3>1, <3>2 DEF ElementsSound
  <2> QED
    BY <2>3, <2>4, <2>5, <2>6 DEF new
<1> HIDE DEF d, New
<1>4. \A o \in DOMAIN c.closures :
          /\ d.closures[o] \in ClosureObject /\ d.closures[o].id = c.closures[o].id
          /\ d.closures[o].comefrom = c.closures[o].comefrom
          /\ CoresOf(d.closures[o].elems) = CoresOf(c.closures[o].elems)
          /\ UniqueCores(d.closures[o].elems) /\ ElementsSound(s, d.closures[o].elems)
  <2> SUFFICES ASSUME NEW o \in DOMAIN c.closures
               PROVE  /\ d.closures[o] \in ClosureObject /\ d.closures[o].id = c.closures[o].id
                      /\ d.closures[o].comefrom = c.closures[o].comefrom
                      /\ CoresOf(d.closures[o].elems) = CoresOf(c.closures[o].elems)
                      /\ UniqueCores(d.closures[o].elems) /\ ElementsSound(s, d.closures[o].elems)
    OBVIOUS
  <2>1. d.closures[o] = [c.closures[o] EXCEPT !.elems = New(c.closures[o].elems)]
    BY <1>1
  <2>2. c.closures[o] \in ClosureObject /\ c.closures[o].elems \in Seq(Element)
    BY <1>2 DEF ClosureObject
  <2>3. New(c.closures[o].elems) \in Seq(Element)
    BY <1>3, <2>2
  <2>4. /\ d.closures[o] \in ClosureObject /\ d.closures[o].id = c.closures[o].id
        /\ d.closures[o].comefrom = c.closures[o].comefrom
        /\ d.closures[o].elems = New(c.closures[o].elems)
    BY <2>1, <2>2, <2>3 DEF ClosureObject
  <2> QED
    BY <1>2, <1>3, <2>2, <2>4
<1>5. IsCollection(d)
  BY <1>1, <1>4 DEF IsCollection
<1>6. Numbered(d)
  <2>1. \A k \in DOMAIN c.m_collection : c.m_collection[k] \in DOMAIN c.closures
    BY DEF IsCollection, Range
  <2>2. \A k \in DOMAIN c.m_collection : d.closures[c.m_collection[k]].id = k - 1
    <3>1. \A k \in DOMAIN c.m_collection : c.closures[c.m_collection[k]].id = k - 1
      BY DEF Numbered
    <3>2. \A o \in DOMAIN c.closures : d.closures[o].id = c.closures[o].id
      BY <1>4
    <3> QED
      BY ONLY <2>1, <3>1, <3>2
  <2>3. c.m_collection # <<>> /\ c.m_collection[1] = 0
    BY DEF Numbered
  <2> QED
    BY ONLY <1>1, <2>2, <2>3 DEF Numbered
<1>7. ClosuresSound(s, d)
  BY <1>1, <1>4 DEF ClosuresSound
<1>8. TransitionsSound(d)
  <2>1. \A t \in c.m_transitions : t[1] \in DOMAIN c.closures /\ t[2] \in DOMAIN c.closures
    BY DEF IsCollection
  <2> QED
    BY <1>1, <1>4, <2>1 DEF TransitionsSound
<1>9. Remembered(d)
  BY <1>1, <1>4 DEF Remembered
<1>10. TransitionsMade(d)
  <2> SUFFICES ASSUME NEW o \in DOMAIN d.closures, NEW X \in Syms(d.closures[o].elems)
               PROVE  \E t \in d.m_transitions : t[1] = o /\ t[3] = X
    BY DEF TransitionsMade
  <2>1. o \in DOMAIN c.closures /\ X \in Syms(c.closures[o].elems)
    BY <1>1, <1>4, SameCoresSameSyms
  <2> QED
    BY <1>1, <2>1 DEF TransitionsMade
<1> QED
  BY <1>5, <1>6, <1>7, <1>8, <1>9, <1>10 DEF d

LEMMA ConversionDoneKeeps ==
    ASSUME LRInv, ConversionInv, ConversionDone
    PROVE  ResultInv'
<1> DEFINE c == Joined(lr, closure_map, coll)
           d == Simplify(c)
<1>1. /\ phase = "states" /\ Cardinality(DOMAIN closure_map) = Len(lr.m_collection)
      /\ coll' = IF mode = "slr" THEN SetLookaheads(Converted) ELSE Converted
      /\ reported' = ConflictsOfAll(coll') /\ phase' = "done"
      /\ UNCHANGED <<start, mode, g_id, lr, frames, closure_map>>
  BY DEF ConversionDone
<1>2. /\ start \in StartRules /\ IsCollection(lr) /\ Numbered(lr)
      /\ ClosuresSound(start, lr) /\ TransitionsSound(lr) /\ Remembered(lr)
      /\ AllCovered(lr, <<>>)
  BY <1>1 DEF LRInv
<1>3. /\ mode \in {"convert", "slr"} /\ IsCollection(coll) /\ Apart(coll, TRUE)
      /\ MapOK(lr, closure_map, coll) /\ UnitedOK(start, lr, closure_map, coll)
  BY <1>1 DEF ConversionInv
<1>4. Converted = d
  BY DEF Converted, Joined, NewComefrom
<1>5. DOMAIN closure_map = DOMAIN lr.closures
  <2>1. DOMAIN closure_map = {lr.m_collection[i] : i \in 1 .. Len(lr.m_collection)}
    BY <1>1, <1>3 DEF MapOK
  <2>2. lr.m_collection \in Seq(Nat) /\ Range(lr.m_collection) = DOMAIN lr.closures
    BY <1>2 DEF IsCollection
  <2>3. DOMAIN lr.m_collection = 1 .. Len(lr.m_collection)
    BY <2>2
  <2> QED
    BY <2>1, <2>2, <2>3 DEF Range
<1>6. /\ IsCollection(c) /\ Apart(c, TRUE) /\ 0 \in DOMAIN c.closures /\ c.closures[0].id = 0
      /\ ClosuresSound(start, c) /\ TransitionsSound(c) /\ Remembered(c) /\ TransitionsMade(c)
  BY <1>2, <1>3, <1>5, JoinedSound
<1> HIDE DEF c
<1>7. IsCollection(d) /\ Alike(c, d) /\ Numbered(d)
  BY <1>6, ApartByCores, SimplifyNumbers
<1> HIDE DEF d
<1>8. ClosuresSound(start, d) /\ TransitionsSound(d) /\ Remembered(d) /\ TransitionsMade(d)
  BY <1>6, <1>7, AlikeSound
<1>9. /\ IsCollection(coll') /\ Numbered(coll') /\ ClosuresSound(start, coll')
      /\ TransitionsSound(coll') /\ Remembered(coll') /\ TransitionsMade(coll')
  <2>1. CASE mode = "slr"
    BY <1>1, <1>2, <1>4, <1>7, <1>8, <2>1, SlrSound
  <2>2. CASE mode # "slr"
    BY <1>1, <1>4, <1>7, <1>8, <2>2
  <2> QED
    BY <2>1, <2>2
<1>10. Result' = coll' /\ start' = start
  BY <1>1, <1>3 DEF Result
<1>11. Conflicts(Result') \subseteq reported'
  BY <1>1, <1>10 DEF ConflictsOfAll
<1> QED
  BY <1>9, <1>10, <1>11 DEF ResultInv

-----------------------------------------------------------------------------
LEMMA LRKept ==
    ASSUME LRInv, phase # "transitions", phase' # "transitions", phase' \in {"states", "done"},
           UNCHANGED <<start, mode, g_id, lr, frames>>
    PROVE  LRInv'
BY DEF LRInv, full_lr

LEMMA StepKeeps ==
    ASSUME LocalClosureCorrect, CollInv, [CollectionNext]_collvars
    PROVE  CollInv'
<1>1. LRInv /\ ConversionInv /\ ResultInv
  BY DEF CollInv
<1>2. CASE NewClosure
  <2>1. phase' = "transitions"
    BY <1>2 DEF NewClosure
  <2> QED
    BY <1>1, <1>2, <2>1, TransitionsKeep DEF CollInv, ConversionInv, ResultInv, Generated
<1>3. CASE OldClosure
  <2>1. phase' = "transitions"
    BY <1>3 DEF OldClosure
  <2> QED
    BY <1>1, <1>3, <2>1, TransitionsKeep DEF CollInv, ConversionInv, ResultInv, Generated
<1>4. CASE Return
  <2>1. phase' = "transitions"
    BY <1>4 DEF Return
  <2> QED
    BY <1>1, <1>4, <2>1, ReturnKeeps DEF CollInv, ConversionInv, ResultInv, Generated
<1>5. CASE TransitionsDone
  BY <1>1, <1>5, TransitionsDoneKeeps DEF CollInv
<1>6. CASE ConvertClosure
  <2>1. /\ phase = "states" /\ phase' = "states"
        /\ UNCHANGED <<start, mode, g_id, lr, frames>>
    BY <1>6 DEF ConvertClosure
  <2>2. LRInv'
    BY <1>1, <2>1, LRKept
  <2>3. ConversionInv'
    BY <1>1, <1>6, ConvertClosureGathers, GatheringKeeps
  <2> QED
    BY <2>1, <2>2, <2>3 DEF CollInv, ResultInv, Generated
<1>7. CASE ConversionDone
  <2>1. /\ phase = "states" /\ phase' = "done"
        /\ UNCHANGED <<start, mode, g_id, lr, frames>>
    BY <1>7 DEF ConversionDone
  <2>2. LRInv'
    BY <1>1, <2>1, LRKept
  <2>3. ResultInv'
    BY <1>1, <1>7, ConversionDoneKeeps
  <2> QED
    BY <2>1, <2>2, <2>3 DEF CollInv, ConversionInv
<1>8. CASE UNCHANGED collvars
  <2>1. UNCHANGED <<start, mode, phase, g_id, lr, frames, closure_map, coll, reported>>
    BY <1>8 DEF collvars
  <2>2. LRInv'
    BY <1>1, <2>1 DEF LRInv, full_lr
  <2>3. ConversionInv'
    BY <1>1, <2>1 DEF ConversionInv
  <2>4. ResultInv'
    BY <1>1, <2>1 DEF ResultInv, Generated, Result
  <2> QED
    BY <2>2, <2>3, <2>4 DEF CollInv
<1> QED
  BY <1>2, <1>3, <1>4, <1>5, <1>6, <1>7, <1>8 DEF CollectionNext, Generate, CollectionDone

LEMMA InvImplies ==
    ASSUME CollInv
    PROVE  ComefromsExact /\ NoStaleClosure
<1>1. ComefromsExact
  BY DEF CollInv, ResultInv, Remembered, ComefromsExact
<1>2. ASSUME phase = "transitions", NEW o \in DOMAIN lr.closures,
             ~(\E k \in DOMAIN frames : frames[k].from = o),
             NEW X \in Range(GetPossibleTransitions(lr.closures[o].elems))
      PROVE  Covered(lr, o, X)
  <2>1. IsCollection(lr) /\ AllCovered(lr, frames)
    BY DEF CollInv, LRInv
  <2>2. lr.closures[o].elems \in Seq(Element)
    BY <2>1 DEF IsCollection, ClosureObject
  <2>3. X \in Syms(lr.closures[o].elems)
    BY <1>2, <2>2, SymsType
  <2>4. ~Pending(lr, frames, o, X)
    BY <1>2 DEF Pending
  <2> QED
    BY <2>1, <2>3, <2>4 DEF AllCovered
<1>3. NoStaleClosure
  <2> SUFFICES ASSUME phase = "transitions", NEW o \in DOMAIN lr.closures,
                      ~(\E k \in DOMAIN frames : frames[k].from = o),
                      NEW X \in Range(GetPossibleTransitions(lr.closures[o].elems))
               PROVE  Covered(lr, o, X)
    BY DEF NoStaleClosure, Covered
  <2> QED
    BY <1>2
<1> QED
  BY <1>1, <1>3

\* The inductive invariant: while transitions are made every transition of a
\* closure is there or will be made by a call that is still running, and what
\* is remembered of transitions is what was made; the conversions keep this.
THEOREM CollectionInvariant ==
    ASSUME LocalClosureCorrect PROVE CollectionSpec => []CollInv
<1>1. CollectionInit => CollInv
  BY InitHolds
<1>2. CollInv /\ [CollectionNext]_collvars => CollInv'
  BY StepKeeps
<1> QED
  BY <1>1, <1>2, PTL DEF CollectionSpec

\* In the LALR(1) case no closure is left with transitions that were made for
\* fewer look-aheads than it has, whatever the grammar: the call of
\* DoTransitions that adds look-aheads to a closure makes its transitions again.
THEOREM TransitionsNotStale ==
    ASSUME LocalClosureCorrect PROVE CollectionSpec => []NoStaleClosure
<1>1. CollInv => NoStaleClosure
  BY InvImplies
<1>2. CollectionSpec => []CollInv
  BY CollectionInvariant
<1> QED
  BY <1>1, <1>2, PTL

\* The closures of every collection, converted or not, remember exactly the
\* transitions that lead to them.
THEOREM ComefromsAreTransitions ==
    ASSUME LocalClosureCorrect PROVE CollectionSpec => []ComefromsExact
<1>1. CollInv => ComefromsExact
  BY InvImplies
<1>2. CollectionSpec => []CollInv
  BY CollectionInvariant
<1> QED
  BY <1>1, <1>2, PTL

-----------------------------------------------------------------------------
(* What a closure implies *)

\* A nonterminal behind the cursor stands in a right-hand side without epsilon.
LEMMA CursorAtNonterminal ==
    ASSUME NEW core \in Core, GetSymbolAtCursor(core) \in NonTerminal
    PROVE  /\ GetRhs(core) \in Seq(Symbol \cup {g_eps}) /\ core[1] \in RuleNr
           /\ core[2] \in Nat /\ core[2] + 1 \in DOMAIN GetRhs(core)
           /\ core[2] + 1 <= Len(GetRhs(core)) /\ Len(GetRhs(core)) \in Nat
           /\ GetRhs(core)[core[2] + 1] = GetSymbolAtCursor(core)
           /\ \A i \in DOMAIN GetRhs(core) : GetRhs(core)[i] \in Symbol
<1> DEFINE rhs == GetRhs(core)
           c == core[2]
<1>1. rhs \in Seq(Symbol \cup {g_eps}) /\ c \in Nat /\ c <= Len(rhs) /\ core[1] \in RuleNr
  BY CoreType
<1>2. Len(rhs) \in Nat /\ DOMAIN rhs = 1 .. Len(rhs) /\ \A i \in DOMAIN rhs : rhs[i] \in Symbol \cup {g_eps}
  BY <1>1
<1>3. c < Len(rhs) /\ rhs[c + 1] = GetSymbolAtCursor(core) /\ GetSymbolAtCursor(core) # g_eps
  BY GrammarAssumption DEF GetSymbolAtCursor, NoSymbol
<1>4. c + 1 \in DOMAIN rhs /\ c + 1 <= Len(rhs)
  BY <1>1, <1>2, <1>3
<1>5. \A i \in DOMAIN rhs : rhs[i] = g_eps => Len(rhs) = 1
  BY <1>1, <1>2, EpsilonAssumption DEF GetRhs, Range
<1>6. ASSUME NEW i \in DOMAIN rhs PROVE rhs[i] \in Symbol
  <2> SUFFICES ASSUME rhs[i] = g_eps PROVE FALSE
    BY <1>2
  <2>1. Len(rhs) = 1
    BY <1>5
  <2>2. i = 1 /\ c + 1 = 1
    BY <1>1, <1>2, <1>4, <2>1
  <2> QED
    BY <1>3, <2>2
<1> QED
  BY <1>1, <1>2, <1>3, <1>4, <1>6

\* calc_first gives terminals, and at least one if every nonterminal has any.
LEMMA FirstTerminals ==
    ASSUME NEW core \in Core, GetSymbolAtCursor(core) \in NonTerminal, NEW la \in Terminal
    PROVE  /\ calc_first(GetRhs(core), la, core[2] + 1) \subseteq Terminal
           /\ FirstNonempty => calc_first(GetRhs(core), la, core[2] + 1) # {}
<1> DEFINE rhs == GetRhs(core)
           offs == core[2] + 1
           all == Append(rhs, la)
           n == Len(rhs) + 1
           FirstOf(X) == IF X \in NonTerminal THEN First[X] ELSE {X}
           Reached(i) == \A j \in offs + 1 .. i - 1 : all[j] \in NonTerminal /\ g_eps \in First[all[j]]
<1>1. /\ rhs \in Seq(Symbol \cup {g_eps}) /\ Len(rhs) \in Nat /\ offs \in Nat /\ offs <= Len(rhs)
      /\ DOMAIN rhs = 1 .. Len(rhs)
      /\ \A i \in 1 .. Len(rhs) : rhs[i] \in Symbol
  BY CursorAtNonterminal
<1> HIDE DEF rhs, offs
<1>2. /\ n \in Nat /\ Len(all) = n /\ all[n] = la
      /\ \A i \in 1 .. n : all[i] \in Symbol
  <2>1. la \in Symbol \cup {g_eps} /\ la \in Symbol
    BY DEF Symbol
  <2>2. Len(all) = n /\ all[n] = la /\ \A i \in 1 .. Len(rhs) : all[i] = rhs[i]
    BY <1>1, <2>1
  <2> HIDE DEF all
  <2>3. \A i \in 1 .. n : i = n \/ i \in 1 .. Len(rhs)
    BY <1>1
  <2> QED
    BY <1>1, <2>1, <2>2, <2>3
<1>3. calc_first(rhs, la, offs) =
          (UNION {FirstOf(all[i]) : i \in {k \in offs + 1 .. n : Reached(k)}}) \ {g_eps}
  BY <1>2 DEF calc_first
<1>4. \A i \in offs + 1 .. n : i \in 1 .. n
  BY <1>1, <1>2
<1> HIDE DEF n, all
<1>5. \A X \in Symbol : FirstOf(X) \subseteq Terminal \cup {g_eps}
  BY GrammarAssumption DEF Symbol
<1>6. \A i \in 1 .. n : FirstOf(all[i]) \subseteq Terminal \cup {g_eps}
  BY <1>2, <1>5
<1>7. calc_first(rhs, la, offs) \subseteq Terminal
  <2> HIDE DEF FirstOf, Reached
  <2> QED
    BY <1>3, <1>4, <1>6
<1>8. ASSUME FirstNonempty
      PROVE  calc_first(rhs, la, offs) # {}
  <2> DEFINE P == {k \in offs + 1 .. n : FirstOf(all[k]) \ {g_eps} # {}}
  <2>1. n \in P
    <3>1. la \notin NonTerminal /\ la # g_eps
      BY GrammarAssumption
    <3>2. FirstOf(all[n]) = {la}
      BY <1>2, <3>1
    <3>3. n \in offs + 1 .. n
      BY <1>1, <1>2 DEF n
    <3> QED
      BY <3>1, <3>2, <3>3
  <2>2. P \in SUBSET Nat /\ IsFiniteSet(P)
    <3>1. P \subseteq 1 .. n
      BY <1>4
    <3>2. 1 \in Int /\ n \in Int
      BY <1>2
    <3>3. IsFiniteSet(1 .. n)
      BY <3>2, FS_Interval
    <3> HIDE DEF P
    <3>4. IsFiniteSet(P)
      BY <3>1, <3>3, FS_Subset
    <3> QED
      BY <3>1, <3>4
  <2>3. PICK k \in P : \A y \in P : k <= y
    <3> HIDE DEF P
    <3> QED
      BY <2>1, <2>2, LeastPlace
  <2>4. k \in offs + 1 .. n /\ k \in Nat
    BY <2>2
  <2>5. Reached(k)
    <3> SUFFICES ASSUME NEW j \in offs + 1 .. k - 1
                 PROVE  all[j] \in NonTerminal /\ g_eps \in First[all[j]]
      OBVIOUS
    <3>1. j \in offs + 1 .. n /\ ~(k <= j)
      BY <1>1, <1>2, <2>4
    <3>2. j \notin P
      BY <2>3, <3>1
    <3>3. FirstOf(all[j]) \ {g_eps} = {}
      BY <3>1, <3>2
    <3>4. all[j] \in Symbol
      BY <1>2, <1>4, <3>1
    <3>5. all[j] \in NonTerminal
      <4> SUFFICES ASSUME all[j] \notin NonTerminal PROVE FALSE
        OBVIOUS
      <4>1. all[j] \in FirstOf(all[j]) /\ all[j] # g_eps
        BY <3>4, GrammarAssumption DEF Symbol
      <4> QED
        BY <3>3, <4>1
    <3>6. First[all[j]] # {} /\ First[all[j]] \ {g_eps} = {}
      BY <1>8, <3>3, <3>5 DEF FirstNonempty
    <3> QED
      BY <3>5, <3>6
  <2>6. PICK a \in FirstOf(all[k]) : a # g_eps
    BY <2>3
  <2>7. a \in calc_first(rhs, la, offs)
    <3> HIDE DEF FirstOf, Reached
    <3> QED
      BY <1>3, <2>4, <2>5, <2>6
  <2> QED
    BY <2>7
<1> QED
  BY <1>7, <1>8 DEF rhs, offs


-----------------------------------------------------------------------------
(* Nothing is lost in a closure and in a transition *)

\* The closure has what its items imply, and an item for each of its cores.
Filled(elems) ==
    /\ \A core \in CoresOf(elems) : \E la : <<core, la>> \in ItemsOf(elems)
    /\ Closed(ItemsOf(elems))

LEMMA ItemPlace ==
    ASSUME NEW elems, NEW x
    PROVE  x \in ItemsOf(elems) <=>
               \E i \in DOMAIN elems : \E la \in Range(elems[i].las) : x = <<elems[i].core, la>>
<1> DEFINE Of(i) == {<<elems[i].core, la>> : la \in Range(elems[i].las)}
<1>1. ItemsOf(elems) = UNION {Of(i) : i \in DOMAIN elems}
  BY DEF ItemsOf
<1>2. \A i : x \in Of(i) <=> \E la \in Range(elems[i].las) : x = <<elems[i].core, la>>
  OBVIOUS
<1> HIDE DEF Of
<1>3. x \in UNION {Of(i) : i \in DOMAIN elems} <=> \E i \in DOMAIN elems : x \in Of(i)
  OBVIOUS
<1> QED
  BY <1>1, <1>2, <1>3

LEMMA WellFilledCores ==
    ASSUME NEW elems \in Seq(Element), UniqueCores(elems)
    PROVE  WellFilled(elems) <=> \A core \in CoresOf(elems) : \E la : <<core, la>> \in ItemsOf(elems)
<1>1. \A i \in DOMAIN elems : elems[i].las \in Seq(Terminal)
  BY ElementType
<1>2. \A i \in DOMAIN elems : elems[i].las # <<>> <=> \E la : la \in Range(elems[i].las)
  <2> TAKE i \in DOMAIN elems
  <2> DEFINE las == elems[i].las
  <2>1. las \in Seq(Terminal)
    BY <1>1
  <2> HIDE DEF las
  <2>2. /\ DOMAIN las = 1 .. Len(las) /\ Len(las) \in Nat
        /\ las # <<>> <=> 1 \in DOMAIN las
    BY <2>1, EmptySeq
  <2>3. las # <<>> => \E la : la \in Range(las)
    BY <2>2 DEF Range
  <2>4. (\E la : la \in Range(las)) => las # <<>>
    <3> SUFFICES ASSUME NEW la, la \in Range(las) PROVE 1 \in DOMAIN las
      BY <2>2
    <3>1. PICK k \in DOMAIN las : TRUE
      BY DEF Range
    <3> QED
      BY <2>2, <3>1
  <2> QED
    BY <2>3, <2>4 DEF las
<1>3. ASSUME WellFilled(elems), NEW core \in CoresOf(elems)
      PROVE  \E la : <<core, la>> \in ItemsOf(elems)
  <2>1. PICK i \in DOMAIN elems : core = elems[i].core
    BY DEF CoresOf
  <2>2. PICK la : la \in Range(elems[i].las)
    BY <1>2, <1>3 DEF WellFilled
  <2> QED
    BY <2>1, <2>2, ItemPlace
<1>4. ASSUME \A core \in CoresOf(elems) : \E la : <<core, la>> \in ItemsOf(elems),
             NEW i \in DOMAIN elems
      PROVE  elems[i].las # <<>>
  <2>1. PICK la : <<elems[i].core, la>> \in ItemsOf(elems)
    BY <1>4 DEF CoresOf
  <2>2. PICK j \in DOMAIN elems : \E l \in Range(elems[j].las) : <<elems[i].core, la>> = <<elems[j].core, l>>
    BY <2>1, ItemPlace
  <2>3. elems[j].core = elems[i].core /\ \E l : l \in Range(elems[j].las)
    BY <2>2
  <2>4. i = j
    BY <2>3 DEF UniqueCores
  <2> QED
    BY <1>2, <2>3, <2>4
<1> QED
  BY <1>3, <1>4 DEF WellFilled

\* What is moved over a symbol.
Kernel(elems, sym) ==
    LET moving == At(elems, {i \in DOMAIN elems : GetPossibleTransition(elems[i].core) = sym})
    IN  [k \in DOMAIN moving |->
            [core |-> AdvanceCursor(moving[k].core), las |-> moving[k].las]]

LEMMA KernelItems ==
    ASSUME NEW elems \in Seq(Element), NEW sym \in Syms(elems)
    PROVE  /\ DoTransition(elems, sym) = LocalClosure(Kernel(elems, sym))
           /\ Kernel(elems, sym) \in Seq(Element)
           /\ WellFilled(elems) => WellFilled(Kernel(elems, sym))
           /\ CoresOf(Kernel(elems, sym)) =
                  {AdvanceCursor(core) : core \in {c \in CoresOf(elems) : GetPossibleTransition(c) = sym}}
           /\ \A x : x \in ItemsOf(Kernel(elems, sym)) <=>
                  \E y \in ItemsOf(elems) :
                      GetPossibleTransition(y[1]) = sym /\ x = <<AdvanceCursor(y[1]), y[2]>>
<1> DEFINE S == {i \in DOMAIN elems : GetPossibleTransition(elems[i].core) = sym}
           moving == At(elems, S)
           kernel == [k \in DOMAIN moving |->
                         [core |-> AdvanceCursor(moving[k].core), las |-> moving[k].las]]
<1>1. Kernel(elems, sym) = kernel /\ DoTransition(elems, sym) = LocalClosure(kernel)
  BY DEF DoTransition, Kernel
<1>2. S \in SUBSET DOMAIN elems /\ sym # NoSymbol
  BY DEF Syms
<1>3. /\ \A i \in S : GetPossibleTransition(elems[i].core) = sym /\ i \in DOMAIN elems
      /\ \A i \in DOMAIN elems : GetPossibleTransition(elems[i].core) = sym => i \in S
  OBVIOUS
<1>4. \A i \in DOMAIN elems : elems[i].core \in Core /\ elems[i].las \in Seq(Terminal)
  BY ElementType
<1> HIDE DEF S
<1>5. /\ moving \in Seq(Element)
      /\ \A k \in DOMAIN moving : \E i \in S : moving[k] = elems[i]
      /\ \A i \in S : \E k \in DOMAIN moving : moving[k] = elems[i]
  BY <1>2, AtPlaces
<1> HIDE DEF moving
<1>6. /\ DOMAIN kernel = DOMAIN moving
      /\ \A k \in DOMAIN moving : /\ kernel[k].core = AdvanceCursor(moving[k].core)
                                  /\ kernel[k].las = moving[k].las
  OBVIOUS
<1>7. kernel \in Seq(Element)
  <2>1. \A k \in DOMAIN moving :
            [core |-> AdvanceCursor(moving[k].core), las |-> moving[k].las] \in Element
    <3> SUFFICES ASSUME NEW k \in DOMAIN moving
                 PROVE  [core |-> AdvanceCursor(moving[k].core), las |-> moving[k].las] \in Element
      OBVIOUS
    <3>1. PICK i \in S : moving[k] = elems[i]
      BY <1>5
    <3>2. moving[k].core \in Core /\ moving[k].las \in Seq(Terminal) /\ GetPossibleTransition(moving[k].core) = sym
      BY <1>3, <1>4, <3>1
    <3>3. AdvanceCursor(moving[k].core) \in Core
      BY <1>2, <3>2, Advanced
    <3> QED
      BY <3>2, <3>3 DEF Element
  <2>2. DOMAIN moving = 1 .. Len(moving) /\ Len(moving) \in Nat
    BY <1>5
  <2> QED
    BY <2>1, <2>2
<1> HIDE DEF kernel
<1>8. /\ \A k \in DOMAIN kernel : \E i \in DOMAIN elems :
             /\ GetPossibleTransition(elems[i].core) = sym
             /\ kernel[k].core = AdvanceCursor(elems[i].core) /\ kernel[k].las = elems[i].las
      /\ \A i \in DOMAIN elems : GetPossibleTransition(elems[i].core) = sym =>
             \E k \in DOMAIN kernel :
                 kernel[k].core = AdvanceCursor(elems[i].core) /\ kernel[k].las = elems[i].las
  <2>1. ASSUME NEW k \in DOMAIN kernel
        PROVE  \E i \in DOMAIN elems :
                   /\ GetPossibleTransition(elems[i].core) = sym
                   /\ kernel[k].core = AdvanceCursor(elems[i].core) /\ kernel[k].las = elems[i].las
    <3>1. PICK i \in S : moving[k] = elems[i]
      BY <1>5, <1>6
    <3> QED
      BY <1>3, <1>6, <3>1
  <2>2. ASSUME NEW i \in DOMAIN elems, GetPossibleTransition(elems[i].core) = sym
        PROVE  \E k \in DOMAIN kernel :
                   kernel[k].core = AdvanceCursor(elems[i].core) /\ kernel[k].las = elems[i].las
    <3>1. PICK k \in DOMAIN moving : moving[k] = elems[i]
      BY <1>3, <1>5, <2>2
    <3> QED
      BY <1>6, <3>1
  <2> QED
    BY <2>1, <2>2
<1>9. WellFilled(elems) => WellFilled(kernel)
  BY <1>8 DEF WellFilled
<1>10. CoresOf(kernel) =
           {AdvanceCursor(core) : core \in {c \in CoresOf(elems) : GetPossibleTransition(c) = sym}}
  BY <1>8 DEF CoresOf
<1>11. ASSUME NEW x \in ItemsOf(kernel)
       PROVE  \E y \in ItemsOf(elems) :
                  GetPossibleTransition(y[1]) = sym /\ x = <<AdvanceCursor(y[1]), y[2]>>
  <2>a. PICK k \in DOMAIN kernel : \E la \in Range(kernel[k].las) : x = <<kernel[k].core, la>>
    BY ItemPlace
  <2>1. PICK la \in Range(kernel[k].las) : x = <<kernel[k].core, la>>
    BY <2>a
  <2>2. PICK i \in DOMAIN elems :
            /\ GetPossibleTransition(elems[i].core) = sym
            /\ kernel[k].core = AdvanceCursor(elems[i].core) /\ kernel[k].las = elems[i].las
    BY <1>8
  <2> DEFINE y == <<elems[i].core, la>>
  <2>3. y \in ItemsOf(elems) /\ y[1] = elems[i].core /\ y[2] = la
    BY <2>1, <2>2, ItemPlace
  <2> QED
    BY <2>1, <2>2, <2>3
<1>12. ASSUME NEW y \in ItemsOf(elems), GetPossibleTransition(y[1]) = sym
       PROVE  <<AdvanceCursor(y[1]), y[2]>> \in ItemsOf(kernel)
  <2>a. PICK i \in DOMAIN elems : \E la \in Range(elems[i].las) : y = <<elems[i].core, la>>
    BY ItemPlace
  <2>1. PICK la \in Range(elems[i].las) : y = <<elems[i].core, la>>
    BY <2>a
  <2>2. PICK k \in DOMAIN kernel :
            kernel[k].core = AdvanceCursor(elems[i].core) /\ kernel[k].las = elems[i].las
    BY <1>8, <1>12, <2>1
  <2> QED
    BY <2>1, <2>2, ItemPlace
<1> QED
  BY <1>1, <1>7, <1>9, <1>10, <1>11, <1>12

\* Moving the elements over a symbol loses nothing.
LEMMA TransitionFilled ==
    ASSUME LocalClosureCorrect, LocalClosureExact,
           NEW elems \in Seq(Element), UniqueCores(elems), Filled(elems), NEW sym \in Syms(elems)
    PROVE  /\ DoTransition(elems, sym) \in Seq(Element) /\ UniqueCores(DoTransition(elems, sym))
           /\ Filled(DoTransition(elems, sym))
           /\ \A x \in ItemsOf(elems) : GetPossibleTransition(x[1]) = sym =>
                  <<AdvanceCursor(x[1]), x[2]>> \in ItemsOf(DoTransition(elems, sym))
<1> DEFINE kernel == Kernel(elems, sym)
           new == DoTransition(elems, sym)
<1>1. /\ new = LocalClosure(kernel) /\ kernel \in Seq(Element)
      /\ WellFilled(elems) => WellFilled(kernel)
      /\ \A x : x \in ItemsOf(kernel) <=>
             \E y \in ItemsOf(elems) :
                 GetPossibleTransition(y[1]) = sym /\ x = <<AdvanceCursor(y[1]), y[2]>>
  BY KernelItems
<1> HIDE DEF kernel, new
<1>2. WellFilled(kernel)
  BY <1>1, WellFilledCores DEF Filled
<1>3. new \in Seq(Element) /\ UniqueCores(new)
  BY <1>1 DEF LocalClosureCorrect, IsClosureOf
<1>4. WellFilled(new) /\ ItemsOf(kernel) \subseteq ItemsOf(new) /\ Closed(ItemsOf(new))
  BY <1>1, <1>2 DEF LocalClosureExact
<1>5. Filled(new)
  BY <1>3, <1>4, WellFilledCores DEF Filled
<1> QED
  BY <1>1, <1>3, <1>4, <1>5 DEF new

\* The cores alone are closed, too.
LEMMA FilledCores ==
    ASSUME FirstNonempty, NEW elems \in Seq(Element), Filled(elems),
           NEW core \in CoresOf(elems), GetSymbolAtCursor(core) \in NonTerminal,
           NEW r \in RulesOf(GetSymbolAtCursor(core))
    PROVE  <<r, 0>> \in CoresOf(elems)
<1>1. core \in Core
  BY ElementType
<1>2. PICK la : <<core, la>> \in ItemsOf(elems)
  BY DEF Filled
<1>3. la \in Terminal
  BY <1>2, ElementType
<1>4. PICK l : l \in calc_first(GetRhs(core), la, core[2] + 1)
  BY <1>1, <1>3, FirstTerminals
<1>5. <<<<r, 0>>, l>> \in Implied(core, la)
  BY <1>4 DEF Implied
<1>6. Implied(core, la) \subseteq ItemsOf(elems)
  <2> DEFINE x == <<core, la>>
  <2>1. x \in ItemsOf(elems) /\ x[1] = core /\ x[2] = la
    BY <1>2
  <2> HIDE DEF x
  <2>2. Implied(x[1], x[2]) \subseteq ItemsOf(elems)
    BY <2>1 DEF Filled, Closed
  <2> QED
    BY <2>1, <2>2
<1>7. <<<<r, 0>>, l>> \in ItemsOf(elems)
  BY <1>5, <1>6
<1> QED
  BY <1>7, ElementType

\* What is implied begins a rule for the nonterminal behind the cursor.
LEMMA ImpliedItem ==
    ASSUME NEW core \in Core, NEW la \in Terminal, NEW z \in Implied(core, la)
    PROVE  /\ GetSymbolAtCursor(core) \in NonTerminal
           /\ \E r \in RulesOf(GetSymbolAtCursor(core)) : z[1] = <<r, 0>>
           /\ z = <<z[1], z[2]>> /\ z[2] \in Terminal
           /\ z[2] \in calc_first(GetRhs(core), la, core[2] + 1)
<1> DEFINE sym == GetSymbolAtCursor(core)
           las == calc_first(GetRhs(core), la, core[2] + 1)
           begins == {<<r, 0>> : r \in IF sym \in NonTerminal THEN RulesOf(sym) ELSE {}}
<1>1. z \in begins \X las
  BY DEF Implied
<1> HIDE DEF las
<1>2. z = <<z[1], z[2]>> /\ z[1] \in begins /\ z[2] \in las
  BY <1>1
<1>3. sym \in NonTerminal /\ \E r \in RulesOf(sym) : z[1] = <<r, 0>>
  BY <1>2
<1>4. las \subseteq Terminal
  BY <1>3, FirstTerminals DEF las
<1> QED
  BY <1>2, <1>3, <1>4 DEF las

LEMMA TransitionCoresIn ==
    ASSUME LocalClosureCorrect, LocalClosureExact, FirstNonempty,
           NEW a \in Seq(Element), UniqueCores(a), Filled(a),
           NEW b \in Seq(Element), UniqueCores(b), Filled(b),
           CoresOf(a) = CoresOf(b), NEW sym \in Syms(a)
    PROVE  CoresOf(DoTransition(a, sym)) \subseteq CoresOf(DoTransition(b, sym))
<1> DEFINE ka == Kernel(a, sym)
           kb == Kernel(b, sym)
           na == DoTransition(a, sym)
           nb == DoTransition(b, sym)
           I == CoresOf(nb) \X Terminal
<1>0. sym \in Syms(b)
  BY SameCoresSameSyms
<1>1. /\ na = LocalClosure(ka) /\ ka \in Seq(Element)
      /\ WellFilled(a) => WellFilled(ka)
      /\ \A x : x \in ItemsOf(ka) <=>
             \E y \in ItemsOf(a) : GetPossibleTransition(y[1]) = sym /\ x = <<AdvanceCursor(y[1]), y[2]>>
  BY KernelItems
<1>2. /\ nb = LocalClosure(kb) /\ kb \in Seq(Element)
      /\ CoresOf(kb) = {AdvanceCursor(core) : core \in {c \in CoresOf(b) : GetPossibleTransition(c) = sym}}
  BY <1>0, KernelItems
<1>3. na \in Seq(Element) /\ UniqueCores(na) /\ Filled(na)
  BY TransitionFilled
<1>4. nb \in Seq(Element) /\ UniqueCores(nb) /\ Filled(nb)
  BY <1>0, TransitionFilled
<1> HIDE DEF ka, kb, na, nb
<1>5. CoresOf(kb) \subseteq CoresOf(nb) /\ CoresOf(nb) \subseteq Core
  BY <1>2, <1>4, ElementType DEF LocalClosureCorrect, IsClosureOf, ClosureOfKernel
<1>6. ItemsOf(ka) \subseteq I
  <2> SUFFICES ASSUME NEW x \in ItemsOf(ka) PROVE x \in I
    OBVIOUS
  <2>1. PICK y \in ItemsOf(a) : GetPossibleTransition(y[1]) = sym /\ x = <<AdvanceCursor(y[1]), y[2]>>
    BY <1>1
  <2>2. y[1] \in CoresOf(b) /\ y[2] \in Terminal
    BY ElementType
  <2>3. AdvanceCursor(y[1]) \in CoresOf(kb)
    BY <1>2, <2>1, <2>2
  <2> QED
    BY <1>5, <2>1, <2>2, <2>3
<1>7. Closed(I)
  <2> SUFFICES ASSUME NEW x \in I, NEW z \in Implied(x[1], x[2]) PROVE z \in I
    BY DEF Closed
  <2>1. x[1] \in CoresOf(nb) /\ x[1] \in Core /\ x[2] \in Terminal
    BY <1>5
  <2>2. /\ GetSymbolAtCursor(x[1]) \in NonTerminal
        /\ \E r \in RulesOf(GetSymbolAtCursor(x[1])) : z[1] = <<r, 0>>
        /\ z = <<z[1], z[2]>> /\ z[2] \in Terminal
    BY <2>1, ImpliedItem
  <2>3. z[1] \in CoresOf(nb)
    BY <1>4, <2>1, <2>2, FilledCores
  <2> QED
    BY <2>2, <2>3
<1>8. I \in SUBSET (Core \X Terminal)
  BY <1>5
<1>9. WellFilled(ka)
  BY <1>1, WellFilledCores DEF Filled
<1> HIDE DEF I
<1>10. ItemsOf(na) \subseteq I
  BY <1>1, <1>6, <1>7, <1>8, <1>9 DEF LocalClosureExact
<1>11. ASSUME NEW core \in CoresOf(na) PROVE core \in CoresOf(nb)
  <2>1. PICK la : <<core, la>> \in ItemsOf(na)
    BY <1>3 DEF Filled
  <2>2. <<core, la>> \in I
    BY <1>10, <2>1
  <2> QED
    BY <2>2 DEF I
<1> QED
  BY <1>11 DEF na, nb

\* The cores behind a transition depend on the cores before it only.
LEMMA TransitionCores ==
    ASSUME LocalClosureCorrect, LocalClosureExact, FirstNonempty,
           NEW a \in Seq(Element), UniqueCores(a), Filled(a),
           NEW b \in Seq(Element), UniqueCores(b), Filled(b),
           CoresOf(a) = CoresOf(b), NEW sym \in Syms(a)
    PROVE  CoresOf(DoTransition(a, sym)) = CoresOf(DoTransition(b, sym))
<1>1. sym \in Syms(b)
  BY SameCoresSameSyms
<1>2. CoresOf(DoTransition(a, sym)) \subseteq CoresOf(DoTransition(b, sym))
  BY TransitionCoresIn
<1>3. CoresOf(DoTransition(b, sym)) \subseteq CoresOf(DoTransition(a, sym))
  BY <1>1, TransitionCoresIn
<1> QED
  BY <1>2, <1>3

-----------------------------------------------------------------------------
(* Nothing is lost while the transitions are made *)

\* Over the symbol the elements go to what has the hash of the target.
Goes(elems, sym, target) ==
    /\ sym \in Syms(elems)
    /\ hash(target, ~full_lr) = hash(DoTransition(elems, sym), ~full_lr)

\* The transitions, those that the calls are still to make too, go where the
\* closures go now, whatever has been added to these since.
Going(c, fr) ==
    /\ \A o \in DOMAIN c.closures : Filled(c.closures[o].elems)
    /\ <<<<start, 0>>, g_end>> \in ItemsOf(c.closures[0].elems)
    /\ \A t \in c.m_transitions : Goes(c.closures[t[1]].elems, t[3], c.closures[t[2]].elems)
    /\ \A k \in DOMAIN fr : \A i \in DOMAIN fr[k].pending :
           LET p == fr[k].pending[i]
           IN  Filled(p.elems) /\ Goes(c.closures[fr[k].from].elems, p.sym, p.elems)

LEMMA GoesKept ==
    ASSUME LocalClosureCorrect, LocalClosureExact, FirstNonempty,
           NEW a \in Seq(Element), UniqueCores(a), Filled(a),
           NEW b \in Seq(Element), UniqueCores(b), Filled(b),
           hash(a, ~full_lr) = hash(b, ~full_lr), full_lr => a = b,
           NEW sym, NEW x, NEW y, hash(x, ~full_lr) = hash(y, ~full_lr), Goes(a, sym, x)
    PROVE  Goes(b, sym, y)
<1>1. CASE full_lr
  BY <1>1 DEF Goes
<1>2. CASE ~full_lr
  <2>0. (~full_lr) = TRUE
    BY <1>2
  <2>1. hash(a, TRUE) = hash(b, TRUE) /\ hash(x, TRUE) = hash(y, TRUE)
    BY <2>0
  <2>2. CoresOf(a) = CoresOf(b)
    BY <2>1, SameHash
  <2>3. sym \in Syms(a) /\ sym \in Syms(b)
    BY <2>2, SameCoresSameSyms DEF Goes
  <2>4. hash(x, TRUE) = hash(DoTransition(a, sym), TRUE)
    BY <2>0 DEF Goes
  <2>5. DoTransition(a, sym) \in Seq(Element) /\ DoTransition(b, sym) \in Seq(Element)
    BY <2>3, TransitionFilled
  <2>6. CoresOf(DoTransition(a, sym)) = CoresOf(DoTransition(b, sym))
    BY <2>2, <2>3, TransitionCores
  <2>7. hash(DoTransition(a, sym), TRUE) = hash(DoTransition(b, sym), TRUE)
    BY <2>5, <2>6, SameHash
  <2>8. hash(y, TRUE) = hash(DoTransition(b, sym), TRUE)
    BY <2>1, <2>4, <2>7
  <2> QED
    BY <2>0, <2>3, <2>8 DEF Goes
<1> QED
  BY <1>1, <1>2

\* What a closure has after it was reached again.
LEMMA UnitedFilled ==
    ASSUME NEW old, Filled(old), NEW new, Filled(new), NEW elems,
           CoresOf(elems) = CoresOf(old),
           ItemsOf(elems) = ItemsOf(old) \cup ItemsOf(new)
    PROVE  Filled(elems)
<1>1. \A core \in CoresOf(elems) : \E la : <<core, la>> \in ItemsOf(elems)
  BY DEF Filled
<1>2. Closed(ItemsOf(elems))
  <2>1. Closed(ItemsOf(old)) /\ Closed(ItemsOf(new))
    BY DEF Filled
  <2>2. ASSUME NEW x \in ItemsOf(elems) PROVE Implied(x[1], x[2]) \subseteq ItemsOf(elems)
    <3>1. CASE x \in ItemsOf(old)
      BY <2>1, <3>1 DEF Closed
    <3>2. CASE x \in ItemsOf(new)
      BY <2>1, <3>2 DEF Closed
    <3> QED
      BY <3>1, <3>2
  <2> QED
    BY <2>2 DEF Closed
<1> QED
  BY <1>1, <1>2 DEF Filled

LEMMA GoingTaken ==
    ASSUME LocalClosureCorrect, LocalClosureExact, FirstNonempty,
           Transiting(lr, frames, g_id), frames[Len(frames)].pending # <<>>,
           Going(lr, frames), NEW n, NEW elems, Taking(n, elems)
    PROVE  /\ Going(lr', Resumed(frames))
           /\ n \in DOMAIN lr'.closures /\ n \in Nat /\ lr'.closures[n].elems = elems
           /\ elems \in Seq(Element) /\ UniqueCores(elems)
<1> DEFINE d == lr'
           last == frames[Len(frames)]
           p == last.pending[1]
           new == Resumed(frames)
<1>1. /\ IsCollection(lr) /\ FramesOK(start, lr, g_id, frames) /\ frames # <<>>
  BY DEF Transiting
<1>2. /\ frames \in Seq(Frame) /\ last.from \in DOMAIN lr.closures /\ p.elems \in Seq(Element)
      /\ UniqueCores(p.elems)
  BY <1>1, PendingFacts DEF PendingOK
<1>3. /\ Len(frames) \in DOMAIN frames /\ 1 \in DOMAIN last.pending
      /\ DOMAIN new = DOMAIN frames
      /\ \A k \in DOMAIN frames : new[k].from = frames[k].from
      /\ \A k \in DOMAIN frames : \A i \in DOMAIN new[k].pending :
             \E j \in DOMAIN frames[k].pending : new[k].pending[i] = frames[k].pending[j]
  <2>1. /\ Len(frames) \in DOMAIN frames /\ 1 \in DOMAIN last.pending
        /\ DOMAIN new = DOMAIN frames
        /\ \A k \in DOMAIN frames : new[k].from = frames[k].from
    BY <1>1, <1>2, ResumedFrames
  <2>2. ASSUME NEW k \in DOMAIN frames, NEW i \in DOMAIN new[k].pending
        PROVE  \E j \in DOMAIN frames[k].pending : new[k].pending[i] = frames[k].pending[j]
    <3>1. CASE k # Len(frames)
      <4>1. new[k] = frames[k]
        BY <1>1, <1>2, <3>1, ResumedFrames
      <4> QED
        BY <4>1
    <3>2. CASE k = Len(frames)
      <4>1. i + 1 \in DOMAIN frames[k].pending /\ new[k].pending[i] = frames[k].pending[i + 1]
        BY <1>1, <1>2, <3>2, ResumedFrames
      <4> QED
        BY <4>1
    <3> QED
      BY <3>1, <3>2
  <2> QED
    BY <2>1, <2>2
<1>4. /\ \A o \in DOMAIN lr.closures : Filled(lr.closures[o].elems)
      /\ <<<<start, 0>>, g_end>> \in ItemsOf(lr.closures[0].elems)
      /\ \A t \in lr.m_transitions :
             Goes(lr.closures[t[1]].elems, t[3], lr.closures[t[2]].elems)
      /\ \A k \in DOMAIN frames : \A i \in DOMAIN frames[k].pending :
             /\ Filled(frames[k].pending[i].elems)
             /\ Goes(lr.closures[frames[k].from].elems, frames[k].pending[i].sym, frames[k].pending[i].elems)
  BY DEF Going
<1>5. Filled(p.elems) /\ Goes(lr.closures[last.from].elems, p.sym, p.elems)
  BY <1>3, <1>4
<1>6. /\ Arrives(d, n, elems)
      /\ hash(elems, ~full_lr) = hash(p.elems, ~full_lr)
      /\ n \in DOMAIN lr.closures =>
             /\ full_lr => elems = lr.closures[n].elems
             /\ hash(elems, ~full_lr) = hash(lr.closures[n].elems, ~full_lr)
             /\ ItemsOf(elems) = ItemsOf(lr.closures[n].elems) \cup ItemsOf(p.elems)
      /\ n \notin DOMAIN lr.closures => elems = p.elems
  BY DEF Taking
<1>7. /\ Reaches(lr, d, last.from, p.sym, n, elems)
      /\ elems \in Seq(Element) /\ UniqueCores(elems)
  BY <1>6 DEF Arrives
<1>8. n \in DOMAIN d.closures /\ n \in Nat /\ d.closures[n].elems = elems
  BY <1>6, TransitionTaken
<1> HIDE DEF d, p, last, new
<1>9. /\ \A o \in DOMAIN lr.closures : o \in DOMAIN d.closures /\ (o # n => d.closures[o] = lr.closures[o])
      /\ \A o \in DOMAIN d.closures : o # n => o \in DOMAIN lr.closures /\ d.closures[o] = lr.closures[o]
      /\ d.m_transitions = lr.m_transitions \cup {<<last.from, n, p.sym>>}
      /\ \A o \in DOMAIN lr.closures :
             ItemsOf(lr.closures[o].elems) \subseteq ItemsOf(d.closures[o].elems)
      /\ n \in DOMAIN lr.closures => CoresOf(elems) = CoresOf(lr.closures[n].elems)
  <2>1. \A o \in DOMAIN lr.closures :
            ItemsOf(lr.closures[o].elems) \subseteq ItemsOf(d.closures[o].elems)
    BY <1>7, ReachesCores
  <2>2. \A o \in DOMAIN d.closures : o # n => o \in DOMAIN lr.closures /\ d.closures[o] = lr.closures[o]
    BY <1>7, ReachesCores
  <2> QED
    BY <1>7, <2>1, <2>2 DEF Reaches
<1>10. Filled(elems)
  <2>1. CASE n \in DOMAIN lr.closures
    BY <1>4, <1>5, <1>6, <1>9, <2>1, UnitedFilled
  <2>2. CASE n \notin DOMAIN lr.closures
    BY <1>5, <1>6, <2>2
  <2> QED
    BY <2>1, <2>2
<1>11. \A o \in DOMAIN d.closures : Filled(d.closures[o].elems)
  BY <1>4, <1>8, <1>9, <1>10
<1>12. \A o \in DOMAIN lr.closures :
           /\ lr.closures[o].elems \in Seq(Element) /\ UniqueCores(lr.closures[o].elems)
           /\ Filled(lr.closures[o].elems)
           /\ d.closures[o].elems \in Seq(Element) /\ UniqueCores(d.closures[o].elems)
           /\ Filled(d.closures[o].elems)
           /\ hash(lr.closures[o].elems, ~full_lr) = hash(d.closures[o].elems, ~full_lr)
           /\ full_lr => lr.closures[o].elems = d.closures[o].elems
  <2>1. \A o \in DOMAIN lr.closures :
            lr.closures[o].elems \in Seq(Element) /\ UniqueCores(lr.closures[o].elems)
    BY <1>1 DEF IsCollection, ClosureObject
  <2>2. ASSUME NEW o \in DOMAIN lr.closures
        PROVE  /\ d.closures[o].elems \in Seq(Element) /\ UniqueCores(d.closures[o].elems)
               /\ hash(lr.closures[o].elems, ~full_lr) = hash(d.closures[o].elems, ~full_lr)
               /\ full_lr => lr.closures[o].elems = d.closures[o].elems
    <3>1. CASE o = n
      BY <1>6, <1>7, <1>8, <3>1
    <3>2. CASE o # n
      BY <1>9, <2>1, <3>2
    <3> QED
      BY <3>1, <3>2
  <2> QED
    BY <1>4, <1>9, <1>11, <2>1, <2>2
<1>13. ASSUME NEW o \in DOMAIN lr.closures, NEW sym, NEW x, NEW y,
              hash(x, ~full_lr) = hash(y, ~full_lr), Goes(lr.closures[o].elems, sym, x)
       PROVE  Goes(d.closures[o].elems, sym, y)
  <2> DEFINE a == lr.closures[o].elems
             b == d.closures[o].elems
  <2>1. /\ a \in Seq(Element) /\ UniqueCores(a) /\ Filled(a)
        /\ b \in Seq(Element) /\ UniqueCores(b) /\ Filled(b)
        /\ hash(a, ~full_lr) = hash(b, ~full_lr)
        /\ full_lr => a = b
    BY <1>12
  <2>2. Goes(a, sym, x)
    BY <1>13
  <2> HIDE DEF a, b
  <2>3. Goes(b, sym, y)
    BY <1>13, <2>1, <2>2, GoesKept
  <2> QED
    BY <2>3 DEF b
<1>14. ASSUME NEW t \in d.m_transitions
       PROVE  Goes(d.closures[t[1]].elems, t[3], d.closures[t[2]].elems)
  <2>1. CASE t \in lr.m_transitions
    <3>1. t[1] \in DOMAIN lr.closures /\ t[2] \in DOMAIN lr.closures
      BY <1>1, <2>1 DEF IsCollection
    <3>2. /\ Goes(lr.closures[t[1]].elems, t[3], lr.closures[t[2]].elems)
          /\ hash(lr.closures[t[2]].elems, ~full_lr) = hash(d.closures[t[2]].elems, ~full_lr)
      BY <1>4, <1>12, <2>1, <3>1
    <3> QED
      BY <1>13, <3>1, <3>2
  <2>2. CASE t = <<last.from, n, p.sym>>
    <3>1. t[1] = last.from /\ t[2] = n /\ t[3] = p.sym
      BY <2>2
    <3>2. Goes(d.closures[last.from].elems, p.sym, elems)
      <4>1. hash(p.elems, ~full_lr) = hash(elems, ~full_lr)
        BY <1>6
      <4> QED
        BY <1>2, <1>5, <1>13, <4>1
    <3> QED
      BY <1>8, <3>1, <3>2
  <2> QED
    BY <1>9, <2>1, <2>2
<1>15. ASSUME NEW k \in DOMAIN new, NEW i \in DOMAIN new[k].pending
       PROVE  /\ Filled(new[k].pending[i].elems)
              /\ Goes(d.closures[new[k].from].elems, new[k].pending[i].sym, new[k].pending[i].elems)
  <2>1. k \in DOMAIN frames /\ new[k].from = frames[k].from
    BY <1>3
  <2>2. PICK j \in DOMAIN frames[k].pending : new[k].pending[i] = frames[k].pending[j]
    BY <1>3, <2>1
  <2>3. frames[k].from \in DOMAIN lr.closures
    BY <1>1, <2>1 DEF FramesOK
  <2>4. /\ Filled(frames[k].pending[j].elems)
        /\ Goes(lr.closures[frames[k].from].elems, frames[k].pending[j].sym, frames[k].pending[j].elems)
    BY <1>4, <2>1
  <2>5. Goes(d.closures[frames[k].from].elems, frames[k].pending[j].sym, frames[k].pending[j].elems)
    BY <1>13, <2>3, <2>4
  <2> QED
    BY <2>1, <2>2, <2>4, <2>5
<1>16. <<<<start, 0>>, g_end>> \in ItemsOf(d.closures[0].elems)
  <2>1. 0 \in DOMAIN lr.closures
    BY DEF Transiting, ClosuresSound
  <2> QED
    BY <1>4, <1>9, <2>1
<1>17. Going(d, new)
  BY <1>11, <1>14, <1>15, <1>16 DEF Going
<1> QED
  BY <1>7, <1>8, <1>17 DEF d, new

LEMMA GoingPushed ==
    ASSUME LocalClosureCorrect, LocalClosureExact,
           NEW c, NEW fr \in Seq(Frame), Going(c, fr), NEW n \in DOMAIN c.closures, n \in Nat,
           NEW elems \in Seq(Element), UniqueCores(elems), c.closures[n].elems = elems,
           NEW g \in Nat
    PROVE  Going(c, Append(fr, DoTransitionsOf(n, elems, g)))
<1> DEFINE call == DoTransitionsOf(n, elems, g)
           new == Append(fr, call)
           syms == GetPossibleTransitions(elems)
<1>1. syms \in Seq(Symbol) /\ Range(syms) = Syms(elems)
  BY SymsType
<1>2. Filled(elems)
  BY DEF Going
<1>3. /\ call.from = n /\ DOMAIN call.pending = DOMAIN syms
      /\ \A i \in DOMAIN call.pending :
             /\ call.pending[i].sym = syms[i]
             /\ call.pending[i].elems = DoTransition(elems, syms[i])
  BY DEF DoTransitionsOf
<1> HIDE DEF syms
<1>4. ASSUME NEW i \in DOMAIN call.pending
      PROVE  Filled(call.pending[i].elems) /\ Goes(elems, call.pending[i].sym, call.pending[i].elems)
  <2>1. syms[i] \in Syms(elems)
    BY <1>1, <1>3 DEF Range
  <2>2. Filled(DoTransition(elems, syms[i]))
    BY <1>2, <2>1, TransitionFilled
  <2> QED
    BY <1>3, <2>1, <2>2 DEF Goes
<1> HIDE DEF call
<1>5. \A k \in DOMAIN new : \/ k \in DOMAIN fr /\ new[k] = fr[k]
                            \/ new[k] = call
  <2>1. DOMAIN new = 1 .. Len(fr) + 1 /\ DOMAIN fr = 1 .. Len(fr) /\ Len(fr) \in Nat
    OBVIOUS
  <2>2. \A k \in 1 .. Len(fr) : new[k] = fr[k]
    OBVIOUS
  <2>3. new[Len(fr) + 1] = call
    OBVIOUS
  <2>4. \A k \in 1 .. Len(fr) + 1 : k \in 1 .. Len(fr) \/ k = Len(fr) + 1
    BY <2>1
  <2> QED
    BY <2>1, <2>2, <2>3, <2>4
<1> HIDE DEF new
<1>6. ASSUME NEW k \in DOMAIN new, NEW i \in DOMAIN new[k].pending
      PROVE  /\ Filled(new[k].pending[i].elems)
             /\ Goes(c.closures[new[k].from].elems, new[k].pending[i].sym, new[k].pending[i].elems)
  <2>1. CASE k \in DOMAIN fr /\ new[k] = fr[k]
    BY <2>1 DEF Going
  <2>2. CASE new[k] = call
    BY <1>3, <1>4, <2>2
  <2> QED
    BY <1>5, <2>1, <2>2
<1>7. Going(c, new)
  BY <1>6 DEF Going
<1> QED
  BY <1>7 DEF new, call

LEMMA GoingPopped ==
    ASSUME NEW c, NEW fr \in Seq(Frame), Going(c, fr), Len(fr) > 1
    PROVE  Going(c, SubSeq(fr, 1, Len(fr) - 1))
<1> DEFINE new == SubSeq(fr, 1, Len(fr) - 1)
<1>1. \A k \in DOMAIN new : k \in DOMAIN fr /\ new[k] = fr[k]
  BY Popped
<1> HIDE DEF new
<1>2. Going(c, new)
  BY <1>1 DEF Going
<1> QED
  BY <1>2 DEF new

LEMMA GoingAlike ==
    ASSUME NEW c, NEW d, Alike(c, d), IsCollection(c), 0 \in DOMAIN c.closures, Going(c, <<>>)
    PROVE  Going(d, <<>>)
<1>1. /\ DOMAIN d.closures = DOMAIN c.closures /\ d.m_transitions = c.m_transitions
      /\ \A o \in DOMAIN c.closures : d.closures[o].elems = c.closures[o].elems
      /\ \A t \in c.m_transitions : t[1] \in DOMAIN c.closures /\ t[2] \in DOMAIN c.closures
  BY DEF Alike, IsCollection
<1>2. DOMAIN <<>> = {}
  OBVIOUS
<1> QED
  BY <1>1, <1>2 DEF Going

\* Nothing is lost in a collection: a closure has what its items imply, and its
\* transitions carry the items on.
NothingLost(c) ==
    /\ <<<<start, 0>>, g_end>> \in ItemsOf(c.closures[0].elems)
    /\ \A o \in DOMAIN c.closures : Closed(ItemsOf(c.closures[o].elems))
    /\ \A t \in c.m_transitions : \A x \in ItemsOf(c.closures[t[1]].elems) :
           GetPossibleTransition(x[1]) = t[3] =>
               <<AdvanceCursor(x[1]), x[2]>> \in ItemsOf(c.closures[t[2]].elems)

LEMMA LostAlike ==
    ASSUME NEW c, NEW d, Alike(c, d), IsCollection(c), 0 \in DOMAIN c.closures, NothingLost(c)
    PROVE  NothingLost(d)
<1>1. /\ DOMAIN d.closures = DOMAIN c.closures /\ d.m_transitions = c.m_transitions
      /\ \A o \in DOMAIN c.closures : d.closures[o].elems = c.closures[o].elems
      /\ \A t \in c.m_transitions : t[1] \in DOMAIN c.closures /\ t[2] \in DOMAIN c.closures
  BY DEF Alike, IsCollection
<1> QED
  BY <1>1 DEF NothingLost

\* When all transitions are made, nothing is lost: two transitions over the
\* same symbol go to the same closure, so that each has what the covering one has.
LEMMA GoneLosesNothing ==
    ASSUME LocalClosureCorrect, LocalClosureExact,
           NEW c, IsCollection(c), Apart(c, ~full_lr), AllCovered(c, <<>>), Going(c, <<>>)
    PROVE  NothingLost(c)
<1>1. ASSUME NEW t \in c.m_transitions, NEW x \in ItemsOf(c.closures[t[1]].elems),
             GetPossibleTransition(x[1]) = t[3]
      PROVE  <<AdvanceCursor(x[1]), x[2]>> \in ItemsOf(c.closures[t[2]].elems)
  <2> DEFINE elems == c.closures[t[1]].elems
             sym == t[3]
  <2>1. /\ t[1] \in DOMAIN c.closures /\ t[2] \in DOMAIN c.closures
        /\ elems \in Seq(Element) /\ UniqueCores(elems) /\ Filled(elems)
    BY DEF IsCollection, ClosureObject, Going
  <2>2. /\ sym \in Syms(elems)
        /\ hash(c.closures[t[2]].elems, ~full_lr) = hash(DoTransition(elems, sym), ~full_lr)
    BY DEF Going, Goes
  <2>3. Covered(c, t[1], sym)
    <3>1. ~Pending(c, <<>>, t[1], sym)
      BY DEF Pending
    <3> QED
      BY <2>1, <2>2, <3>1 DEF AllCovered
  <2>4. PICK u \in c.m_transitions :
            /\ u[1] = t[1] /\ u[3] = sym
            /\ ItemsOf(DoTransition(elems, sym)) \subseteq ItemsOf(c.closures[u[2]].elems)
    BY <2>3 DEF Covered
  <2>5. u[2] \in DOMAIN c.closures
    BY DEF IsCollection
  <2>6. hash(c.closures[u[2]].elems, ~full_lr) = hash(DoTransition(elems, sym), ~full_lr)
    BY <2>4 DEF Going, Goes
  <2>7. u[2] = t[2]
    BY <2>1, <2>2, <2>5, <2>6 DEF Apart
  <2>8. <<AdvanceCursor(x[1]), x[2]>> \in ItemsOf(DoTransition(elems, sym))
    BY <1>1, <2>1, <2>2, TransitionFilled
  <2> QED
    BY <2>4, <2>7, <2>8
<1> QED
  BY <1>1 DEF NothingLost, Going, Filled

LEMMA StartGoes ==
    ASSUME LocalClosureCorrect, LocalClosureExact, CollectionInit
    PROVE  Going(lr, frames)
<1> DEFINE e == [core |-> <<start, 0>>, las |-> <<g_end>>]
           kernel == <<e>>
           elems == LocalClosure(kernel)
           call == DoTransitionsOf(0, elems, 1)
           object == [id |-> 0, elems |-> elems, comefrom |-> {}]
<1>1. /\ start \in StartRules
      /\ lr = [m_collection |-> <<0>>, closures |-> [o \in {0} |-> object], m_transitions |-> {}]
      /\ frames = <<call>>
  BY DEF CollectionInit
<1>2. elems \in Seq(Element) /\ UniqueCores(elems)
  BY <1>1, StartSound
<1>3. e \in Element /\ e.core = <<start, 0>> /\ e.las = <<g_end>>
  <2>1. start \in RuleNr /\ g_end \in Terminal
    BY <1>1, CollectionAssumption, GrammarAssumption
  <2>2. Rules[start].rhs \in Seq(Terminal \cup NonTerminal \cup {g_eps})
    BY <2>1, GrammarAssumption
  <2>3. Len(Rules[start].rhs) \in Nat
    BY <2>2
  <2>4. <<start, 0>> \in Core
    BY <2>1, <2>3 DEF Core
  <2> QED
    BY <2>1, <2>4 DEF Element
<1> HIDE DEF e
<1>4. kernel \in Seq(Element) /\ DOMAIN kernel = {1} /\ kernel[1] = e
  BY <1>3
<1>5. /\ DOMAIN <<g_end>> = {1} /\ <<g_end>>[1] = g_end /\ <<g_end>> # <<>>
  OBVIOUS
<1> HIDE DEF kernel
<1>6. WellFilled(kernel) /\ <<<<start, 0>>, g_end>> \in ItemsOf(kernel)
  <2>1. g_end \in Range(e.las) /\ e.las # <<>>
    BY <1>3, <1>5 DEF Range
  <2>2. WellFilled(kernel)
    BY <1>4, <2>1 DEF WellFilled
  <2>3. <<<<start, 0>>, g_end>> \in ItemsOf(kernel)
    BY <1>3, <1>4, <2>1, ItemPlace
  <2> QED
    BY <2>2, <2>3
<1>7. /\ WellFilled(elems) /\ ItemsOf(kernel) \subseteq ItemsOf(elems) /\ Closed(ItemsOf(elems))
  BY <1>4, <1>6 DEF LocalClosureExact
<1> HIDE DEF elems
<1>8. Filled(elems)
  BY <1>2, <1>7, WellFilledCores DEF Filled
<1>9. DOMAIN lr.closures = {0} /\ lr.closures[0].elems = elems /\ lr.m_transitions = {}
  BY <1>1
<1>10. Going(lr, <<>>)
  <2>1. DOMAIN <<>> = {}
    OBVIOUS
  <2> QED
    BY <1>6, <1>7, <1>8, <1>9, <2>1 DEF Going
<1>11. call \in Frame
  <2>1. ElementsSound(start, elems)
    BY <1>1, StartSound DEF elems, kernel, e
  <2> QED
    BY <1>1, <1>2, <2>1, CallBegins DEF CallOK
<1>12. Append(<<>>, call) = <<call>> /\ <<>> \in Seq(Frame)
  BY <1>11
<1>13. Going(lr, Append(<<>>, DoTransitionsOf(0, elems, 1)))
  BY <1>2, <1>9, <1>10, <1>12, GoingPushed
<1> QED
  BY <1>1, <1>12, <1>13

-----------------------------------------------------------------------------
(* Nothing is lost in the conversion *)

\* The new closures have what the old ones have that they stand for, and no more.
Gathered(c, map, d) ==
    /\ \A o \in DOMAIN map : ItemsOf(c.closures[o].elems) \subseteq ItemsOf(d.closures[map[o]].elems)
    /\ \A n \in DOMAIN d.closures : \A x \in ItemsOf(d.closures[n].elems) :
           \E o \in DOMAIN map : map[o] = n /\ x \in ItemsOf(c.closures[o].elems)

LEMMA NextUnmapped ==
    ASSUME NEW c, NEW map, NEW d, IsCollection(c), MapOK(c, map, d),
           Cardinality(DOMAIN map) < Len(c.m_collection)
    PROVE  c.m_collection[Cardinality(DOMAIN map) + 1] \notin DOMAIN map
<1> DEFINE m == Cardinality(DOMAIN map)
           seq == c.m_collection
<1>1. /\ seq \in Seq(Nat)
      /\ \A i, j \in DOMAIN seq : seq[i] = seq[j] => i = j
  BY DEF IsCollection
<1>2. m \in Nat /\ DOMAIN map = {seq[i] : i \in 1 .. m}
  BY FS_CardinalityType DEF MapOK
<1>3. DOMAIN seq = 1 .. Len(seq) /\ Len(seq) \in Nat /\ m < Len(seq)
  BY <1>1
<1> HIDE DEF m, seq
<1>4. m + 1 \in DOMAIN seq /\ \A i \in 1 .. m : i \in DOMAIN seq /\ i # m + 1
  BY <1>2, <1>3
<1>5. \A p \in DOMAIN map : \E i \in 1 .. m : p = seq[i]
  BY <1>2
<1>6. seq[m + 1] \notin DOMAIN map
  BY <1>1, <1>4, <1>5
<1> QED
  BY <1>6 DEF m, seq

LEMMA GatheredKept ==
    ASSUME LRInv, ConversionInv, ConvertClosure, Gathered(lr, closure_map, coll),
           NEW n, NEW elems, Gathering(n, elems)
    PROVE  Gathered(lr, closure_map', coll')
<1> DEFINE o == lr.m_collection[Cardinality(DOMAIN closure_map) + 1]
           new == With(closure_map, o, n)
<1>1. /\ phase = "states" /\ Cardinality(DOMAIN closure_map) < Len(lr.m_collection)
  BY DEF ConvertClosure
<1>2. IsCollection(lr) /\ MapOK(lr, closure_map, coll)
  BY <1>1 DEF LRInv, ConversionInv
<1>3. o \notin DOMAIN closure_map
  BY <1>1, <1>2, NextUnmapped
<1>4. /\ closure_map' = new
      /\ ItemsOf(elems) = ItemsOf(lr.closures[o].elems)
             \cup (IF n \in DOMAIN coll.closures THEN ItemsOf(coll.closures[n].elems) ELSE {})
      /\ TakesOver(lr, coll, coll', o, n, elems)
  BY DEF Gathering
<1> HIDE DEF o
<1>5. /\ DOMAIN coll'.closures = DOMAIN coll.closures \cup {n}
      /\ \A p \in DOMAIN coll.closures : p # n => coll'.closures[p] = coll.closures[p]
      /\ coll'.closures[n].elems = elems
  <2>1. coll'.closures[n] =
            [id |-> lr.closures[n].id, elems |-> elems,
             comefrom |-> (IF n \in DOMAIN coll.closures THEN coll.closures[n].comefrom ELSE {})
                              \cup lr.closures[o].comefrom]
    BY <1>4 DEF TakesOver
  <2>2. coll'.closures[n].elems = elems
    BY <2>1
  <2> QED
    BY <1>4, <2>2 DEF TakesOver
<1>6. /\ DOMAIN new = DOMAIN closure_map \cup {o} /\ new[o] = n
      /\ \A p \in DOMAIN closure_map : new[p] = closure_map[p]
  BY <1>3 DEF With
<1> HIDE DEF new
<1>7. \A p \in DOMAIN closure_map :
          /\ closure_map[p] \in DOMAIN coll.closures
          /\ ItemsOf(lr.closures[p].elems) \subseteq ItemsOf(coll.closures[closure_map[p]].elems)
  BY <1>2 DEF MapOK, Gathered
<1>8. \A p \in DOMAIN coll.closures : ItemsOf(coll.closures[p].elems) \subseteq ItemsOf(coll'.closures[p].elems)
  <2> TAKE p \in DOMAIN coll.closures
  <2>1. CASE p = n
    BY <1>4, <1>5, <2>1
  <2>2. CASE p # n
    BY <1>5, <2>2
  <2> QED
    BY <2>1, <2>2
<1>9. ASSUME NEW p \in DOMAIN new
      PROVE  ItemsOf(lr.closures[p].elems) \subseteq ItemsOf(coll'.closures[new[p]].elems)
  <2>1. CASE p = o
    BY <1>4, <1>5, <1>6, <2>1
  <2>2. CASE p \in DOMAIN closure_map
    BY <1>6, <1>7, <1>8, <2>2
  <2> QED
    BY <1>6, <2>1, <2>2
<1>10. ASSUME NEW k \in DOMAIN coll.closures, NEW x \in ItemsOf(coll.closures[k].elems)
       PROVE  \E p \in DOMAIN new : new[p] = k /\ x \in ItemsOf(lr.closures[p].elems)
  <2>1. PICK p \in DOMAIN closure_map : closure_map[p] = k /\ x \in ItemsOf(lr.closures[p].elems)
    BY DEF Gathered
  <2> QED
    BY <1>6, <2>1
<1>11. ASSUME NEW k \in DOMAIN coll'.closures, NEW x \in ItemsOf(coll'.closures[k].elems)
       PROVE  \E p \in DOMAIN new : new[p] = k /\ x \in ItemsOf(lr.closures[p].elems)
  <2>1. CASE k # n
    BY <1>5, <1>10, <2>1
  <2>2. CASE k = n /\ x \in ItemsOf(lr.closures[o].elems)
    BY <1>6, <2>2
  <2>3. CASE k = n /\ n \in DOMAIN coll.closures /\ x \in ItemsOf(coll.closures[n].elems)
    BY <1>10, <2>3
  <2> QED
    BY <1>4, <1>5, <2>1, <2>2, <2>3
<1> QED
  BY <1>4, <1>9, <1>11 DEF Gathered

AllFilled(c) == \A o \in DOMAIN c.closures : Filled(c.closures[o].elems)

LEMMA GoesCores ==
    ASSUME LocalClosureCorrect, LocalClosureExact,
           NEW a \in Seq(Element), UniqueCores(a), Filled(a),
           NEW b \in Seq(Element), NEW sym, Goes(a, sym, b)
    PROVE  CoresOf(b) = CoresOf(DoTransition(a, sym))
<1>1. /\ sym \in Syms(a) /\ hash(b, ~full_lr) = hash(DoTransition(a, sym), ~full_lr)
  BY DEF Goes
<1>2. DoTransition(a, sym) \in Seq(Element)
  BY <1>1, TransitionFilled
<1>3. (~full_lr) \in {TRUE, FALSE}
  OBVIOUS
<1>4. CASE (~full_lr) = TRUE
  <2>1. hash(b, TRUE) = hash(DoTransition(a, sym), TRUE)
    BY <1>1, <1>4
  <2> QED
    BY <1>2, <2>1, SameHash
<1>5. CASE (~full_lr) = FALSE
  <2>1. hash(b, FALSE) = hash(DoTransition(a, sym), FALSE)
    BY <1>1, <1>5
  <2> QED
    BY <1>2, <2>1, SameHash
<1> QED
  BY <1>3, <1>4, <1>5

\* Transitions over a symbol from closures with the same cores lead to closures
\* with the same cores, for which the same new one stands.
TargetsJoined(c, map) ==
    \A t, u \in c.m_transitions :
        map[t[1]] = map[u[1]] /\ t[3] = u[3] => map[t[2]] = map[u[2]]

LEMMA JoinedTargets ==
    ASSUME LocalClosureCorrect, LocalClosureExact, FirstNonempty,
           NEW c, NEW map, NEW d, IsCollection(c), Going(c, <<>>), IsCollection(d), Apart(d, TRUE),
           MapOK(c, map, d), DOMAIN map = DOMAIN c.closures
    PROVE  TargetsJoined(c, map)
<1> SUFFICES ASSUME NEW t \in c.m_transitions, NEW u \in c.m_transitions,
                    map[t[1]] = map[u[1]], t[3] = u[3]
             PROVE  map[t[2]] = map[u[2]]
  BY DEF TargetsJoined
<1> DEFINE a == c.closures[t[1]].elems
           b == c.closures[u[1]].elems
           x == c.closures[t[2]].elems
           y == c.closures[u[2]].elems
           X == t[3]
<1>1. /\ t[1] \in DOMAIN c.closures /\ t[2] \in DOMAIN c.closures
      /\ u[1] \in DOMAIN c.closures /\ u[2] \in DOMAIN c.closures
      /\ \A o \in DOMAIN c.closures :
             c.closures[o].elems \in Seq(Element) /\ UniqueCores(c.closures[o].elems)
      /\ \A n \in DOMAIN d.closures : d.closures[n].elems \in Seq(Element)
  BY DEF IsCollection, ClosureObject
<1>2. \A o \in DOMAIN c.closures :
          /\ map[o] \in DOMAIN d.closures
          /\ CoresOf(d.closures[map[o]].elems) = CoresOf(c.closures[o].elems)
  BY DEF MapOK
<1>3. /\ Filled(a) /\ Filled(b) /\ Goes(a, X, x) /\ Goes(b, X, y)
      /\ a \in Seq(Element) /\ UniqueCores(a) /\ b \in Seq(Element) /\ UniqueCores(b)
      /\ x \in Seq(Element) /\ y \in Seq(Element)
  BY <1>1 DEF Going
<1>4. CoresOf(a) = CoresOf(b)
  BY <1>1, <1>2
<1>5. CoresOf(x) = CoresOf(d.closures[map[t[2]]].elems) /\ CoresOf(y) = CoresOf(d.closures[map[u[2]]].elems)
  BY <1>1, <1>2
<1> HIDE DEF a, b, x, y, X
<1>6. X \in Syms(a)
  BY <1>3 DEF Goes
<1>7. CoresOf(DoTransition(a, X)) = CoresOf(DoTransition(b, X))
  BY <1>3, <1>4, <1>6, TransitionCores
<1>8. CoresOf(x) = CoresOf(DoTransition(a, X)) /\ CoresOf(y) = CoresOf(DoTransition(b, X))
  BY <1>3, GoesCores
<1>9. CoresOf(d.closures[map[t[2]]].elems) = CoresOf(d.closures[map[u[2]]].elems)
  BY <1>5, <1>7, <1>8
<1>10. hash(d.closures[map[t[2]]].elems, TRUE) = hash(d.closures[map[u[2]]].elems, TRUE)
  BY <1>1, <1>2, <1>9, SameHash
<1> QED
  BY <1>1, <1>2, <1>10 DEF Apart

LEMMA JoinedLosesNothing ==
    ASSUME LocalClosureCorrect, LocalClosureExact, FirstNonempty,
           NEW s, NEW c, NEW map, NEW d,
           IsCollection(c), Remembered(c), TransitionsMade(c), 0 \in DOMAIN c.closures,
           Going(c, <<>>), NothingLost(c),
           IsCollection(d), Apart(d, TRUE), MapOK(c, map, d), UnitedOK(s, c, map, d),
           DOMAIN map = DOMAIN c.closures, Gathered(c, map, d)
    PROVE  NothingLost(Joined(c, map, d)) /\ AllFilled(Joined(c, map, d))
<1> DEFINE e == Joined(c, map, d)
<1>1. /\ DOMAIN e.closures = DOMAIN d.closures
      /\ e.m_transitions = {<<map[t[1]], map[t[2]], t[3]>> : t \in c.m_transitions}
      /\ \A n \in DOMAIN d.closures : e.closures[n].elems = d.closures[n].elems
  BY JoinedClosures
<1>2. /\ \A o \in DOMAIN c.closures :
             /\ map[o] \in DOMAIN d.closures
             /\ CoresOf(d.closures[map[o]].elems) = CoresOf(c.closures[o].elems)
             /\ ItemsOf(c.closures[o].elems) \subseteq ItemsOf(d.closures[map[o]].elems)
      /\ \A n \in DOMAIN d.closures : n \in DOMAIN c.closures /\ map[n] = n
      /\ \A n \in DOMAIN d.closures : \A x \in ItemsOf(d.closures[n].elems) :
             \E o \in DOMAIN c.closures : map[o] = n /\ x \in ItemsOf(c.closures[o].elems)
      /\ 0 \in DOMAIN d.closures
  <2>1. /\ \A o \in DOMAIN c.closures :
               /\ map[o] \in DOMAIN d.closures
               /\ CoresOf(d.closures[map[o]].elems) = CoresOf(c.closures[o].elems)
        /\ \A n \in DOMAIN d.closures : n \in DOMAIN c.closures /\ map[n] = n
        /\ 0 \in DOMAIN d.closures
    BY DEF MapOK
  <2>2. /\ \A o \in DOMAIN c.closures :
               ItemsOf(c.closures[o].elems) \subseteq ItemsOf(d.closures[map[o]].elems)
        /\ \A n \in DOMAIN d.closures : \A x \in ItemsOf(d.closures[n].elems) :
               \E o \in DOMAIN c.closures : map[o] = n /\ x \in ItemsOf(c.closures[o].elems)
    BY DEF Gathered
  <2> QED
    BY <2>1, <2>2
<1>3. \A o \in DOMAIN c.closures :
          /\ c.closures[o].elems \in Seq(Element)
          /\ Filled(c.closures[o].elems)
  BY DEF IsCollection, ClosureObject, Going
<1>4. /\ <<<<start, 0>>, g_end>> \in ItemsOf(c.closures[0].elems)
      /\ \A t \in c.m_transitions : \A x \in ItemsOf(c.closures[t[1]].elems) :
             GetPossibleTransition(x[1]) = t[3] =>
                 <<AdvanceCursor(x[1]), x[2]>> \in ItemsOf(c.closures[t[2]].elems)
      /\ \A t \in c.m_transitions : t[1] \in DOMAIN c.closures /\ t[2] \in DOMAIN c.closures
  BY DEF NothingLost, IsCollection
<1> HIDE DEF e
<1>a. \A t, u \in c.m_transitions :
          map[t[1]] = map[u[1]] /\ t[3] = u[3] => map[t[2]] = map[u[2]]
  <2>1. TargetsJoined(c, map)
    BY JoinedTargets
  <2> QED
    BY <2>1 DEF TargetsJoined
<1>5. <<<<start, 0>>, g_end>> \in ItemsOf(e.closures[0].elems)
  <2>1. map[0] = 0 /\ e.closures[0].elems = d.closures[0].elems
    BY <1>1, <1>2
  <2>2. ItemsOf(c.closures[0].elems) \subseteq ItemsOf(d.closures[map[0]].elems)
    BY <1>2
  <2> QED
    BY <1>4, <2>1, <2>2
<1>6. ASSUME NEW n \in DOMAIN d.closures PROVE Filled(d.closures[n].elems)
  <2>1. /\ n \in DOMAIN c.closures
        /\ CoresOf(d.closures[n].elems) = CoresOf(c.closures[n].elems)
        /\ ItemsOf(c.closures[n].elems) \subseteq ItemsOf(d.closures[n].elems)
    BY <1>2
  <2>2. \A core \in CoresOf(d.closures[n].elems) : \E la : <<core, la>> \in ItemsOf(d.closures[n].elems)
    BY <1>3, <2>1 DEF Filled
  <2>3. ASSUME NEW x \in ItemsOf(d.closures[n].elems)
        PROVE  Implied(x[1], x[2]) \subseteq ItemsOf(d.closures[n].elems)
    <3>1. PICK o \in DOMAIN c.closures : map[o] = n /\ x \in ItemsOf(c.closures[o].elems)
      BY <1>2
    <3>2. Implied(x[1], x[2]) \subseteq ItemsOf(c.closures[o].elems)
      BY <1>3, <3>1 DEF Filled, Closed
    <3> QED
      BY <1>2, <3>1, <3>2
  <2> QED
    BY <2>2, <2>3 DEF Filled, Closed
<1>7. ASSUME NEW w \in e.m_transitions, NEW x \in ItemsOf(e.closures[w[1]].elems),
             GetPossibleTransition(x[1]) = w[3]
      PROVE  <<AdvanceCursor(x[1]), x[2]>> \in ItemsOf(e.closures[w[2]].elems)
  <2>1. PICK t \in c.m_transitions : w = <<map[t[1]], map[t[2]], t[3]>>
    BY <1>1
  <2>2. /\ w[1] = map[t[1]] /\ w[2] = map[t[2]] /\ w[3] = t[3]
        /\ t[1] \in DOMAIN c.closures /\ t[2] \in DOMAIN c.closures
    BY <1>4, <2>1
  <2>3. /\ w[1] \in DOMAIN d.closures /\ w[2] \in DOMAIN d.closures
        /\ e.closures[w[1]].elems = d.closures[w[1]].elems
        /\ e.closures[w[2]].elems = d.closures[w[2]].elems
    BY <1>1, <1>2, <2>2
  <2>4. PICK o \in DOMAIN c.closures : map[o] = w[1] /\ x \in ItemsOf(c.closures[o].elems)
    BY <1>2, <1>7, <2>3
  <2>5. w[3] \in Syms(c.closures[o].elems)
    <3>1. t[3] # NoSymbol
      BY <2>1 DEF Going, Goes, Syms
    <3>2. x[1] \in CoresOf(c.closures[o].elems)
      BY <1>3, <2>4, ElementType
    <3> QED
      BY <1>7, <2>2, <3>1, <3>2 DEF Syms
  <2>6. PICK u \in c.m_transitions : u[1] = o /\ u[3] = w[3]
    BY <2>5 DEF TransitionsMade
  <2>7. <<AdvanceCursor(x[1]), x[2]>> \in ItemsOf(c.closures[u[2]].elems)
    BY <1>4, <1>7, <2>4, <2>6
  <2>8. map[u[2]] = map[t[2]]
    <3>1. map[u[1]] = map[t[1]] /\ u[3] = t[3]
      BY <2>2, <2>4, <2>6
    <3> QED
      BY <1>a, <3>1
  <2>9. u[2] \in DOMAIN c.closures
    BY <1>4
  <2>10. ItemsOf(c.closures[u[2]].elems) \subseteq ItemsOf(d.closures[map[u[2]]].elems)
    BY <1>2, <2>9
  <2> DEFINE y == <<AdvanceCursor(x[1]), x[2]>>
  <2> HIDE DEF y
  <2>11. y \in ItemsOf(c.closures[u[2]].elems)
    BY <2>7 DEF y
  <2>12. y \in ItemsOf(e.closures[w[2]].elems)
    BY <2>2, <2>3, <2>8, <2>10, <2>11
  <2> QED
    BY <2>12 DEF y
<1>8. AllFilled(e)
  BY <1>1, <1>6 DEF AllFilled
<1>9. NothingLost(e)
  BY <1>1, <1>5, <1>6, <1>7 DEF NothingLost, Filled
<1> QED
  BY <1>8, <1>9 DEF e

-----------------------------------------------------------------------------
(* Nothing is lost when look-aheads become what may follow *)

SlrElements(elems) ==
    [i \in DOMAIN elems |-> [elems[i] EXCEPT !.las = Listed(Follow[GetLhs(elems[i].core)])]]

LEMMA SlrItems ==
    ASSUME NEW elems \in Seq(Element)
    PROVE  \A x : x \in ItemsOf(SlrElements(elems)) <=>
               \E core \in CoresOf(elems) : \E la \in Follow[GetLhs(core)] : x = <<core, la>>
<1> DEFINE new == SlrElements(elems)
<1>1. ASSUME NEW i \in DOMAIN elems
      PROVE  /\ new[i].core = elems[i].core
             /\ Range(new[i].las) = Follow[GetLhs(elems[i].core)]
  <2> DEFINE las == Listed(Follow[GetLhs(elems[i].core)])
  <2>1. elems[i] \in Element /\ elems[i].core \in Core
    BY ElementType
  <2>2. GetLhs(elems[i].core) \in NonTerminal
    BY <2>1, CoreType
  <2>3. Follow[GetLhs(elems[i].core)] \in SUBSET Terminal
    BY <2>2, CollectionAssumption
  <2>4. Range(las) = Follow[GetLhs(elems[i].core)]
    BY <2>3, ListedRange
  <2>5. new[i] = [elems[i] EXCEPT !.las = las]
    BY DEF SlrElements
  <2> HIDE DEF las, new
  <2> QED
    BY <2>1, <2>4, <2>5 DEF Element
<1>2. DOMAIN new = DOMAIN elems
  BY DEF SlrElements
<1> HIDE DEF new
<1>3. ASSUME NEW x \in ItemsOf(new)
      PROVE  \E core \in CoresOf(elems) : \E la \in Follow[GetLhs(core)] : x = <<core, la>>
  <2>1. PICK i \in DOMAIN new : \E la \in Range(new[i].las) : x = <<new[i].core, la>>
    BY ItemPlace
  <2>2. \E la \in Follow[GetLhs(elems[i].core)] : x = <<elems[i].core, la>>
    BY <1>1, <1>2, <2>1
  <2>3. elems[i].core \in CoresOf(elems)
    BY <1>2, <2>1 DEF CoresOf
  <2> QED
    BY <2>2, <2>3
<1>4. ASSUME NEW core \in CoresOf(elems), NEW la \in Follow[GetLhs(core)]
      PROVE  <<core, la>> \in ItemsOf(new)
  <2>1. PICK i \in DOMAIN elems : core = elems[i].core
    BY DEF CoresOf
  <2>2. la \in Range(new[i].las) /\ new[i].core = core
    BY <1>1, <2>1
  <2>3. \E l \in Range(new[i].las) : <<core, la>> = <<new[i].core, l>>
    BY <2>2
  <2> QED
    BY <1>2, <2>1, <2>3, ItemPlace
<1> QED
  BY <1>3, <1>4 DEF new

LEMMA SlrLosesNothing ==
    ASSUME FirstNonempty, FollowClosed, start \in StartRules,
           NEW c, IsCollection(c), 0 \in DOMAIN c.closures, NothingLost(c), AllFilled(c)
    PROVE  NothingLost(SetLookaheads(c))
<1> DEFINE d == SetLookaheads(c)
<1>1. /\ d.m_transitions = c.m_transitions /\ DOMAIN d.closures = DOMAIN c.closures
      /\ \A o \in DOMAIN c.closures : d.closures[o].elems = SlrElements(c.closures[o].elems)
  <2>1. /\ d.m_transitions = c.m_transitions /\ DOMAIN d.closures = DOMAIN c.closures
        /\ \A o \in DOMAIN c.closures : d.closures[o] = [c.closures[o] EXCEPT !.elems = SlrElements(@)]
    BY DEF SetLookaheads, SlrElements
  <2>2. \A o \in DOMAIN c.closures : c.closures[o] \in ClosureObject
    BY DEF IsCollection
  <2> HIDE DEF d
  <2> QED
    BY <2>1, <2>2 DEF ClosureObject
<1> HIDE DEF d
<1>2. \A o \in DOMAIN c.closures : c.closures[o].elems \in Seq(Element) /\ Filled(c.closures[o].elems)
  BY DEF IsCollection, ClosureObject, AllFilled
<1>3. \A o \in DOMAIN c.closures : \A x :
          x \in ItemsOf(d.closures[o].elems) <=>
              \E core \in CoresOf(c.closures[o].elems) : \E la \in Follow[GetLhs(core)] : x = <<core, la>>
  BY <1>1, <1>2, SlrItems
<1>4. \A o \in DOMAIN c.closures : \A core, la :
          core \in CoresOf(c.closures[o].elems) /\ la \in Follow[GetLhs(core)] =>
              <<core, la>> \in ItemsOf(d.closures[o].elems)
  BY <1>3
<1>5. <<<<start, 0>>, g_end>> \in ItemsOf(d.closures[0].elems)
  <2> DEFINE x == <<<<start, 0>>, g_end>>
  <2>1. x \in ItemsOf(c.closures[0].elems)
    BY DEF NothingLost
  <2>2. x[1] \in CoresOf(c.closures[0].elems) /\ x[1] = <<start, 0>>
    BY <1>2, <2>1, ElementType
  <2>3. GetLhs(<<start, 0>>) = Rules[start].lhs
    BY DEF GetLhs
  <2>4. g_end \in Follow[GetLhs(<<start, 0>>)]
    BY <2>3, StartAssumption
  <2> QED
    BY <1>4, <2>2, <2>4
<1>6. ASSUME NEW o \in DOMAIN c.closures, NEW x \in ItemsOf(d.closures[o].elems),
             NEW z \in Implied(x[1], x[2])
      PROVE  z \in ItemsOf(d.closures[o].elems)
  <2> DEFINE elems == c.closures[o].elems
  <2>a. PICK core \in CoresOf(elems) : \E l \in Follow[GetLhs(core)] : x = <<core, l>>
    BY <1>3
  <2>1. PICK la \in Follow[GetLhs(core)] : x = <<core, la>>
    BY <2>a
  <2>2. core \in Core /\ x[1] = core /\ x[2] = la /\ elems \in Seq(Element) /\ Filled(elems)
    BY <1>2, <2>1, ElementType
  <2>3. /\ core[1] \in RuleNr /\ GetLhs(core) \in NonTerminal
    BY <2>2, CoreType
  <2>4. la \in Terminal
    BY <2>3, CollectionAssumption
  <2> DEFINE N == GetSymbolAtCursor(core)
  <2>5. /\ N \in NonTerminal
        /\ \E r \in RulesOf(N) : z[1] = <<r, 0>>
        /\ z = <<z[1], z[2]>>
        /\ z[2] \in calc_first(GetRhs(core), la, core[2] + 1)
    BY <2>2, <2>4, ImpliedItem
  <2>6. PICK r \in RulesOf(N) : z[1] = <<r, 0>>
    BY <2>5
  <2>7. <<r, 0>> \in CoresOf(elems)
    BY <2>2, <2>5, <2>6, FilledCores
  <2>8. GetLhs(<<r, 0>>) = N
    BY <2>6 DEF GetLhs, RulesOf
  <2>9. z[2] \in Follow[N]
    <3> DEFINE i == core[2] + 1
               rhs == Rules[core[1]].rhs
    <3>1. i \in DOMAIN rhs /\ rhs[i] = N
      BY <2>2, <2>5, CursorAtNonterminal DEF GetRhs
    <3>2. z[2] \in calc_first(rhs, la, i) /\ la \in Follow[Rules[core[1]].lhs]
      BY <2>1, <2>5 DEF GetRhs, GetLhs
    <3> HIDE DEF i, N
    <3>3. calc_first(rhs, la, i) \subseteq Follow[rhs[i]]
      BY <2>3, <2>5, <3>1, <3>2 DEF FollowClosed
    <3> QED
      BY <3>1, <3>2, <3>3
  <2>10. <<z[1], z[2]>> \in ItemsOf(d.closures[o].elems)
    BY <1>4, <2>6, <2>7, <2>8, <2>9
  <2> QED
    BY <2>5, <2>10
<1>7. ASSUME NEW t \in c.m_transitions, NEW x \in ItemsOf(d.closures[t[1]].elems),
             GetPossibleTransition(x[1]) = t[3]
      PROVE  <<AdvanceCursor(x[1]), x[2]>> \in ItemsOf(d.closures[t[2]].elems)
  <2>1. t[1] \in DOMAIN c.closures /\ t[2] \in DOMAIN c.closures
    BY DEF IsCollection
  <2>a. PICK core \in CoresOf(c.closures[t[1]].elems) : \E l \in Follow[GetLhs(core)] : x = <<core, l>>
    BY <1>3, <2>1
  <2>2. PICK la \in Follow[GetLhs(core)] : x = <<core, la>>
    BY <2>a
  <2>3. x[1] = core /\ x[2] = la
    BY <2>2
  <2>4. PICK l : <<core, l>> \in ItemsOf(c.closures[t[1]].elems)
    BY <1>2, <2>1 DEF Filled
  <2>5. <<AdvanceCursor(core), l>> \in ItemsOf(c.closures[t[2]].elems)
    <3> DEFINE y == <<core, l>>
    <3>1. y \in ItemsOf(c.closures[t[1]].elems) /\ y[1] = core /\ y[2] = l
      BY <2>4
    <3> HIDE DEF y
    <3>2. <<AdvanceCursor(y[1]), y[2]>> \in ItemsOf(c.closures[t[2]].elems)
      BY <1>7, <2>3, <3>1 DEF NothingLost
    <3> QED
      BY <3>1, <3>2
  <2>6. AdvanceCursor(core) \in CoresOf(c.closures[t[2]].elems)
    <3> DEFINE y == <<AdvanceCursor(core), l>>
    <3>1. y \in ItemsOf(c.closures[t[2]].elems) /\ y[1] = AdvanceCursor(core)
      BY <2>5
    <3> HIDE DEF y
    <3>2. c.closures[t[2]].elems \in Seq(Element)
      BY <1>2, <2>1
    <3>3. y[1] \in CoresOf(c.closures[t[2]].elems)
      BY <3>1, <3>2, ElementType
    <3> QED
      BY <3>1, <3>3
  <2>7. GetLhs(AdvanceCursor(core)) = GetLhs(core)
    BY DEF GetLhs, AdvanceCursor
  <2>8. <<AdvanceCursor(core), la>> \in ItemsOf(d.closures[t[2]].elems)
    BY <1>4, <2>1, <2>6, <2>7
  <2> QED
    BY <2>3, <2>8
<1>8. NothingLost(d)
  BY <1>1, <1>5, <1>6, <1>7 DEF NothingLost, Closed
<1> QED
  BY <1>8 DEF d

-----------------------------------------------------------------------------
(* The invariant: nothing is lost on the way *)

LEMMA GoingStays ==
    ASSUME UNCHANGED <<start, mode>>, NEW c, NEW fr, c = lr', fr = frames', Going(c, fr)
    PROVE  Going(lr, frames)'
BY DEF Going, Goes, full_lr

LEMMA LostStays ==
    ASSUME UNCHANGED start, NEW c, c = Result', NothingLost(c)
    PROVE  NothingLost(Result)'
BY DEF NothingLost

LEMMA TakingGoes ==
    ASSUME LocalClosureCorrect, LocalClosureExact, FirstNonempty,
           LRInv, phase = "transitions", frames[Len(frames)].pending # <<>>, Going(lr, frames),
           NEW n, NEW elems, Taking(n, elems)
    PROVE  Going(lr, frames)'
<1> DEFINE call == DoTransitionsOf(n, elems, g_id)
           new == Resumed(frames)
<1>1. Transiting(lr, frames, g_id) /\ g_id \in Nat
  BY InTransit DEF LRInv
<1>2. /\ Going(lr', new)
      /\ n \in DOMAIN lr'.closures /\ n \in Nat /\ lr'.closures[n].elems = elems
      /\ elems \in Seq(Element) /\ UniqueCores(elems)
  BY <1>1, GoingTaken
<1>3. new \in Seq(Frame)
  <2>1. FramesOK(start, lr, g_id, frames) /\ frames # <<>>
    BY <1>1 DEF Transiting
  <2> QED
    BY <2>1, ResumedFrames DEF FramesOK
<1>4. /\ UNCHANGED <<start, mode>>
      /\ frames' = Append(new, call) \/ frames' = new
  BY DEF Taking
<1> HIDE DEF new
<1>5. Going(lr', Append(new, call))
  BY <1>1, <1>2, <1>3, GoingPushed
<1> HIDE DEF call
<1>6. Going(lr', frames')
  BY <1>2, <1>4, <1>5
<1> QED
  BY <1>4, <1>6, GoingStays

LEMMA ReturnGoes ==
    ASSUME LRInv, Return, Going(lr, frames)
    PROVE  Going(lr, frames)'
<1>1. Transiting(lr, frames, g_id) /\ phase = "transitions" /\ Len(frames) > 1
  BY InTransit DEF Return
<1>2. frames \in Seq(Frame)
  BY <1>1 DEF Transiting, FramesOK
<1>3. frames' = SubSeq(frames, 1, Len(frames) - 1) /\ UNCHANGED <<start, mode, lr>>
  BY DEF Return
<1>4. Going(lr, SubSeq(frames, 1, Len(frames) - 1))
  BY <1>1, <1>2, GoingPopped
<1> QED
  BY <1>3, <1>4, GoingStays

LEMMA TransitionsDoneGoes ==
    ASSUME LocalClosureCorrect, LocalClosureExact, LRInv, TransitionsDone, Going(lr, frames)
    PROVE  /\ Going(lr, frames)'
           /\ phase' = "states" => Gathered(lr, closure_map, coll)'
           /\ phase' = "done" => NothingLost(Result)'
<1> DEFINE d == Simplify(lr)
<1>1. /\ Transiting(lr, frames, g_id) /\ phase = "transitions" /\ Len(frames) = 1
      /\ frames[1].pending = <<>> /\ start \in StartRules /\ mode \in Modes
      /\ closure_map = <<>> /\ coll = Empty
  BY InTransit DEF TransitionsDone, top, LRInv
<1>2. /\ lr' = d /\ frames' = <<>>
      /\ phase' = IF mode \in {"convert", "slr"} THEN "states" ELSE "done"
      /\ UNCHANGED <<start, mode, g_id, closure_map, coll>>
  BY DEF TransitionsDone
<1>3. /\ IsCollection(lr) /\ Apart(lr, ~full_lr) /\ AllCovered(lr, frames)
      /\ 0 \in DOMAIN lr.closures /\ lr.closures[0].id = 0
  BY <1>1 DEF Transiting, ClosuresSound, IdsKept
<1>4. Apart(lr, FALSE)
  <2>1. CASE full_lr
    <3>1. (~full_lr) = FALSE
      BY <2>1
    <3> QED
      BY <1>3, <3>1
  <2>2. CASE ~full_lr
    <3>1. (~full_lr) = TRUE
      BY <2>2
    <3> QED
      BY <1>3, <3>1, ApartByCores
  <2> QED
    BY <2>1, <2>2
<1>5. Alike(lr, d)
  BY <1>3, <1>4, SimplifyNumbers
<1>6. AllCovered(lr, <<>>) /\ Going(lr, <<>>)
  <2>1. frames \in Seq(Frame)
    BY <1>1 DEF Transiting, FramesOK
  <2>2. \A k \in DOMAIN frames : frames[k].pending = <<>>
    BY <1>1, <2>1
  <2>3. \A o, X : ~Pending(lr, frames, o, X)
    BY <2>2 DEF Pending
  <2>4. AllCovered(lr, <<>>)
    BY <1>3, <2>3 DEF AllCovered
  <2>5. DOMAIN <<>> = {}
    OBVIOUS
  <2>6. Going(lr, <<>>)
    BY <2>5 DEF Going
  <2> QED
    BY <2>4, <2>6
<1>7. NothingLost(lr)
  BY <1>3, <1>6, GoneLosesNothing
<1> HIDE DEF d
<1>8. NothingLost(d) /\ Going(d, <<>>)
  BY <1>3, <1>5, <1>6, <1>7, LostAlike, GoingAlike
<1>9. Going(lr, frames)'
  BY <1>2, <1>8, GoingStays
<1>10. Gathered(lr, closure_map, coll)'
  <2>1. closure_map' = <<>> /\ coll' = Empty
    BY <1>1, <1>2
  <2>2. DOMAIN <<>> = {} /\ DOMAIN Empty.closures = {}
    BY DEF Empty
  <2> QED
    BY <2>1, <2>2 DEF Gathered
<1>11. ASSUME phase' = "done" PROVE NothingLost(Result)'
  <2>1. mode \in {"lr1", "lalr"}
    BY <1>1, <1>2, <1>11 DEF Modes
  <2>2. Result' = d
    BY <1>2, <2>1 DEF Result
  <2> QED
    BY <1>2, <1>8, <2>2, LostStays
<1> QED
  BY <1>9, <1>10, <1>11

LEMMA ConversionDoneLosesNothing ==
    ASSUME LocalClosureCorrect, LocalClosureExact, FirstNonempty, FollowClosed,
           LRInv, ConversionInv, ConversionDone, Going(lr, frames), Gathered(lr, closure_map, coll)
    PROVE  NothingLost(Result)'
<1> DEFINE c == Joined(lr, closure_map, coll)
           d == Simplify(c)
<1>1. /\ phase = "states" /\ Cardinality(DOMAIN closure_map) = Len(lr.m_collection)
      /\ coll' = IF mode = "slr" THEN SetLookaheads(Converted) ELSE Converted
      /\ UNCHANGED <<start, mode, g_id, lr, frames, closure_map>>
  BY DEF ConversionDone
<1>2. /\ start \in StartRules /\ IsCollection(lr) /\ Numbered(lr) /\ Apart(lr, ~full_lr)
      /\ ClosuresSound(start, lr) /\ TransitionsSound(lr) /\ Remembered(lr)
      /\ AllCovered(lr, <<>>) /\ Going(lr, <<>>)
  BY <1>1 DEF LRInv
<1>3. /\ mode \in {"convert", "slr"} /\ IsCollection(coll) /\ Apart(coll, TRUE)
      /\ MapOK(lr, closure_map, coll) /\ UnitedOK(start, lr, closure_map, coll)
  BY <1>1 DEF ConversionInv
<1>4. Converted = d
  BY DEF Converted, Joined, NewComefrom
<1>5. DOMAIN closure_map = DOMAIN lr.closures
  <2>1. DOMAIN closure_map = {lr.m_collection[i] : i \in 1 .. Len(lr.m_collection)}
    BY <1>1, <1>3 DEF MapOK
  <2>2. lr.m_collection \in Seq(Nat) /\ Range(lr.m_collection) = DOMAIN lr.closures
    BY <1>2 DEF IsCollection
  <2>3. DOMAIN lr.m_collection = 1 .. Len(lr.m_collection)
    BY <2>2
  <2> QED
    BY <2>1, <2>2, <2>3 DEF Range
<1>6. TransitionsMade(lr) /\ 0 \in DOMAIN lr.closures
  <2>1. \A o, X : ~Pending(lr, <<>>, o, X)
    BY DEF Pending
  <2>2. \A o \in DOMAIN lr.closures : \A X \in Syms(lr.closures[o].elems) : Covered(lr, o, X)
    BY <1>2, <2>1 DEF AllCovered
  <2>3. TransitionsMade(lr)
    BY <2>2 DEF Covered, TransitionsMade
  <2> QED
    BY <1>2, <2>3 DEF ClosuresSound
<1>7. NothingLost(lr)
  BY <1>2, GoneLosesNothing
<1>8. /\ IsCollection(c) /\ Apart(c, TRUE) /\ 0 \in DOMAIN c.closures /\ c.closures[0].id = 0
  BY <1>2, <1>3, <1>5, JoinedSound
<1>9. NothingLost(c) /\ AllFilled(c)
  BY <1>2, <1>3, <1>5, <1>6, <1>7, JoinedLosesNothing
<1> HIDE DEF c
<1>10. IsCollection(d) /\ Alike(c, d)
  BY <1>8, ApartByCores, SimplifyNumbers
<1> HIDE DEF d
<1>11. NothingLost(d) /\ AllFilled(d) /\ 0 \in DOMAIN d.closures
  <2>1. NothingLost(d)
    BY <1>8, <1>9, <1>10, LostAlike
  <2> QED
    BY <1>8, <1>9, <1>10, <2>1 DEF Alike, AllFilled
<1>12. NothingLost(coll')
  <2>1. CASE mode = "slr"
    BY <1>1, <1>2, <1>4, <1>10, <1>11, <2>1, SlrLosesNothing
  <2>2. CASE mode # "slr"
    BY <1>1, <1>4, <1>11, <2>2
  <2> QED
    BY <2>1, <2>2
<1>13. Result' = coll'
  BY <1>1, <1>3 DEF Result
<1> QED
  BY <1>1, <1>12, <1>13, LostStays

CompleteInv ==
    /\ CollInv
    /\ Going(lr, frames)
    /\ phase = "states" => Gathered(lr, closure_map, coll)
    /\ Generated => NothingLost(Result)

LEMMA CompleteStays ==
    ASSUME LocalClosureCorrect, LocalClosureExact, FirstNonempty, FollowClosed,
           CompleteInv, [CollectionNext]_collvars
    PROVE  CompleteInv'
<1>1. /\ CollInv /\ LRInv /\ ConversionInv /\ Going(lr, frames) /\ CollInv'
      /\ phase = "states" => Gathered(lr, closure_map, coll)
      /\ phase = "done" => NothingLost(Result)
  BY StepKeeps DEF CollInv, CompleteInv, Generated
<1>2. CASE NewClosure \/ OldClosure
  <2>1. phase = "transitions" /\ frames[Len(frames)].pending # <<>>
    BY <1>2 DEF NewClosure, OldClosure, top
  <2>2. PICK n, elems : Taking(n, elems)
    BY <1>1, <1>2, NewClosureTakes, OldClosureTakes
  <2>3. Going(lr, frames)'
    BY <1>1, <2>1, <2>2, TakingGoes
  <2>4. phase' = "transitions"
    BY <1>2 DEF NewClosure, OldClosure
  <2> QED
    BY <1>1, <2>3, <2>4 DEF CompleteInv, Generated
<1>3. CASE Return
  <2>1. phase' = "transitions"
    BY <1>3 DEF Return
  <2> QED
    BY <1>1, <1>3, <2>1, ReturnGoes DEF CompleteInv, Generated
<1>4. CASE TransitionsDone
  BY <1>1, <1>4, TransitionsDoneGoes DEF CompleteInv, Generated
<1>5. CASE ConvertClosure
  <2>1. /\ phase = "states" /\ phase' = "states" /\ UNCHANGED <<start, mode, lr, frames>>
    BY <1>5 DEF ConvertClosure
  <2>2. PICK n, elems : Gathering(n, elems)
    BY <1>1, <1>5, ConvertClosureGathers
  <2>3. Gathered(lr, closure_map', coll')
    BY <1>1, <1>5, <2>1, <2>2, GatheredKept
  <2>4. Gathered(lr, closure_map, coll)'
    BY <2>1, <2>3 DEF Gathered
  <2>5. Going(lr, frames)'
    BY <1>1, <2>1, GoingStays
  <2> QED
    BY <1>1, <2>1, <2>4, <2>5 DEF CompleteInv, Generated
<1>6. CASE ConversionDone
  <2>1. /\ phase = "states" /\ phase' = "done" /\ UNCHANGED <<start, mode, lr, frames>>
    BY <1>6 DEF ConversionDone
  <2>2. NothingLost(Result)'
    BY <1>1, <1>6, <2>1, ConversionDoneLosesNothing
  <2>3. Going(lr, frames)'
    BY <1>1, <2>1, GoingStays
  <2> QED
    BY <1>1, <2>1, <2>2, <2>3 DEF CompleteInv
<1>7. CASE UNCHANGED collvars
  <2>1. UNCHANGED <<start, mode, phase, g_id, lr, frames, closure_map, coll, reported>>
    BY <1>7 DEF collvars
  <2>2. Going(lr, frames)'
    BY <1>1, <2>1, GoingStays
  <2>3. phase' = "states" => Gathered(lr, closure_map, coll)'
    BY <1>1, <2>1 DEF Gathered
  <2>4. Result' = Result
    BY <2>1 DEF Result
  <2>5. phase' = "done" => NothingLost(Result)'
    BY <1>1, <2>1, <2>4, LostStays
  <2> QED
    BY <1>1, <2>2, <2>3, <2>5 DEF CompleteInv, Generated
<1> QED
  BY <1>2, <1>3, <1>4, <1>5, <1>6, <1>7 DEF CollectionNext, Generate, CollectionDone

\* Nothing is lost while a collection is made: in the one asked for, whichever
\* way it is made, the first closure has the start rule with the end behind it,
\* each closure has what its items imply, and a transition carries its items on.
THEOREM CollectionComplete ==
    ASSUME LocalClosureCorrect, LocalClosureExact, FirstNonempty, FollowClosed
    PROVE  CollectionSpec => [](Generated => NothingLost(Result))
<1>1. CollectionInit => CompleteInv
  <2>1. CollectionInit => ~Generated /\ phase = "transitions"
    BY DEF CollectionInit, Generated
  <2> QED
    BY <2>1, InitHolds, StartGoes DEF CompleteInv
<1>2. CompleteInv /\ [CollectionNext]_collvars => CompleteInv'
  BY CompleteStays
<1>3. CompleteInv => (Generated => NothingLost(Result))
  BY DEF CompleteInv
<1> QED
  BY <1>1, <1>2, <1>3, PTL DEF CollectionSpec

=============================================================================
