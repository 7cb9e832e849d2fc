-------------------------- MODULE ParseTrees_proofs --------------------------
(* Proofs about the sentences of the grammar and the parser: with complete    *)
(* tables no sentence is rejected, and nothing else is accepted.              *)
EXTENDS ParseTrees, LRParser_proofs, WellFoundedInduction

\* Induction is done with the least, or the greatest, number that goes wrong.
LEMMA LeastNumber ==
    ASSUME NEW S, S \subseteq Nat, S # {}
    PROVE  \E x \in S : \A y \in S : x <= y
<1> DEFINE R == OpToRel(<, Nat)
<1>1. IsWellFoundedOn(R, Nat)
  BY NatLessThanWellFounded
<1>2. \A x, y \in Nat : <<y, x>> \in R <=> y < x
  BY DEF OpToRel
<1> HIDE DEF R
<1>3. PICK x \in S : \A y \in S : ~ (<<y, x>> \in R)
  BY <1>1, WFMin
<1>4. ASSUME NEW y \in S PROVE x <= y
  <2>1. x \in Nat /\ y \in Nat /\ ~ (y < x)
    BY <1>2, <1>3
  <2> QED BY <2>1
<1> QED BY <1>4

LEMMA GreatestNumber ==
    ASSUME NEW n \in Nat, NEW S, S \subseteq 0 .. n, S # {}
    PROVE  \E x \in S : \A y \in S : y <= x
<1> DEFINE U == {n - x : x \in S}
<1>1. U \subseteq Nat /\ U # {}
  <2>1. \A x \in S : x \in 0 .. n
    OBVIOUS
  <2>2. \A x \in S : n - x \in Nat
    BY <2>1
  <2>3. \E x \in S : TRUE
    OBVIOUS
  <2> QED BY <2>2, <2>3
<1>2. PICK u \in U : \A v \in U : u <= v
  BY <1>1, LeastNumber
<1>3. PICK x \in S : u = n - x
  OBVIOUS
<1>4. ASSUME NEW y \in S PROVE y <= x
  <2>1. n - x <= n - y
    BY <1>2, <1>3
  <2> QED BY <2>1
<1> QED BY <1>4

-----------------------------------------------------------------------------
(* Trees *)

Grown(T, tokens) == T \in Seq(TreeNode) /\ tokens \in Seq(Terminal) /\ IsForest(T, tokens)

LEMMA NodeTypes ==
    ASSUME NEW T \in Seq(TreeNode), NEW m \in 1 .. Len(T)
    PROVE  /\ T[m].sym \in Symbol /\ T[m].rule \in RuleNr \cup {NoRule}
           /\ T[m].kids \in Seq(Nat) /\ Len(T[m].kids) \in Nat
           /\ T[m].first \in Nat /\ T[m].to \in Nat
           /\ NextToken(T, m) = T[m].to /\ NextToken(T, m - 1) \in Nat
           /\ Len(T) \in Nat
<1>1. \A i \in 1 .. Len(T) : T[i] \in TreeNode
  OBVIOUS
<1>2. \A i \in 1 .. Len(T) : T[i].to \in Nat
  BY <1>1 DEF TreeNode
<1>3. NextToken(T, m - 1) \in Nat
  <2>1. m = 1 \/ m - 1 \in 1 .. Len(T)
    OBVIOUS
  <2> QED BY <1>2, <2>1 DEF NextToken
<1>4. /\ T[m].sym \in Symbol /\ T[m].rule \in RuleNr \cup {NoRule}
      /\ T[m].kids \in Seq(Nat) /\ T[m].first \in Nat /\ T[m].to \in Nat
  BY <1>1 DEF TreeNode, Symbol
<1> QED BY <1>3, <1>4 DEF NextToken

LEMMA NodeKinds ==
    ASSUME NEW T, NEW tokens, Grown(T, tokens), NEW m \in 1 .. Len(T)
    PROVE  /\ T[m].rule = NoRule => IsToken(T, tokens, m)
           /\ T[m].rule # NoRule => IsReduction(T, m) /\ T[m].rule \in RuleNr
<1>1. NoRule \notin RuleNr
  BY SymbolsAssumption DEF NoRule
<1> QED BY <1>1 DEF Grown, IsForest, IsToken, IsReduction

\* What a reduction says of its children.
LEMMA KidFacts ==
    ASSUME NEW T, NEW tokens, Grown(T, tokens), NEW m \in 1 .. Len(T), T[m].rule # NoRule
    PROVE  /\ T[m].rule \in RuleNr /\ T[m].sym = Rules[T[m].rule].lhs
           /\ Len(T[m].kids) = Len(Rhs(T[m].rule)) /\ Len(T[m].kids) \in Nat
           /\ T[m].to = NextToken(T, m - 1)
           /\ KidsEnd(T, m, 0) = T[m].first - 1
           /\ KidsEnd(T, m, Len(T[m].kids)) = m - 1
           /\ \A j \in 1 .. Len(T[m].kids) :
                  /\ KidsEnd(T, m, j) = T[m].kids[j]
                  /\ T[m].kids[j] \in 1 .. m - 1 /\ T[m].kids[j] \in 1 .. Len(T)
                  /\ T[T[m].kids[j]].sym = Rhs(T[m].rule)[j]
                  /\ T[T[m].kids[j]].first = KidsEnd(T, m, j - 1) + 1
           /\ \A j \in 0 .. Len(T[m].kids) : KidsEnd(T, m, j) \in Int
<1>1. IsReduction(T, m) /\ T \in Seq(TreeNode)
  BY NodeKinds DEF Grown
<1>2. T[m].first \in Nat /\ T[m].kids \in Seq(Nat) /\ Len(T[m].kids) \in Nat /\ Len(T) \in Nat
  BY <1>1, NodeTypes
<1>3. \A j \in 1 .. Len(T[m].kids) :
          KidsEnd(T, m, j) = T[m].kids[j] /\ T[m].kids[j] \in 1 .. m - 1 /\ T[m].kids[j] \in 1 .. Len(T)
  BY <1>1, <1>2 DEF IsReduction, KidsEnd
<1>4. KidsEnd(T, m, 0) = T[m].first - 1
  BY DEF KidsEnd
<1>5. ASSUME NEW j \in 0 .. Len(T[m].kids) PROVE KidsEnd(T, m, j) \in Int
  <2>1. CASE j = 0
    BY <1>2, <1>4, <2>1
  <2>2. CASE j # 0
    BY <1>2, <1>3, <2>2
  <2> QED BY <2>1, <2>2
<1> QED BY <1>1, <1>2, <1>3, <1>4, <1>5 DEF IsReduction

\* The same under a name, where it is needed next to other facts.
KidsKnown(T, m) ==
    /\ T[m].rule \in RuleNr /\ T[m].sym = Rules[T[m].rule].lhs
    /\ Len(T[m].kids) = Len(Rhs(T[m].rule)) /\ Len(T[m].kids) \in Nat
    /\ KidsEnd(T, m, 0) = T[m].first - 1
    /\ KidsEnd(T, m, Len(T[m].kids)) = m - 1
    /\ \A j \in 1 .. Len(T[m].kids) :
           /\ KidsEnd(T, m, j) = T[m].kids[j]
           /\ T[m].kids[j] \in 1 .. m - 1 /\ T[m].kids[j] \in 1 .. Len(T)
           /\ T[T[m].kids[j]].sym = Rhs(T[m].rule)[j]
           /\ T[T[m].kids[j]].first = KidsEnd(T, m, j - 1) + 1
    /\ \A j \in 0 .. Len(T[m].kids) : KidsEnd(T, m, j) \in Int

LEMMA KidsFacts ==
    ASSUME NEW T, NEW tokens, Grown(T, tokens), NEW m \in 1 .. Len(T), T[m].rule # NoRule
    PROVE  KidsKnown(T, m)
<1>1. /\ T[m].rule \in RuleNr /\ T[m].sym = Rules[T[m].rule].lhs
      /\ Len(T[m].kids) = Len(Rhs(T[m].rule)) /\ Len(T[m].kids) \in Nat
      /\ KidsEnd(T, m, 0) = T[m].first - 1
      /\ KidsEnd(T, m, Len(T[m].kids)) = m - 1
  BY KidFacts
<1>2. \A j \in 1 .. Len(T[m].kids) :
          /\ KidsEnd(T, m, j) = T[m].kids[j]
          /\ T[m].kids[j] \in 1 .. m - 1 /\ T[m].kids[j] \in 1 .. Len(T)
          /\ T[T[m].kids[j]].sym = Rhs(T[m].rule)[j]
          /\ T[T[m].kids[j]].first = KidsEnd(T, m, j - 1) + 1
  BY KidFacts
<1>3. \A j \in 0 .. Len(T[m].kids) : KidsEnd(T, m, j) \in Int
  BY KidFacts
<1> QED BY <1>1, <1>2, <1>3 DEF KidsKnown

\* What it means to be the j-th child of a node.
ChildKnown(T, p, j, k) ==
    /\ T[p].rule \in RuleNr /\ Len(T[p].kids) = Len(Rhs(T[p].rule)) /\ Len(T[p].kids) \in Nat
    /\ j - 1 \in Nat /\ j - 1 \in 0 .. Len(T[p].kids) /\ j - 1 < Len(T[p].kids)
    /\ 0 \in 0 .. Len(T[p].kids) /\ j - 1 + 1 = j /\ j \in 1 .. Len(T[p].kids)
    /\ j \in 0 .. Len(T[p].kids)
    /\ k \in 1 .. p - 1 /\ k \in 1 .. Len(T) /\ KidsEnd(T, p, j) = k
    /\ T[k].sym = Rhs(T[p].rule)[j] /\ T[k].first = KidsEnd(T, p, j - 1) + 1
    /\ KidsEnd(T, p, 0) = T[p].first - 1
    /\ KidsEnd(T, p, j - 1) \in Int

LEMMA ChildFacts ==
    ASSUME NEW T, NEW tokens, Grown(T, tokens), NEW p \in 1 .. Len(T), T[p].rule # NoRule,
           NEW j \in 1 .. Len(T[p].kids), NEW k \in Nat, T[p].kids[j] = k
    PROVE  ChildKnown(T, p, j, k)
<1>1. /\ T[p].rule \in RuleNr /\ Len(T[p].kids) = Len(Rhs(T[p].rule)) /\ Len(T[p].kids) \in Nat
      /\ KidsEnd(T, p, 0) = T[p].first - 1
      /\ \A i \in 1 .. Len(T[p].kids) :
             /\ KidsEnd(T, p, i) = T[p].kids[i]
             /\ T[p].kids[i] \in 1 .. p - 1 /\ T[p].kids[i] \in 1 .. Len(T)
             /\ T[T[p].kids[i]].sym = Rhs(T[p].rule)[i]
             /\ T[T[p].kids[i]].first = KidsEnd(T, p, i - 1) + 1
      /\ \A i \in 0 .. Len(T[p].kids) : KidsEnd(T, p, i) \in Int
  <2>1. KidsKnown(T, p)
    BY KidsFacts
  <2> QED BY <2>1 DEF KidsKnown
<1> DEFINE n == Len(T[p].kids)
<1>2. n \in Nat /\ j \in 1 .. n
  BY <1>1
<1> HIDE DEF n
<1>3. /\ j - 1 \in Nat /\ j - 1 \in 0 .. n /\ j - 1 < n /\ 0 \in 0 .. n /\ j - 1 + 1 = j
      /\ j \in 0 .. n
  BY <1>2
<1>4. KidsEnd(T, p, j - 1) \in Int
  BY <1>1, <1>3 DEF n
<1>5. /\ KidsEnd(T, p, j) = k /\ k \in 1 .. p - 1 /\ k \in 1 .. Len(T)
      /\ T[k].sym = Rhs(T[p].rule)[j] /\ T[k].first = KidsEnd(T, p, j - 1) + 1
  BY <1>1
<1> QED BY <1>1, <1>3, <1>4, <1>5 DEF n, ChildKnown

\* The subtree of a node begins with it or before it.
LEMMA FirstBelow ==
    ASSUME NEW T, NEW tokens, Grown(T, tokens), NEW m \in 1 .. Len(T)
    PROVE  T[m].first \in 1 .. m
<1> DEFINE Bad == {k \in 1 .. Len(T) : T[k].first \notin 1 .. k}
<1> SUFFICES ASSUME Bad # {} PROVE FALSE
  OBVIOUS
<1>1. T \in Seq(TreeNode) /\ Len(T) \in Nat
  BY DEF Grown
<1>2. PICK k \in Bad : \A l \in Bad : k <= l
  <2>1. Bad \subseteq Nat
    BY <1>1
  <2> QED BY <2>1, LeastNumber
<1>3. k \in 1 .. Len(T) /\ k \in Nat /\ T[k].first \notin 1 .. k
  BY <1>1
<1>4. CASE T[k].rule = NoRule
  BY <1>3, <1>4, NodeKinds DEF IsToken
<1>5. CASE T[k].rule # NoRule
  <2> DEFINE n == Len(T[k].kids)
  <2>1. /\ n \in Nat /\ KidsEnd(T, k, 0) = T[k].first - 1 /\ KidsEnd(T, k, n) = k - 1
        /\ \A j \in 1 .. n : /\ T[k].kids[j] \in 1 .. k - 1 /\ T[k].kids[j] \in 1 .. Len(T)
                             /\ T[T[k].kids[j]].first = KidsEnd(T, k, j - 1) + 1
    <3> HIDE DEF Bad
    <3>1. KidsKnown(T, k)
      BY <1>3, <1>5, KidsFacts
    <3> QED BY <3>1 DEF KidsKnown
  <2>2. T[k].first \in Nat
    BY <1>1, <1>3, NodeTypes
  <2>3. CASE n = 0
    BY <1>3, <2>1, <2>2, <2>3
  <2>4. CASE n # 0
    <3>1. 1 \in 1 .. n
      BY <2>1, <2>4
    <3>2. /\ T[k].kids[1] \in 1 .. k - 1 /\ T[k].kids[1] \in 1 .. Len(T)
          /\ T[T[k].kids[1]].first = T[k].first
      BY <2>1, <2>2, <3>1
    <3>3. T[T[k].kids[1]].first \in 1 .. T[k].kids[1]
      BY <1>1, <1>2, <3>2
    <3> QED BY <1>3, <3>2, <3>3
  <2> QED BY <2>3, <2>4
<1> QED BY <1>4, <1>5

\* The children lie one behind the other.
LEMMA KidsOrdered ==
    ASSUME NEW T, NEW tokens, Grown(T, tokens), NEW m \in 1 .. Len(T), T[m].rule # NoRule,
           NEW i \in 0 .. Len(T[m].kids), NEW j \in 0 .. Len(T[m].kids), i < j
    PROVE  KidsEnd(T, m, i) < KidsEnd(T, m, j)
<1> DEFINE n == Len(T[m].kids)
           Bad == {k \in i + 1 .. n : ~(KidsEnd(T, m, i) < KidsEnd(T, m, k))}
<1>1. /\ n \in Nat
      /\ \A k \in 0 .. n : KidsEnd(T, m, k) \in Int
      /\ \A k \in 1 .. n : /\ KidsEnd(T, m, k) = T[m].kids[k] /\ T[m].kids[k] \in 1 .. Len(T)
                           /\ T[T[m].kids[k]].first = KidsEnd(T, m, k - 1) + 1
  <2> HIDE DEF Bad
  <2>1. KidsKnown(T, m)
    BY KidsFacts
  <2> QED BY <2>1 DEF KidsKnown
<1>2. ASSUME NEW k \in 1 .. n PROVE KidsEnd(T, m, k - 1) < KidsEnd(T, m, k)
  <2>1. T[T[m].kids[k]].first \in 1 .. T[m].kids[k]
    BY <1>1, FirstBelow
  <2>2. k - 1 \in 0 .. n /\ k \in 0 .. n
    BY <1>1
  <2>3. KidsEnd(T, m, k - 1) \in Int /\ KidsEnd(T, m, k) \in Int
    BY <1>1, <2>2
  <2>4. KidsEnd(T, m, k) = T[m].kids[k] /\ T[T[m].kids[k]].first = KidsEnd(T, m, k - 1) + 1
    BY <1>1
  <2> DEFINE x == T[T[m].kids[k]].first
             y == T[m].kids[k]
             a == KidsEnd(T, m, k - 1)
             b == KidsEnd(T, m, k)
  <2>5. x \in 1 .. y /\ a \in Int /\ b \in Int /\ b = y /\ x = a + 1
    BY <2>1, <2>3, <2>4
  <2> HIDE DEF x, y, a, b
  <2>6. a < b
    BY <2>5
  <2> QED BY <2>6 DEF a, b
<1>3. SUFFICES ASSUME Bad # {} PROVE FALSE
  <2>1. CASE Bad = {}
    <3>1. j \in i + 1 .. n
      BY <1>1
    <3> QED BY <2>1, <3>1
  <2> QED BY <2>1
<1>4. PICK k \in Bad : \A l \in Bad : k <= l
  <2>1. Bad \subseteq Nat
    BY <1>1
  <2> QED BY <1>3, <2>1, LeastNumber
<1>5. k \in 1 .. n /\ k \in i + 1 .. n
  BY <1>1
<1>6. KidsEnd(T, m, k - 1) < KidsEnd(T, m, k)
  BY <1>2, <1>5
<1>7. k # i + 1
  <2>1. CASE k = i + 1
    <3>1. k - 1 = i
      BY <2>1
    <3> QED BY <1>4, <1>6, <3>1
  <2> QED BY <2>1
<1>8. k - 1 \in i + 1 .. n /\ k - 1 \notin Bad
  BY <1>1, <1>4, <1>5, <1>7
<1>9. KidsEnd(T, m, i) < KidsEnd(T, m, k - 1)
  BY <1>8
<1>10. /\ KidsEnd(T, m, i) \in Int /\ KidsEnd(T, m, k) \in Int /\ KidsEnd(T, m, k - 1) \in Int
  BY <1>1, <1>5, <1>8
<1> HIDE DEF n
<1> QED BY <1>4, <1>6, <1>9, <1>10

\* A node within the subtree, other than its root, is within that of a child.
LEMMA KidAround ==
    ASSUME NEW T, NEW tokens, Grown(T, tokens), NEW m \in 1 .. Len(T), T[m].rule # NoRule,
           NEW k \in 1 .. m - 1, T[m].first <= k
    PROVE  \E j \in 1 .. Len(T[m].kids) :
               T[T[m].kids[j]].first <= k /\ k <= T[m].kids[j]
<1> DEFINE n == Len(T[m].kids)
           Far == {j \in 1 .. n : k <= T[m].kids[j]}
<1>1. /\ n \in Nat /\ KidsEnd(T, m, 0) = T[m].first - 1 /\ KidsEnd(T, m, n) = m - 1
      /\ \A j \in 1 .. n : /\ KidsEnd(T, m, j) = T[m].kids[j] /\ T[m].kids[j] \in 1 .. Len(T)
                           /\ T[T[m].kids[j]].first = KidsEnd(T, m, j - 1) + 1
      /\ \A j \in 0 .. n : KidsEnd(T, m, j) \in Int
  <2> HIDE DEF Far
  <2>1. KidsKnown(T, m)
    BY KidsFacts
  <2> QED BY <2>1 DEF KidsKnown
<1>2. T[m].first \in Nat
  BY NodeTypes DEF Grown
<1>3. n # 0
  BY <1>1, <1>2
<1>4. n \in Far
  <2>1. n \in 1 .. n
    BY <1>1, <1>3
  <2>2. T[m].kids[n] = m - 1
    BY <1>1, <2>1
  <2>3. k <= m - 1
    OBVIOUS
  <2> QED BY <2>1, <2>2, <2>3
<1>5. PICK j \in Far : \A l \in Far : j <= l
  <2>1. Far \subseteq Nat
    BY <1>1
  <2> QED BY <1>4, <2>1, LeastNumber
<1>6. j \in 1 .. n /\ k <= T[m].kids[j]
  BY <1>5
<1>7. KidsEnd(T, m, j - 1) < k
  <2>1. CASE j = 1
    <3>1. KidsEnd(T, m, j - 1) = T[m].first - 1
      BY <1>1, <2>1
    <3> QED BY <1>2, <3>1
  <2>2. CASE j # 1
    <3>1. j - 1 \in 1 .. n /\ j - 1 < j
      BY <1>1, <1>6, <2>2
    <3>2. j - 1 \notin Far
      BY <1>5, <1>6, <3>1
    <3>3. ~(k <= T[m].kids[j - 1])
      BY <3>1, <3>2
    <3>4. KidsEnd(T, m, j - 1) = T[m].kids[j - 1] /\ T[m].kids[j - 1] \in 1 .. Len(T)
      BY <1>1, <3>1
    <3> QED BY <3>3, <3>4
  <2> QED BY <2>1, <2>2
<1>8. KidsEnd(T, m, j - 1) \in Int
  <2>1. j - 1 \in 0 .. n
    BY <1>1, <1>6
  <2> QED BY <1>1, <2>1
<1>9. T[T[m].kids[j]].first <= k
  <2> DEFINE x == T[T[m].kids[j]].first
             a == KidsEnd(T, m, j - 1)
  <2>1. x = a + 1 /\ a \in Int /\ a < k
    BY <1>1, <1>6, <1>7, <1>8
  <2> HIDE DEF x, a, n, Far
  <2>2. x <= k
    BY <2>1
  <2> QED BY <2>2 DEF x
<1> QED BY <1>6, <1>9

\* Subtrees are nested.
LEMMA Nested ==
    ASSUME NEW T, NEW tokens, Grown(T, tokens), NEW c \in 1 .. Len(T), NEW k \in 1 .. Len(T),
           T[c].first <= k, k <= c
    PROVE  T[c].first <= T[k].first
<1> DEFINE Bad == {d \in 1 .. Len(T) : T[d].first <= k /\ k <= d /\ ~(T[d].first <= T[k].first)}
<1> SUFFICES ASSUME Bad # {} PROVE FALSE
  OBVIOUS
<1>1. T \in Seq(TreeNode) /\ Len(T) \in Nat
  BY DEF Grown
<1>2. PICK d \in Bad : \A e \in Bad : d <= e
  <2>1. Bad \subseteq Nat
    BY <1>1
  <2> QED BY <2>1, LeastNumber
<1>3. /\ d \in 1 .. Len(T) /\ T[d].first <= k /\ k <= d /\ ~(T[d].first <= T[k].first)
      /\ T[d].first \in Nat /\ T[k].first \in Nat
  BY <1>1, <1>2, NodeTypes
<1>4. k # d /\ k \in 1 .. d - 1
  BY <1>1, <1>3
<1>5. T[d].rule # NoRule
  <2>1. CASE T[d].rule = NoRule
    <3>1. T[d].first = d
      BY <1>3, <2>1, NodeKinds DEF IsToken
    <3> QED BY <1>3, <1>4, <3>1
  <2> QED BY <2>1
<1>6. PICK j \in 1 .. Len(T[d].kids) : T[T[d].kids[j]].first <= k /\ k <= T[d].kids[j]
  BY <1>3, <1>4, <1>5, KidAround
<1>7. /\ T[d].kids[j] \in 1 .. d - 1 /\ T[d].kids[j] \in 1 .. Len(T)
      /\ T[T[d].kids[j]].first = KidsEnd(T, d, j - 1) + 1
      /\ KidsEnd(T, d, 0) = T[d].first - 1
      /\ Len(T[d].kids) \in Nat
      /\ \A i \in 0 .. Len(T[d].kids) : KidsEnd(T, d, i) \in Int
  <2> HIDE DEF Bad
  <2>1. KidsKnown(T, d)
    BY <1>3, <1>5, KidsFacts
  <2> QED BY <2>1 DEF KidsKnown
<1>8. T[T[d].kids[j]].first <= T[k].first
  <2>1. T[d].kids[j] \in Nat /\ ~(d <= T[d].kids[j])
    <3>1. T[d].kids[j] \in 1 .. d - 1 /\ d \in Nat
      BY <1>3, <1>7
    <3> QED BY <3>1
  <2>2. T[d].kids[j] \notin Bad
    BY <1>2, <2>1
  <2> QED BY <1>6, <1>7, <2>2
<1>9. T[d].first <= T[T[d].kids[j]].first
  <2>1. 0 \in 0 .. Len(T[d].kids) /\ j - 1 \in 0 .. Len(T[d].kids)
    BY <1>6, <1>7
  <2>2. KidsEnd(T, d, j - 1) \in Int
    BY <1>7, <2>1
  <2>3. CASE j = 1
    <3>1. KidsEnd(T, d, j - 1) = T[d].first - 1
      BY <1>7, <2>3
    <3> QED BY <1>3, <1>7, <3>1
  <2>4. CASE j # 1
    <3>1. 0 < j - 1
      BY <1>6, <1>7, <2>4
    <3>2. KidsEnd(T, d, 0) < KidsEnd(T, d, j - 1)
      BY <1>3, <1>5, <2>1, <3>1, KidsOrdered
    <3>3. T[d].first - 1 < KidsEnd(T, d, j - 1)
      BY <1>7, <3>2
    <3> QED BY <1>3, <1>7, <2>2, <3>3
  <2> QED BY <2>3, <2>4
<1>10. T[T[d].kids[j]].first \in Nat
  BY <1>1, <1>7, NodeTypes
<1>11. /\ ~(T[d].first <= T[k].first)
       /\ T[d].first \in Nat /\ T[k].first \in Nat
  BY <1>3
<1> HIDE DEF Bad
<1> DEFINE x == T[d].first
           y == T[T[d].kids[j]].first
           z == T[k].first
<1>12. x \in Nat /\ y \in Nat /\ z \in Nat /\ x <= y /\ y <= z /\ ~(x <= z)
  BY <1>8, <1>9, <1>10, <1>11
<1> HIDE DEF x, y, z
<1> QED BY <1>12

Tree(T, tokens) == Grown(T, tokens) /\ IsTree(T, tokens)

\* Every node but the root is a child.
LEMMA HasParent ==
    ASSUME NEW T, NEW tokens, Tree(T, tokens), NEW m \in 1 .. Len(T), m # Len(T)
    PROVE  \E p \in m + 1 .. Len(T) :
               /\ T[p].rule # NoRule
               /\ \E j \in 1 .. Len(T[p].kids) : T[p].kids[j] = m
<1> DEFINE Around == {p \in m + 1 .. Len(T) : T[p].first <= m}
<1>1. /\ T \in Seq(TreeNode) /\ Len(T) \in Nat /\ Grown(T, tokens)
      /\ T[Len(T)].first = 1
  BY DEF Tree, Grown, IsTree
<1>2. Len(T) \in Around
  BY <1>1
<1>3. PICK p \in Around : \A q \in Around : p <= q
  <2>1. Around \subseteq Nat
    BY <1>1
  <2> QED BY <1>2, <2>1, LeastNumber
<1>4. p \in m + 1 .. Len(T) /\ p \in 1 .. Len(T) /\ T[p].first <= m /\ m \in 1 .. p - 1
  BY <1>1, <1>3
<1>5. T[p].rule # NoRule
  <2>1. CASE T[p].rule = NoRule
    <3>1. T[p].first = p
      BY <1>1, <1>4, <2>1, NodeKinds DEF IsToken
    <3> QED BY <1>4, <3>1
  <2> QED BY <2>1
<1>6. PICK j \in 1 .. Len(T[p].kids) : T[T[p].kids[j]].first <= m /\ m <= T[p].kids[j]
  BY <1>1, <1>4, <1>5, KidAround
<1>7. T[p].kids[j] \in 1 .. p - 1 /\ T[p].kids[j] \in 1 .. Len(T)
  BY <1>1, <1>4, <1>5, KidFacts
<1>8. T[p].kids[j] = m
  <2>1. CASE T[p].kids[j] # m
    <3>1. T[p].kids[j] \in Around
      BY <1>1, <1>6, <1>7, <2>1
    <3> QED BY <1>3, <1>4, <1>7, <3>1
  <2> QED BY <2>1
<1> QED BY <1>4, <1>5, <1>8

\* Only the root is made by the start rule.
LEMMA StartAtRoot ==
    ASSUME NEW T, NEW tokens, Tree(T, tokens), NEW m \in 1 .. Len(T), m # Len(T)
    PROVE  T[m].rule # 0
<1>1. T \in Seq(TreeNode) /\ Len(T) \in Nat /\ Grown(T, tokens)
  BY DEF Tree, Grown
<1>2. PICK p \in m + 1 .. Len(T) :
          T[p].rule # NoRule /\ \E j \in 1 .. Len(T[p].kids) : T[p].kids[j] = m
  BY HasParent
<1>3. PICK j \in 1 .. Len(T[p].kids) : T[p].kids[j] = m
  BY <1>2
<1>4. p \in 1 .. Len(T)
  BY <1>1
<1>5. /\ T[p].rule \in RuleNr /\ Len(T[p].kids) = Len(Rhs(T[p].rule))
      /\ T[m].sym = Rhs(T[p].rule)[j]
  <2>1. KidsKnown(T, p)
    BY <1>1, <1>2, <1>4, KidsFacts
  <2> QED BY <1>3, <2>1 DEF KidsKnown
<1>6. T[m].sym # Rules[0].lhs
  BY <1>5, CompleteAssumption
<1>7. CASE T[m].rule = 0
  <2>1. T[m].rule # NoRule
    BY <1>7 DEF NoRule
  <2> QED BY <1>1, <1>6, <1>7, <2>1, KidFacts
<1> QED BY <1>7

-----------------------------------------------------------------------------
(* The tokens of a tree *)

LEMMA TokensForward ==
    ASSUME NEW T, NEW tokens, Grown(T, tokens), NEW i \in 0 .. Len(T), NEW j \in 0 .. Len(T), i <= j
    PROVE  /\ NextToken(T, i) \in Nat /\ NextToken(T, j) \in Nat /\ 1 <= NextToken(T, i)
           /\ NextToken(T, i) <= NextToken(T, j)
<1>1. T \in Seq(TreeNode) /\ Len(T) \in Nat
  BY DEF Grown
<1>2. ASSUME NEW k \in 0 .. Len(T) PROVE NextToken(T, k) \in Nat
  <2>1. CASE k = 0
    BY <2>1 DEF NextToken
  <2>2. CASE k # 0
    <3>1. k \in 1 .. Len(T)
      BY <1>1, <2>2
    <3> QED BY <1>1, <3>1, NodeTypes
  <2> QED BY <2>1, <2>2
<1>3. ASSUME NEW k \in 1 .. Len(T) PROVE NextToken(T, k - 1) <= NextToken(T, k)
  <2>1. NextToken(T, k) = T[k].to /\ NextToken(T, k - 1) \in Nat
    BY <1>1, NodeTypes
  <2>2. CASE T[k].rule = NoRule
    BY <2>1, <2>2, NodeKinds DEF IsToken
  <2>3. CASE T[k].rule # NoRule
    <3>1. T[k].to = NextToken(T, k - 1)
      BY <2>3, KidFacts
    <3> QED BY <2>1, <3>1
  <2> QED BY <2>2, <2>3
<1>4. ASSUME NEW k \in 0 .. Len(T) PROVE \A l \in k .. Len(T) : NextToken(T, k) <= NextToken(T, l)
  <2> DEFINE Bad == {l \in k .. Len(T) : ~(NextToken(T, k) <= NextToken(T, l))}
  <2> SUFFICES ASSUME Bad # {} PROVE FALSE
    OBVIOUS
  <2>1. PICK l \in Bad : \A h \in Bad : l <= h
    <3>1. Bad \subseteq Nat
      BY <1>1
    <3> QED BY <3>1, LeastNumber
  <2>2. l \in 0 .. Len(T) /\ l \in k .. Len(T) /\ ~(NextToken(T, k) <= NextToken(T, l))
    BY <1>1, <2>1
  <2>3. NextToken(T, k) \in Nat /\ NextToken(T, l) \in Nat
    BY <1>2, <2>2
  <2>4. l # k
    BY <2>2, <2>3
  <2>5. l \in 1 .. Len(T) /\ l - 1 \in k .. Len(T) /\ l - 1 \in 0 .. Len(T) /\ l - 1 < l
    BY <1>1, <2>2, <2>4
  <2>6. l - 1 \notin Bad
    BY <2>1, <2>2, <2>5
  <2>7. NextToken(T, k) <= NextToken(T, l - 1)
    BY <2>5, <2>6
  <2>8. NextToken(T, l - 1) <= NextToken(T, l) /\ NextToken(T, l - 1) \in Nat
    BY <1>2, <1>3, <2>5
  <2> QED BY <2>2, <2>3, <2>7, <2>8
<1>5. 1 <= NextToken(T, i)
  <2>1. 0 \in 0 .. Len(T) /\ i \in 0 .. Len(T) /\ NextToken(T, 0) = 1
    BY <1>1 DEF NextToken
  <2> QED BY <1>1, <1>4, <2>1
<1> QED BY <1>1, <1>2, <1>4, <1>5

\* The token to be read when the first j children of node m have been made.
KidsToken(T, m, j) == NextToken(T, KidsEnd(T, m, j))

LEMMA KidTokens ==
    ASSUME NEW T, NEW tokens, Grown(T, tokens), NEW m \in 1 .. Len(T), T[m].rule # NoRule
    PROVE  /\ KidsToken(T, m, 0) = NextToken(T, T[m].first - 1)
           /\ KidsToken(T, m, Len(T[m].kids)) = T[m].to
           /\ \A j \in 0 .. Len(T[m].kids) :
                  KidsEnd(T, m, j) \in 0 .. m - 1 /\ KidsToken(T, m, j) \in Nat
           /\ \A j \in 1 .. Len(T[m].kids) :
                  /\ T[T[m].kids[j]].to = KidsToken(T, m, j)
                  /\ NextToken(T, T[T[m].kids[j]].first - 1) = KidsToken(T, m, j - 1)
           /\ \A i, j \in 0 .. Len(T[m].kids) : i <= j => KidsToken(T, m, i) <= KidsToken(T, m, j)
<1> DEFINE n == Len(T[m].kids)
<1>1. T \in Seq(TreeNode) /\ Len(T) \in Nat /\ T[m].first \in 1 .. m
  BY FirstBelow DEF Grown
<1>2. /\ n \in Nat /\ KidsEnd(T, m, 0) = T[m].first - 1 /\ KidsEnd(T, m, n) = m - 1
      /\ T[m].to = NextToken(T, m - 1)
      /\ \A j \in 1 .. n : /\ KidsEnd(T, m, j) = T[m].kids[j]
                           /\ T[m].kids[j] \in 1 .. m - 1 /\ T[m].kids[j] \in 1 .. Len(T)
                           /\ T[T[m].kids[j]].first = KidsEnd(T, m, j - 1) + 1
      /\ \A j \in 0 .. n : KidsEnd(T, m, j) \in Int
  BY KidFacts
<1> HIDE DEF n
<1>3. ASSUME NEW j \in 0 .. n PROVE KidsEnd(T, m, j) \in 0 .. m - 1 /\ KidsEnd(T, m, j) \in 0 .. Len(T)
  <2>1. m \in 1 .. Len(T)
    OBVIOUS
  <2>2. CASE j = 0
    BY <1>1, <1>2, <2>1, <2>2
  <2>3. CASE j # 0
    <3>1. j \in 1 .. n
      BY <1>2, <2>3
    <3>2. KidsEnd(T, m, j) = T[m].kids[j] /\ T[m].kids[j] \in 1 .. m - 1 /\ T[m].kids[j] \in 1 .. Len(T)
      BY <1>2, <3>1
    <3> QED BY <2>1, <3>2
  <2> QED BY <2>2, <2>3
<1>4. ASSUME NEW j \in 0 .. n PROVE KidsToken(T, m, j) \in Nat
  BY <1>3, TokensForward DEF KidsToken
<1>5. ASSUME NEW j \in 1 .. n
      PROVE  /\ T[T[m].kids[j]].to = KidsToken(T, m, j)
             /\ NextToken(T, T[T[m].kids[j]].first - 1) = KidsToken(T, m, j - 1)
  <2>1. NextToken(T, T[m].kids[j]) = T[T[m].kids[j]].to
    BY <1>1, <1>2, NodeTypes
  <2>2. j - 1 \in 0 .. n
    BY <1>2
  <2>3. T[T[m].kids[j]].first - 1 = KidsEnd(T, m, j - 1)
    <3>1. T[T[m].kids[j]].first = KidsEnd(T, m, j - 1) + 1
      BY <1>2
    <3>2. KidsEnd(T, m, j - 1) \in Int
      BY <1>2, <2>2
    <3> QED BY <3>1, <3>2
  <2> QED BY <1>2, <2>1, <2>3 DEF KidsToken
<1>6. ASSUME NEW i \in 0 .. n, NEW j \in 0 .. n, i <= j
      PROVE  KidsToken(T, m, i) <= KidsToken(T, m, j)
  <2>1. KidsEnd(T, m, i) <= KidsEnd(T, m, j)
    <3>1. CASE i = j
      BY <1>2, <3>1
    <3>2. CASE i < j
      <4>1. KidsEnd(T, m, i) < KidsEnd(T, m, j)
        BY <3>2, KidsOrdered DEF n
      <4> QED BY <1>2, <4>1
    <3> QED BY <1>2, <1>6, <3>1, <3>2
  <2> QED BY <1>3, <2>1, TokensForward DEF KidsToken
<1>7. KidsToken(T, m, 0) = NextToken(T, T[m].first - 1) /\ KidsToken(T, m, n) = T[m].to
  BY <1>2 DEF KidsToken
<1> QED BY <1>3, <1>4, <1>5, <1>6, <1>7 DEF n

\* A node for no token has a symbol that may be empty, any other one begins with
\* a token its symbol may begin with.
FirstRight(T, tokens, m) ==
    /\ NextToken(T, T[m].first - 1) = T[m].to => T[m].sym \in Nullable
    /\ NextToken(T, T[m].first - 1) < T[m].to =>
           tokens[NextToken(T, T[m].first - 1)] \in FirstOf(T[m].sym)

\* The first of the children behind the c-th that stands for a token.
LEMMA FirstKid ==
    ASSUME NEW T, NEW tokens, Grown(T, tokens), NEW m \in 1 .. Len(T), T[m].rule # NoRule,
           NEW c \in 0 .. Len(T[m].kids),
           \A j \in 1 .. Len(T[m].kids) : FirstRight(T, tokens, T[m].kids[j])
    PROVE  \/ /\ KidsToken(T, m, c) = T[m].to
              /\ AllNullable(T[m].rule, c + 1, Len(T[m].kids))
           \/ /\ KidsToken(T, m, c) < T[m].to
              /\ \E i \in c + 1 .. Len(T[m].kids) :
                     /\ AllNullable(T[m].rule, c + 1, i - 1)
                     /\ tokens[KidsToken(T, m, c)] \in FirstOf(Rhs(T[m].rule)[i])
<1> DEFINE n == Len(T[m].kids)
           Starts == {i \in c + 1 .. n : KidsToken(T, m, c) < KidsToken(T, m, i)}
<1>1. /\ n \in Nat
      /\ \A j \in 1 .. n : T[T[m].kids[j]].sym = Rhs(T[m].rule)[j]
  <2>1. KidsKnown(T, m)
    BY KidsFacts
  <2> QED BY <2>1 DEF KidsKnown
<1>2. /\ KidsToken(T, m, n) = T[m].to
      /\ \A j \in 0 .. n : KidsToken(T, m, j) \in Nat
      /\ \A j \in 1 .. n :
             /\ T[T[m].kids[j]].to = KidsToken(T, m, j)
             /\ NextToken(T, T[T[m].kids[j]].first - 1) = KidsToken(T, m, j - 1)
      /\ \A i, j \in 0 .. n : i <= j => KidsToken(T, m, i) <= KidsToken(T, m, j)
  BY KidTokens
<1>a. \A j \in 1 .. n : FirstRight(T, tokens, T[m].kids[j])
  OBVIOUS
<1>b. c \in 0 .. n
  OBVIOUS
<1> HIDE DEF n, Starts
\* Up to a start, the children stand for no token.
<1>3. ASSUME NEW i \in c .. n, \A j \in c + 1 .. i : j \notin Starts
      PROVE  AllNullable(T[m].rule, c + 1, i) /\ KidsToken(T, m, i) = KidsToken(T, m, c)
  <2>1. ASSUME NEW j \in c .. i PROVE KidsToken(T, m, j) = KidsToken(T, m, c)
    <3>1. j \in 0 .. n /\ c <= j /\ (j = c \/ j \in c + 1 .. i)
      BY <1>1, <1>b
    <3>2. CASE j = c
      BY <3>2
    <3>3. CASE j \in c + 1 .. i
      <4>1. j \notin Starts /\ j \in c + 1 .. n
        BY <1>1, <1>3, <1>b, <3>3
      <4>2. ~(KidsToken(T, m, c) < KidsToken(T, m, j))
        BY <4>1 DEF Starts
      <4>3. KidsToken(T, m, c) <= KidsToken(T, m, j)
        BY <1>2, <1>b, <3>1
      <4>4. KidsToken(T, m, c) \in Nat /\ KidsToken(T, m, j) \in Nat
        BY <1>2, <1>b, <3>1
      <4> QED BY <4>2, <4>3, <4>4
    <3> QED BY <3>1, <3>2, <3>3
  <2>2. ASSUME NEW j \in c + 1 .. i PROVE Rhs(T[m].rule)[j] \in Nullable
    <3>1. j \in 1 .. n /\ j \in c .. i /\ j - 1 \in c .. i
      BY <1>1, <1>b
    <3>2. KidsToken(T, m, j) = KidsToken(T, m, j - 1)
      BY <2>1, <3>1
    <3>3. T[T[m].kids[j]].sym \in Nullable
      BY <1>2, <1>a, <3>1, <3>2 DEF FirstRight
    <3> QED BY <1>1, <3>1, <3>3
  <2>3. i \in c .. i
    BY <1>1, <1>b
  <2> QED BY <2>1, <2>2, <2>3 DEF AllNullable
<1>4. CASE Starts = {}
  <2>1. n \in c .. n
    BY <1>1, <1>b
  <2> QED BY <1>2, <1>3, <1>4, <2>1 DEF n
<1>5. CASE Starts # {}
  <2>1. PICK i \in Starts : \A j \in Starts : i <= j
    <3>1. Starts \subseteq Nat
      BY <1>b, <1>1 DEF Starts
    <3> QED BY <1>5, <3>1, LeastNumber
  <2>2. i \in c + 1 .. n /\ KidsToken(T, m, c) < KidsToken(T, m, i)
    BY <2>1 DEF Starts
  <2>3. i \in 1 .. n /\ i \in 0 .. n /\ i - 1 \in c .. n
    BY <1>1, <1>b, <2>2
  <2>4. ASSUME NEW j \in c + 1 .. i - 1 PROVE j \notin Starts
    <3>1. j \in Nat /\ i \in Nat /\ ~(i <= j)
      BY <1>1, <1>b, <2>2
    <3> QED BY <2>1, <3>1
  <2>5. AllNullable(T[m].rule, c + 1, i - 1) /\ KidsToken(T, m, i - 1) = KidsToken(T, m, c)
    BY <1>3, <2>3, <2>4
  <2>6. tokens[KidsToken(T, m, c)] \in FirstOf(Rhs(T[m].rule)[i])
    <3>1. /\ FirstRight(T, tokens, T[m].kids[i])
          /\ T[T[m].kids[i]].to = KidsToken(T, m, i)
          /\ NextToken(T, T[T[m].kids[i]].first - 1) = KidsToken(T, m, c)
          /\ T[T[m].kids[i]].sym = Rhs(T[m].rule)[i]
      BY <1>1, <1>2, <1>a, <2>3, <2>5
    <3> QED BY <2>2, <3>1 DEF FirstRight
  <2>7. KidsToken(T, m, c) < T[m].to
    <3>1. KidsToken(T, m, i) <= KidsToken(T, m, n)
      <4>1. i \in 0 .. n /\ n \in 0 .. n /\ i <= n
        BY <1>1, <2>3
      <4> QED BY <1>2, <4>1
    <3>2. KidsToken(T, m, c) \in Nat /\ KidsToken(T, m, i) \in Nat /\ KidsToken(T, m, n) \in Nat
      BY <1>1, <1>2, <1>b, <2>3
    <3> QED BY <1>2, <2>2, <3>1, <3>2
  <2> QED BY <2>2, <2>5, <2>6, <2>7 DEF n
<1> QED BY <1>4, <1>5

LEMMA FirstAlwaysRight ==
    ASSUME NEW T, NEW tokens, Grown(T, tokens), NEW m \in 1 .. Len(T)
    PROVE  FirstRight(T, tokens, m)
<1> DEFINE Bad == {k \in 1 .. Len(T) : ~FirstRight(T, tokens, k)}
<1> SUFFICES ASSUME Bad # {} PROVE FALSE
  OBVIOUS
<1>1. T \in Seq(TreeNode) /\ Len(T) \in Nat
  BY DEF Grown
<1>2. PICK k \in Bad : \A l \in Bad : k <= l
  <2>1. Bad \subseteq Nat
    BY <1>1
  <2> QED BY <2>1, LeastNumber
<1>3. k \in 1 .. Len(T) /\ ~FirstRight(T, tokens, k)
  BY <1>2
<1>4. CASE T[k].rule = NoRule
  <2>1. IsToken(T, tokens, k) /\ NextToken(T, k - 1) \in Nat /\ tokens \in Seq(Terminal)
    BY <1>1, <1>3, <1>4, NodeKinds, NodeTypes DEF Grown
  <2>2. /\ T[k].first = k /\ T[k].sym = tokens[NextToken(T, k - 1)]
        /\ T[k].to = NextToken(T, k - 1) + 1 /\ T[k].sym \in Terminal
    BY <2>1 DEF IsToken
  <2>3. FirstOf(T[k].sym) = {T[k].sym}
    BY <2>2 DEF FirstOf
  <2> QED BY <1>3, <2>1, <2>2, <2>3 DEF FirstRight
<1>5. CASE T[k].rule # NoRule
  <2> DEFINE n == Len(T[k].kids)
             r == T[k].rule
  <2>1. /\ r \in RuleNr /\ T[k].sym = Rules[r].lhs /\ n = Len(Rhs(r)) /\ n \in Nat
        /\ \A j \in 1 .. n : T[k].kids[j] \in 1 .. k - 1 /\ T[k].kids[j] \in 1 .. Len(T)
    BY <1>3, <1>5, KidFacts
  <2>2. KidsToken(T, k, 0) = NextToken(T, T[k].first - 1)
    BY <1>3, <1>5, KidTokens
  <2>3. ASSUME NEW j \in 1 .. n PROVE FirstRight(T, tokens, T[k].kids[j])
    <3>1. T[k].kids[j] \in 1 .. k - 1 /\ T[k].kids[j] \in 1 .. Len(T)
      BY <2>1
    <3>2. ~(k <= T[k].kids[j])
      BY <1>3, <3>1
    <3> QED BY <1>2, <3>1, <3>2
  <2>4. 0 \in 0 .. n
    BY <2>1
  <2>5. \/ /\ KidsToken(T, k, 0) = T[k].to
           /\ AllNullable(r, 0 + 1, n)
        \/ /\ KidsToken(T, k, 0) < T[k].to
           /\ \E i \in 0 + 1 .. n :
                  /\ AllNullable(r, 0 + 1, i - 1)
                  /\ tokens[KidsToken(T, k, 0)] \in FirstOf(Rhs(r)[i])
    BY <1>3, <1>5, <2>3, <2>4, FirstKid
  <2> HIDE DEF n, r
  <2>6. T[k].sym \notin Terminal /\ FirstOf(T[k].sym) = First[T[k].sym]
    BY <2>1, SymbolsAssumption DEF FirstOf
  <2>7. NextToken(T, T[k].first - 1) \in Nat /\ T[k].to \in Nat
    <3>1. T[k].first \in 1 .. k
      BY <1>3, FirstBelow
    <3>2. T[k].first - 1 \in 0 .. Len(T)
      BY <1>1, <1>3, <3>1
    <3>3. NextToken(T, T[k].first - 1) \in Nat
      <4>1. T[k].first - 1 <= T[k].first - 1
        BY <3>1
      <4> QED BY <3>2, <4>1, TokensForward
    <3>4. T[k].to \in Nat
      BY <1>1, <1>3, NodeTypes
    <3> QED BY <3>3, <3>4
  <2>8. CASE KidsToken(T, k, 0) = T[k].to /\ AllNullable(r, 0 + 1, n)
    <3>1. T[k].sym \in Nullable
      BY <2>1, <2>8, FirstAssumption
    <3> QED BY <1>3, <2>2, <2>7, <2>8, <3>1 DEF FirstRight
  <2>9. CASE /\ KidsToken(T, k, 0) < T[k].to
             /\ \E i \in 0 + 1 .. n :
                    /\ AllNullable(r, 0 + 1, i - 1)
                    /\ tokens[KidsToken(T, k, 0)] \in FirstOf(Rhs(r)[i])
    <3>1. PICK i \in 1 .. n : /\ AllNullable(r, 1, i - 1)
                              /\ tokens[KidsToken(T, k, 0)] \in FirstOf(Rhs(r)[i])
      BY <2>9
    <3>2. FirstOf(Rhs(r)[i]) \subseteq First[T[k].sym]
      BY <2>1, <3>1, FirstAssumption
    <3> QED BY <1>3, <2>2, <2>6, <2>7, <2>9, <3>1, <3>2 DEF FirstRight
  <2> QED BY <2>5, <2>8, <2>9
<1> QED BY <1>4, <1>5

\* What comes behind a child is what FirstBehind expects there.
LEMMA BehindKid ==
    ASSUME NEW T, NEW tokens, Grown(T, tokens), NEW m \in 1 .. Len(T), T[m].rule # NoRule,
           NEW c \in 1 .. Len(T[m].kids)
    PROVE  tokens[T[T[m].kids[c]].to] \in FirstBehind(T[m].rule, c, tokens[T[m].to])
<1> DEFINE n == Len(T[m].kids)
           r == T[m].rule
<1>1. /\ n = Len(Rhs(r)) /\ n \in Nat
      /\ \A j \in 1 .. n : T[m].kids[j] \in 1 .. Len(T)
  BY KidFacts
<1>2. T[T[m].kids[c]].to = KidsToken(T, m, c)
  BY KidTokens
<1>3. \A j \in 1 .. n : FirstRight(T, tokens, T[m].kids[j])
  BY <1>1, FirstAlwaysRight
<1>4. c \in 0 .. n
  BY <1>1
<1>5. \/ /\ KidsToken(T, m, c) = T[m].to
         /\ AllNullable(r, c + 1, n)
      \/ \E i \in c + 1 .. n :
             /\ AllNullable(r, c + 1, i - 1)
             /\ tokens[KidsToken(T, m, c)] \in FirstOf(Rhs(r)[i])
  BY <1>3, <1>4, FirstKid
<1> DEFINE t == tokens[KidsToken(T, m, c)]
           a == tokens[T[m].to]
<1> HIDE DEF r, n
<1>6. ASSUME KidsToken(T, m, c) = T[m].to, AllNullable(r, c + 1, n)
      PROVE  t \in FirstBehind(r, c, a)
  <2>1. t = a /\ AllNullable(r, c + 1, Len(Rhs(r)))
    BY <1>1, <1>6
  <2>2. t \in IF AllNullable(r, c + 1, Len(Rhs(r))) THEN {a} ELSE {}
    BY <2>1
  <2> HIDE DEF t, a
  <2> QED BY <2>2 DEF FirstBehind
<1>7. ASSUME NEW i \in c + 1 .. n, AllNullable(r, c + 1, i - 1), t \in FirstOf(Rhs(r)[i])
      PROVE  t \in FirstBehind(r, c, a)
  <2>1. i \in {j \in c + 1 .. Len(Rhs(r)) : AllNullable(r, c + 1, j - 1)}
    BY <1>1, <1>7
  <2> QED BY <1>7, <2>1 DEF FirstBehind
<1>8. t \in FirstBehind(r, c, a)
  <2> HIDE DEF t, a
  <2>1. CASE KidsToken(T, m, c) = T[m].to /\ AllNullable(r, c + 1, n)
    BY <1>6, <2>1
  <2>2. CASE \E i \in c + 1 .. n : AllNullable(r, c + 1, i - 1) /\ t \in FirstOf(Rhs(r)[i])
    BY <1>7, <2>2
  <2> QED BY <1>5, <2>1, <2>2 DEF t
<1> QED BY <1>2, <1>8 DEF r

-----------------------------------------------------------------------------
(* The stack of the parser and the tree *)

\* The roots nd of the first m nodes of the tree, from left to right: what is
\* on the stack when these nodes have been made.
RootEnd(nd, i) == IF i = 0 THEN 0 ELSE nd[i]

Roots(T, nd, m) ==
    /\ nd \in Seq(Nat)
    /\ \A i \in 1 .. Len(nd) :
           nd[i] \in 1 .. Len(T) /\ T[nd[i]].first = RootEnd(nd, i - 1) + 1
    /\ RootEnd(nd, Len(nd)) = m

LEMMA RootsOrdered ==
    ASSUME NEW T, NEW tokens, Grown(T, tokens), NEW nd, NEW m, Roots(T, nd, m)
    PROVE  /\ \A i \in 0 .. Len(nd) : RootEnd(nd, i) \in 0 .. Len(T)
           /\ \A i, j \in 0 .. Len(nd) : i < j => RootEnd(nd, i) < RootEnd(nd, j)
<1>1. /\ T \in Seq(TreeNode) /\ Len(T) \in Nat /\ nd \in Seq(Nat) /\ Len(nd) \in Nat
      /\ \A i \in 1 .. Len(nd) :
             nd[i] \in 1 .. Len(T) /\ T[nd[i]].first = RootEnd(nd, i - 1) + 1
  BY DEF Grown, Roots
<1>2. ASSUME NEW i \in 0 .. Len(nd) PROVE RootEnd(nd, i) \in 0 .. Len(T)
  BY <1>1 DEF RootEnd
<1>3. ASSUME NEW i \in 1 .. Len(nd) PROVE RootEnd(nd, i - 1) < RootEnd(nd, i)
  <2>1. T[nd[i]].first \in 1 .. nd[i] /\ T[nd[i]].first = RootEnd(nd, i - 1) + 1
    BY <1>1, FirstBelow
  <2>2. i - 1 \in 0 .. Len(nd)
    BY <1>1
  <2>3. RootEnd(nd, i - 1) \in 0 .. Len(T) /\ RootEnd(nd, i) = nd[i] /\ nd[i] \in 1 .. Len(T)
    BY <1>1, <1>2, <2>2 DEF RootEnd
  <2> QED BY <2>1, <2>3
<1>4. ASSUME NEW i \in 0 .. Len(nd), NEW j \in 0 .. Len(nd), i < j
      PROVE  RootEnd(nd, i) < RootEnd(nd, j)
  <2> DEFINE Bad == {k \in i + 1 .. Len(nd) : ~(RootEnd(nd, i) < RootEnd(nd, k))}
  <2>1. SUFFICES ASSUME Bad # {} PROVE FALSE
    BY <1>1, <1>4
  <2>2. PICK k \in Bad : \A l \in Bad : k <= l
    <3>1. Bad \subseteq Nat
      BY <1>1
    <3> QED BY <2>1, <3>1, LeastNumber
  <2>3. k \in i + 1 .. Len(nd) /\ k \in 1 .. Len(nd) /\ ~(RootEnd(nd, i) < RootEnd(nd, k))
    BY <1>1, <2>2
  <2>4. RootEnd(nd, k - 1) < RootEnd(nd, k)
    BY <1>3, <2>3
  <2>5. k # i + 1
    <3>1. CASE k = i + 1
      <4>1. k - 1 = i
        BY <3>1
      <4> QED BY <2>3, <2>4, <4>1
    <3> QED BY <3>1
  <2>6. k - 1 \in i + 1 .. Len(nd) /\ ~(k <= k - 1)
    BY <1>1, <2>3, <2>5
  <2>7. k - 1 \notin Bad
    BY <2>2, <2>6
  <2>8. RootEnd(nd, i) < RootEnd(nd, k - 1)
    BY <2>6, <2>7
  <2>9. RootEnd(nd, i) \in 0 .. Len(T) /\ RootEnd(nd, k) \in 0 .. Len(T) /\ RootEnd(nd, k - 1) \in 0 .. Len(T)
    BY <1>1, <1>2, <2>3, <2>6
  <2> HIDE DEF Bad
  <2> QED BY <2>3, <2>4, <2>8, <2>9
<1> QED BY <1>2, <1>4

LEMMA SameRoot ==
    ASSUME NEW T, NEW tokens, Grown(T, tokens), NEW nd, NEW m, Roots(T, nd, m),
           NEW i \in 0 .. Len(nd), NEW j \in 0 .. Len(nd)
    PROVE  /\ RootEnd(nd, i) = RootEnd(nd, j) => i = j
           /\ RootEnd(nd, i) <= RootEnd(nd, j) => i <= j
<1>1. RootEnd(nd, i) \in Int /\ RootEnd(nd, j) \in Int /\ Len(T) \in Nat
  <2>1. RootEnd(nd, i) \in 0 .. Len(T) /\ RootEnd(nd, j) \in 0 .. Len(T)
    BY RootsOrdered
  <2> QED BY <2>1 DEF Grown
<1>2. i < j => RootEnd(nd, i) < RootEnd(nd, j)
  BY RootsOrdered
<1>3. j < i => RootEnd(nd, j) < RootEnd(nd, i)
  BY RootsOrdered
<1>4. i \in Int /\ j \in Int
  OBVIOUS
<1> QED BY <1>1, <1>2, <1>3, <1>4

\* The children of the node that is made next are the topmost roots.
LEMMA KidsOnTop ==
    ASSUME NEW T, NEW tokens, Grown(T, tokens), NEW k \in 1 .. Len(T), T[k].rule # NoRule,
           NEW nd, Roots(T, nd, k - 1), NEW j \in 0 .. Len(T[k].kids)
    PROVE  /\ j <= Len(nd)
           /\ RootEnd(nd, Len(nd) - j) = KidsEnd(T, k, Len(T[k].kids) - j)
<1> DEFINE n == Len(T[k].kids)
           OnTop(i) == /\ i <= Len(nd)
                       /\ RootEnd(nd, Len(nd) - i) = KidsEnd(T, k, n - i)
           Bad == {i \in 0 .. n : ~OnTop(i)}
<1>1. /\ n \in Nat /\ KidsEnd(T, k, n) = k - 1
      /\ \A i \in 1 .. n : /\ KidsEnd(T, k, i) = T[k].kids[i]
                           /\ T[k].kids[i] \in 1 .. k - 1 /\ T[k].kids[i] \in 1 .. Len(T)
                           /\ T[T[k].kids[i]].first = KidsEnd(T, k, i - 1) + 1
      /\ \A i \in 0 .. n : KidsEnd(T, k, i) \in Int
  <2> HIDE DEF OnTop, Bad
  <2> QED BY KidFacts
<1>2. /\ T \in Seq(TreeNode) /\ Len(T) \in Nat /\ nd \in Seq(Nat) /\ Len(nd) \in Nat
      /\ RootEnd(nd, Len(nd)) = k - 1
      /\ \A i \in 1 .. Len(nd) : T[nd[i]].first = RootEnd(nd, i - 1) + 1
  BY DEF Grown, Roots
<1>3. \A i \in 0 .. Len(nd) : RootEnd(nd, i) \in 0 .. Len(T)
  BY RootsOrdered
<1>j. j \in 0 .. n
  OBVIOUS
<1> HIDE DEF n
<1>4. SUFFICES ASSUME Bad # {} PROVE FALSE
  BY <1>j DEF n
<1>5. PICK i \in Bad : \A l \in Bad : i <= l
  <2>1. Bad \subseteq Nat
    BY <1>1
  <2> QED BY <1>4, <2>1, LeastNumber
<1>6. i \in 0 .. n /\ ~OnTop(i)
  BY <1>5
<1>7. i # 0
  <2>1. CASE i = 0
    <3>1. Len(nd) - i = Len(nd) /\ n - i = n /\ i <= Len(nd)
      BY <1>1, <1>2, <2>1
    <3> QED BY <1>1, <1>2, <1>6, <3>1
  <2> QED BY <2>1
<1>8. i - 1 \in 0 .. n /\ ~(i <= i - 1) /\ n - (i - 1) \in 1 .. n
  BY <1>1, <1>6, <1>7
<1>9. i - 1 <= Len(nd) /\ RootEnd(nd, Len(nd) - (i - 1)) = KidsEnd(T, k, n - (i - 1))
  <2>1. i - 1 \notin Bad
    BY <1>5, <1>8
  <2> QED BY <1>8, <2>1
<1>10. /\ KidsEnd(T, k, n - (i - 1)) = T[k].kids[n - (i - 1)]
       /\ T[k].kids[n - (i - 1)] \in 1 .. k - 1
       /\ T[T[k].kids[n - (i - 1)]].first = KidsEnd(T, k, n - (i - 1) - 1) + 1
  BY <1>1, <1>8
<1>11. Len(nd) - (i - 1) \in 1 .. Len(nd)
  <2>1. Len(nd) - (i - 1) \in 0 .. Len(nd)
    BY <1>2, <1>8, <1>9
  <2>2. Len(nd) - (i - 1) # 0
    <3>1. CASE Len(nd) - (i - 1) = 0
      <4>1. RootEnd(nd, Len(nd) - (i - 1)) = 0
        BY <3>1 DEF RootEnd
      <4> QED BY <1>9, <1>10, <4>1
    <3> QED BY <3>1
  <2> QED BY <1>2, <2>1, <2>2
<1>12. /\ RootEnd(nd, Len(nd) - (i - 1)) = nd[Len(nd) - (i - 1)]
       /\ T[nd[Len(nd) - (i - 1)]].first = RootEnd(nd, Len(nd) - (i - 1) - 1) + 1
  <2> DEFINE p == Len(nd) - (i - 1)
  <2>1. p \in 1 .. Len(nd) /\ p # 0
    BY <1>11
  <2> HIDE DEF p
  <2>2. RootEnd(nd, p) = nd[p] /\ T[nd[p]].first = RootEnd(nd, p - 1) + 1
    BY <1>2, <2>1 DEF RootEnd
  <2> QED BY <2>2 DEF p
<1>13. RootEnd(nd, Len(nd) - (i - 1) - 1) + 1 = KidsEnd(T, k, n - (i - 1) - 1) + 1
  BY <1>9, <1>10, <1>12
<1>14. Len(nd) - (i - 1) - 1 = Len(nd) - i /\ n - (i - 1) - 1 = n - i /\ i <= Len(nd)
  BY <1>1, <1>2, <1>6, <1>11
<1>15. RootEnd(nd, Len(nd) - i) \in Int /\ KidsEnd(T, k, n - i) \in Int
  <2>1. Len(nd) - i \in 0 .. Len(nd) /\ n - i \in 0 .. n
    BY <1>1, <1>2, <1>6, <1>14
  <2> QED BY <1>1, <1>3, <2>1
<1>16. RootEnd(nd, Len(nd) - i) = KidsEnd(T, k, n - i)
  BY <1>13, <1>14, <1>15
<1> QED BY <1>6, <1>14, <1>16

-----------------------------------------------------------------------------
\* Node q has been begun when m nodes have been made, and is not among them.
OpenAt(T, m, q) == q \in m + 1 .. Len(T) /\ T[q].rule # NoRule /\ T[q].first <= m + 1

\* Its first d children have been made, and the state on the stack to which they
\* lead has the element of its rule with the cursor behind them.
Waiting(T, tokens, m, nd, ss, q, d) ==
    /\ KidsEnd(T, q, d) <= m
    /\ d < Len(T[q].kids) => m < T[q].kids[d + 1]
    /\ \E i \in 1 .. Len(ss) :
           /\ RootEnd(nd, i - 1) = KidsEnd(T, q, d)
           /\ <<T[q].rule, d, tokens[T[q].to]>> \in LookAheads[ss[i]]

\* Where the parser is when it has made m nodes of the tree.
Parsed(T, tokens, m, nd, ss) ==
    /\ m \in 0 .. Len(T) - 1
    /\ Roots(T, nd, m)
    /\ ss \in Seq(State) /\ Len(ss) = Len(nd) + 1
    /\ \A q \in 1 .. Len(T) :
           OpenAt(T, m, q) => \E d \in 0 .. Len(T[q].kids) : Waiting(T, tokens, m, nd, ss, q, d)

\* How many children have been made is determined.
LEMMA WaitingFor ==
    ASSUME NEW T, NEW tokens, Grown(T, tokens), NEW m, NEW nd, NEW ss,
           Parsed(T, tokens, m, nd, ss), NEW q \in 1 .. Len(T), OpenAt(T, m, q),
           NEW d \in 0 .. Len(T[q].kids), KidsEnd(T, q, d) <= m,
           d < Len(T[q].kids) => m < T[q].kids[d + 1]
    PROVE  Waiting(T, tokens, m, nd, ss, q, d)
<1> DEFINE n == Len(T[q].kids)
<1>1. PICK e \in 0 .. n : Waiting(T, tokens, m, nd, ss, q, e)
  BY DEF Parsed
<1>2. KidsEnd(T, q, e) <= m /\ (e < n => m < T[q].kids[e + 1])
  BY <1>1 DEF Waiting
<1>3. /\ n \in Nat /\ T[q].rule # NoRule /\ m \in Nat
      /\ \A j \in 1 .. n : KidsEnd(T, q, j) = T[q].kids[j]
      /\ \A j \in 0 .. n : KidsEnd(T, q, j) \in Int
  <2>1. T[q].rule # NoRule /\ m \in Nat
    BY DEF OpenAt, Parsed, Grown
  <2>2. KidsKnown(T, q)
    BY <2>1, KidsFacts
  <2> QED BY <2>1, <2>2 DEF KidsKnown
<1>4. ASSUME NEW a \in 0 .. n, NEW b \in 0 .. n, a < b,
             KidsEnd(T, q, b) <= m, a < n => m < T[q].kids[a + 1]
      PROVE  FALSE
  <2>1. a + 1 \in 1 .. n /\ a + 1 \in 0 .. n /\ a < n /\ (a + 1 = b \/ a + 1 < b)
    <3>1. n \in Nat /\ a \in 0 .. n /\ b \in 0 .. n /\ a < b
      BY <1>3, <1>4
    <3> HIDE DEF n
    <3> QED BY <3>1
  <2>2. m < KidsEnd(T, q, a + 1)
    BY <1>3, <1>4, <2>1
  <2>3. KidsEnd(T, q, a + 1) <= KidsEnd(T, q, b)
    <3>1. CASE a + 1 = b
      BY <1>3, <3>1
    <3>2. CASE a + 1 < b
      <4>1. KidsEnd(T, q, a + 1) < KidsEnd(T, q, b)
        BY <1>3, <2>1, <3>2, KidsOrdered
      <4> DEFINE x == KidsEnd(T, q, a + 1)
                 y == KidsEnd(T, q, b)
      <4>2. x \in Int /\ y \in Int /\ x < y
        BY <1>3, <2>1, <4>1
      <4> HIDE DEF x, y
      <4>3. x <= y
        BY <4>2
      <4> QED BY <4>3 DEF x, y
    <3> QED BY <2>1, <3>1, <3>2
  <2>4. KidsEnd(T, q, a + 1) \in Int /\ KidsEnd(T, q, b) \in Int
    BY <1>3, <2>1
  <2> QED BY <1>3, <1>4, <2>2, <2>3, <2>4
<1>5. d \in 0 .. n /\ KidsEnd(T, q, d) <= m /\ (d < n => m < T[q].kids[d + 1])
  OBVIOUS
<1> HIDE DEF n
<1>6. ~(e < d)
  BY <1>2, <1>4, <1>5
<1>7. ~(d < e)
  BY <1>2, <1>4, <1>5
<1>8. d = e
  BY <1>3, <1>5, <1>6, <1>7
<1> QED BY <1>1, <1>8

\* The element of a node whose made children end the stack is in the top state.
LEMMA ElementOnTop ==
    ASSUME NEW T, NEW tokens, Grown(T, tokens), NEW m, NEW nd, NEW ss,
           Parsed(T, tokens, m, nd, ss), NEW q \in 1 .. Len(T), OpenAt(T, m, q),
           NEW d \in 0 .. Len(T[q].kids), KidsEnd(T, q, d) = m
    PROVE  <<T[q].rule, d, tokens[T[q].to]>> \in LookAheads[ss[Len(ss)]]
<1> DEFINE n == Len(T[q].kids)
<1>1. /\ n \in Nat /\ m \in Nat /\ T[q].rule # NoRule
      /\ \A j \in 1 .. n : KidsEnd(T, q, j) = T[q].kids[j]
  <2>1. T[q].rule # NoRule /\ m \in Nat
    BY DEF OpenAt, Parsed, Grown
  <2> QED BY <2>1, KidFacts
<1>2. ASSUME d < n PROVE m < T[q].kids[d + 1]
  <2>1. d + 1 \in 0 .. n /\ d + 1 \in 1 .. n /\ d < d + 1
    BY <1>1, <1>2
  <2>2. KidsEnd(T, q, d) < KidsEnd(T, q, d + 1)
    BY <1>1, <2>1, KidsOrdered
  <2> QED BY <1>1, <2>1, <2>2
<1>3. Waiting(T, tokens, m, nd, ss, q, d)
  BY <1>1, <1>2, WaitingFor
<1>4. PICK i \in 1 .. Len(ss) : /\ RootEnd(nd, i - 1) = m
                                /\ <<T[q].rule, d, tokens[T[q].to]>> \in LookAheads[ss[i]]
  BY <1>3 DEF Waiting
<1>5. Roots(T, nd, m) /\ Len(nd) \in Nat /\ Len(ss) = Len(nd) + 1 /\ RootEnd(nd, Len(nd)) = m
  BY DEF Parsed, Roots
<1>6. i = Len(ss)
  <2>1. CASE i # Len(ss)
    <3>1. i - 1 \in 0 .. Len(nd) /\ Len(nd) \in 0 .. Len(nd) /\ i - 1 < Len(nd)
      BY <1>5, <2>1
    <3>2. RootEnd(nd, i - 1) < RootEnd(nd, Len(nd))
      BY <1>5, <3>1, RootsOrdered
    <3> QED BY <1>1, <1>4, <1>5, <3>2
  <2> QED BY <2>1
<1> QED BY <1>4, <1>6

-----------------------------------------------------------------------------
(* One node more *)

\* A rule whose first child begins where the stack ends is opened in the top
\* state: by the node it is a child of, and so up to one that has begun before.
LEMMA OpenedOnTop ==
    ASSUME NEW T, NEW tokens, Tree(T, tokens), NEW m \in 0 .. Len(T) - 1, NEW s \in State,
           \A p \in 1 .. Len(T), d \in Nat :
               /\ OpenAt(T, m, p) /\ T[p].first <= m
               /\ d < Len(T[p].kids) /\ KidsEnd(T, p, d) = m
               => <<T[p].rule, d, tokens[T[p].to]>> \in LookAheads[s],
           m = 0 => s = 0,
           NEW q \in m + 1 .. Len(T), T[q].rule # NoRule, T[q].first = m + 1
    PROVE  <<T[q].rule, 0, tokens[T[q].to]>> \in LookAheads[s]
<1> DEFINE OK(p) == <<T[p].rule, 0, tokens[T[p].to]>> \in LookAheads[s]
           Bad == {p \in m + 1 .. Len(T) : T[p].rule # NoRule /\ T[p].first = m + 1 /\ ~OK(p)}
<1>1. /\ T \in Seq(TreeNode) /\ Len(T) \in Nat /\ Grown(T, tokens) /\ m \in Nat
      /\ T[Len(T)].rule = 0 /\ T[Len(T)].first = 1
      /\ T[Len(T)].to = Len(tokens) /\ tokens[Len(tokens)] = END
  BY DEF Tree, Grown, IsTree
<1>2. SUFFICES ASSUME Bad # {} PROVE FALSE
  OBVIOUS
<1>3. PICK k \in Bad : \A l \in Bad : l <= k
  <2>1. Bad \subseteq 0 .. Len(T)
    BY <1>1
  <2> QED BY <1>1, <1>2, <2>1, GreatestNumber
<1>4. /\ k \in m + 1 .. Len(T) /\ k \in 1 .. Len(T) /\ T[k].rule # NoRule /\ T[k].first = m + 1
      /\ ~OK(k)
  BY <1>1, <1>3
<1>5. CASE k = Len(T)
  <2>1. m = 0 /\ s = 0
    BY <1>1, <1>4, <1>5
  <2> QED BY <1>1, <1>4, <1>5, <2>1, CompleteAssumption
<1>6. CASE k # Len(T)
  <2>1. PICK p \in k + 1 .. Len(T) :
            T[p].rule # NoRule /\ \E j \in 1 .. Len(T[p].kids) : T[p].kids[j] = k
    BY <1>4, <1>6, HasParent
  <2>2. PICK j \in 1 .. Len(T[p].kids) : T[p].kids[j] = k
    BY <2>1
  <2> DEFINE n == Len(T[p].kids)
             r == T[p].rule
             a == tokens[T[p].to]
  <2>3. p \in 1 .. Len(T) /\ p \in m + 1 .. Len(T) /\ ~(p <= k)
    BY <1>1, <1>4, <2>1
  <2>a. ChildKnown(T, p, j, k)
    <3>1. k \in Nat /\ j \in 1 .. Len(T[p].kids) /\ T[p].kids[j] = k /\ T[p].rule # NoRule /\ Grown(T, tokens)
      BY <1>1, <1>4, <2>1, <2>2
    <3> HIDE DEF OK, Bad, n, r, a
    <3> QED BY <2>3, <3>1, ChildFacts
  <2>4. /\ r \in RuleNr /\ n = Len(Rhs(r)) /\ n \in Nat
        /\ T[k].sym = Rhs(r)[j] /\ T[k].first = KidsEnd(T, p, j - 1) + 1
        /\ KidsEnd(T, p, 0) = T[p].first - 1
        /\ KidsEnd(T, p, j - 1) \in Int
    BY <2>a DEF ChildKnown
  <2>5. j - 1 \in Nat /\ j - 1 \in 0 .. n /\ j - 1 < n /\ 0 \in 0 .. n /\ j - 1 + 1 = j /\ j \in 1 .. n
    BY <2>a DEF ChildKnown
  <2>6. KidsEnd(T, p, j - 1) = m
    BY <1>1, <1>4, <2>4
  <2>7. T[p].first \in 1 .. p
    BY <1>1, <2>3, FirstBelow
  <2>8. <<r, j - 1, a>> \in LookAheads[s]
    <3>1. CASE j = 1
      <4>1. T[p].first = m + 1
        BY <1>1, <2>4, <2>6, <2>7, <3>1
      <4>2. p \notin Bad
        BY <1>3, <2>3
      <4>3. OK(p)
        BY <2>1, <2>3, <4>1, <4>2
      <4> QED BY <3>1, <4>3
    <3>2. CASE j # 1
      <4>1. 0 < j - 1
        BY <2>5, <3>2
      <4>2. KidsEnd(T, p, 0) < KidsEnd(T, p, j - 1)
        BY <1>1, <2>1, <2>3, <2>5, <4>1, KidsOrdered
      <4>3. T[p].first - 1 < m
        BY <2>4, <2>6, <4>2
      <4>4. T[p].first <= m /\ T[p].first <= m + 1
        <5> DEFINE x == T[p].first
        <5>1. x \in 1 .. p /\ m \in Nat /\ x - 1 < m
          BY <1>1, <2>7, <4>3
        <5> HIDE DEF OK, Bad, n, r, a, x
        <5>2. x <= m /\ x <= m + 1
          BY <5>1
        <5> QED BY <5>2 DEF x
      <4>5. OpenAt(T, m, p)
        BY <2>1, <2>3, <4>4 DEF OpenAt
      <4> QED BY <2>3, <2>5, <2>6, <4>4, <4>5
    <3> QED BY <3>1, <3>2
  <2>9. a \in Terminal
    <3>1. T[p].to = NextToken(T, p) /\ NextToken(T, Len(T)) = T[Len(T)].to
      <4>1. Len(T) \in 1 .. Len(T)
        BY <1>1, <2>3
      <4>2. T[p].to = NextToken(T, p)
        BY <1>1, <2>3, NodeTypes
      <4> QED BY <1>1, <4>1, <4>2, NodeTypes
    <3>2. /\ NextToken(T, p) \in Nat /\ 1 <= NextToken(T, p)
          /\ NextToken(T, p) <= NextToken(T, Len(T))
      <4>1. p \in 0 .. Len(T) /\ Len(T) \in 0 .. Len(T) /\ p <= Len(T)
        BY <1>1, <2>3
      <4> QED BY <1>1, <4>1, TokensForward
    <3>3. T[p].to \in 1 .. Len(tokens) /\ tokens \in Seq(Terminal)
      BY <1>1, <3>1, <3>2 DEF Grown
    <3> DEFINE i == T[p].to
    <3>4. i \in 1 .. Len(tokens)
      BY <3>3
    <3> HIDE DEF OK, Bad, n, r, a, i
    <3>5. tokens[i] \in Terminal
      BY <3>3, <3>4
    <3> QED BY <3>5 DEF i, a
  <2>10. tokens[T[k].to] \in FirstBehind(r, j, a)
    BY <1>1, <2>1, <2>2, <2>3, <2>5, BehindKid
  <2>11. T[k].rule \in RuleNr /\ Rules[T[k].rule].lhs = Rhs(r)[j]
    BY <1>1, <1>4, <2>4, KidFacts
  <2>12. CompleteFor(s, r, j - 1, a)
    <3>1. <<r, j - 1, a>>[1] = r /\ <<r, j - 1, a>>[2] = j - 1 /\ <<r, j - 1, a>>[3] = a
      OBVIOUS
    <3> HIDE DEF r, a
    <3> QED BY <2>8, <3>1, CompleteAssumption
  <2>13. j - 1 < Len(Rhs(r))
    BY <2>4, <2>5
  <2> HIDE DEF r, a, n
  <2>14. \A x \in RuleNr, t \in FirstBehind(r, j, a) :
             Rules[x].lhs = Rhs(r)[j] => <<x, 0, t>> \in LookAheads[s]
    BY <2>5, <2>12, <2>13 DEF CompleteFor
  <2> QED BY <1>4, <2>10, <2>11, <2>14
<1> QED BY <1>5, <1>6

LEMMA CompleteAt ==
    ASSUME NEW s \in State, NEW r, NEW d, NEW a, <<r, d, a>> \in LookAheads[s]
    PROVE  /\ CompleteFor(s, r, d, a)
           /\ r \in RuleNr /\ d \in Nat /\ a \in Terminal
<1>1. <<r, d, a>>[1] = r /\ <<r, d, a>>[2] = d /\ <<r, d, a>>[3] = a
  OBVIOUS
<1>2. CompleteFor(s, r, d, a)
  BY <1>1, CompleteAssumption
<1>3. <<r, d, a>> \in RuleNr \X Nat \X Terminal
  BY CompleteAssumption
<1> QED BY <1>2, <1>3

\* Node k replaces the topmost n nodes, and state g is pushed for it.
Popped(stack, n, top) == Append(SubSeq(stack, 1, Len(stack) - n), top)

LEMMA PoppedNodes ==
    ASSUME NEW stack \in Seq(Nat), NEW n \in 0 .. Len(stack), NEW top \in Nat
    PROVE  /\ Popped(stack, n, top) \in Seq(Nat)
           /\ Len(Popped(stack, n, top)) = Len(stack) - n + 1
           /\ Popped(stack, n, top)[Len(stack) - n + 1] = top
           /\ \A i \in 1 .. Len(stack) - n : Popped(stack, n, top)[i] = stack[i]
<1> DEFINE s2 == SubSeq(stack, 1, Len(stack) - n)
<1>1. /\ Len(stack) \in Nat /\ s2 \in Seq(Nat) /\ Len(s2) = Len(stack) - n
      /\ \A i \in 1 .. Len(stack) - n : s2[i] = stack[i]
  OBVIOUS
<1>2. Popped(stack, n, top) = Append(s2, top)
  BY DEF Popped
<1> HIDE DEF s2
<1> QED BY <1>1, <1>2

LEMMA PoppedStates ==
    ASSUME NEW stack \in Seq(State), NEW n \in 0 .. Len(stack), NEW top \in State
    PROVE  /\ Popped(stack, n, top) \in Seq(State)
           /\ Len(Popped(stack, n, top)) = Len(stack) - n + 1
           /\ Popped(stack, n, top)[Len(stack) - n + 1] = top
           /\ \A i \in 1 .. Len(stack) - n : Popped(stack, n, top)[i] = stack[i]
<1> DEFINE s2 == SubSeq(stack, 1, Len(stack) - n)
<1>1. /\ Len(stack) \in Nat /\ s2 \in Seq(State) /\ Len(s2) = Len(stack) - n
      /\ \A i \in 1 .. Len(stack) - n : s2[i] = stack[i]
  OBVIOUS
<1>2. Popped(stack, n, top) = Append(s2, top)
  BY DEF Popped
<1> HIDE DEF s2
<1> QED BY <1>1, <1>2

\* The step of the parser that makes node k: what it knows before.
Making(T, tokens, m, nd, ss, k, n, g) ==
    /\ Parsed(T, tokens, m, nd, ss)
    /\ k = m + 1 /\ k < Len(T)
    /\ n \in 0 .. Len(nd) /\ RootEnd(nd, Len(nd) - n) = T[k].first - 1
    /\ g \in State /\ g = Goto(ss[Len(ss) - n], T[k].sym)

LEMMA MakingFacts ==
    ASSUME NEW T, NEW tokens, Tree(T, tokens), NEW m, NEW nd, NEW ss, NEW k, NEW n, NEW g,
           Making(T, tokens, m, nd, ss, k, n, g)
    PROVE  /\ T \in Seq(TreeNode) /\ Len(T) \in Nat /\ Grown(T, tokens)
           /\ m \in Nat /\ k \in Nat /\ k \in 1 .. Len(T) /\ m \in 0 .. Len(T) - 1 /\ k \in 0 .. Len(T) - 1
           /\ T[k].first \in 1 .. k /\ T[k].sym \in Symbol
           /\ nd \in Seq(Nat) /\ Len(nd) \in Nat /\ n \in Nat /\ Len(nd) - n \in 0 .. Len(nd)
           /\ ss \in Seq(State) /\ Len(ss) = Len(nd) + 1 /\ Len(ss) - n = Len(nd) - n + 1
           /\ Len(ss) - n \in 1 .. Len(ss)
           /\ Roots(T, nd, m)
<1>1. /\ T \in Seq(TreeNode) /\ Len(T) \in Nat /\ Grown(T, tokens)
      /\ m \in Nat /\ k \in Nat /\ k \in 1 .. Len(T) /\ m \in 0 .. Len(T) - 1 /\ k \in 0 .. Len(T) - 1
  <2>1. T \in Seq(TreeNode) /\ Len(T) \in Nat /\ Grown(T, tokens)
    BY DEF Tree, Grown
  <2>2. m \in 0 .. Len(T) - 1 /\ k = m + 1 /\ k < Len(T)
    BY DEF Making, Parsed
  <2> DEFINE n1 == Len(T)
  <2>3. n1 \in Nat /\ m \in 0 .. n1 - 1 /\ k = m + 1 /\ k < n1
    BY <2>1, <2>2
  <2> HIDE DEF n1
  <2>4. m \in Nat /\ k \in Nat /\ k \in 1 .. n1 /\ k \in 0 .. n1 - 1
    BY <2>3
  <2> QED BY <2>1, <2>2, <2>4 DEF n1
<1>2. T[k].first \in 1 .. k
  BY <1>1, FirstBelow
<1>3. T[k].sym \in Symbol
  BY <1>1, NodeTypes
<1>4. /\ nd \in Seq(Nat) /\ ss \in Seq(State) /\ Len(ss) = Len(nd) + 1 /\ n \in 0 .. Len(nd)
      /\ Roots(T, nd, m)
  BY DEF Making, Parsed, Roots
<1>5. /\ Len(nd) \in Nat /\ n \in Nat /\ Len(nd) - n \in 0 .. Len(nd)
      /\ Len(ss) - n = Len(nd) - n + 1 /\ Len(ss) - n \in 1 .. Len(ss)
  BY <1>4
<1> QED BY <1>1, <1>2, <1>3, <1>4, <1>5

\* The rule of the parent is carried on over the node.
LEMMA CarriedOn ==
    ASSUME NEW T, NEW tokens, Tree(T, tokens), NEW m, NEW nd, NEW ss, NEW k, NEW n, NEW g,
           Making(T, tokens, m, nd, ss, k, n, g),
           NEW q \in 1 .. Len(T), T[q].rule # NoRule,
           NEW d \in 1 .. Len(T[q].kids), T[q].kids[d] = k
    PROVE  <<T[q].rule, d, tokens[T[q].to]>> \in LookAheads[g]
<1>a. /\ T \in Seq(TreeNode) /\ Len(T) \in Nat /\ Grown(T, tokens)
      /\ m \in Nat /\ k \in Nat /\ k \in 1 .. Len(T)
      /\ T[k].first \in 1 .. k
      /\ Len(nd) \in Nat /\ Len(nd) - n \in 0 .. Len(nd)
      /\ ss \in Seq(State) /\ Len(ss) = Len(nd) + 1 /\ Len(ss) - n = Len(nd) - n + 1
      /\ Roots(T, nd, m)
  <2>1. /\ T \in Seq(TreeNode) /\ Len(T) \in Nat /\ Grown(T, tokens)
        /\ m \in Nat /\ k \in Nat /\ k \in 1 .. Len(T) /\ T[k].first \in 1 .. k
    BY MakingFacts
  <2>2. /\ Len(nd) \in Nat /\ Len(nd) - n \in 0 .. Len(nd)
        /\ ss \in Seq(State) /\ Len(ss) = Len(nd) + 1 /\ Len(ss) - n = Len(nd) - n + 1
    BY MakingFacts
  <2>3. Roots(T, nd, m)
    BY MakingFacts
  <2> QED BY <2>1, <2>2, <2>3
<1>b. /\ k = m + 1 /\ Parsed(T, tokens, m, nd, ss)
      /\ RootEnd(nd, Len(nd) - n) = T[k].first - 1
      /\ g = Goto(ss[Len(ss) - n], T[k].sym)
  BY DEF Making
<1>k. ChildKnown(T, q, d, k)
  BY <1>a, ChildFacts
<1>c. /\ T[q].rule \in RuleNr /\ Len(T[q].kids) = Len(Rhs(T[q].rule)) /\ Len(T[q].kids) \in Nat
      /\ d - 1 \in Nat /\ d - 1 \in 0 .. Len(T[q].kids) /\ d - 1 < Len(T[q].kids) /\ d - 1 + 1 = d
      /\ 0 \in 0 .. Len(T[q].kids) /\ d \in 0 .. Len(T[q].kids)
  BY <1>k DEF ChildKnown
<1>d. k \in 1 .. q - 1 /\ KidsEnd(T, q, d) = k /\ T[k].sym = Rhs(T[q].rule)[d]
  BY <1>k DEF ChildKnown
<1>e. /\ T[k].first = KidsEnd(T, q, d - 1) + 1
      /\ KidsEnd(T, q, 0) = T[q].first - 1 /\ KidsEnd(T, q, d - 1) \in Int
  BY <1>k DEF ChildKnown
<1> DEFINE l == Len(nd) - n
           r == T[q].rule
           a == tokens[T[q].to]
           e == d - 1
<1>1. /\ l \in 0 .. Len(nd) /\ Len(ss) - n = l + 1
      /\ RootEnd(nd, l) = T[k].first - 1
      /\ g = Goto(ss[l + 1], T[k].sym)
  BY <1>a, <1>b
<1>2. /\ r \in RuleNr /\ Len(T[q].kids) = Len(Rhs(r))
      /\ e \in Nat /\ e \in 0 .. Len(T[q].kids) /\ e < Len(T[q].kids) /\ e + 1 = d
      /\ T[k].sym = Rhs(r)[d] /\ T[k].first = KidsEnd(T, q, e) + 1
      /\ KidsEnd(T, q, e) \in Int
  BY <1>c, <1>d, <1>e
<1> HIDE DEF l, r, a, e
<1>3. OpenAt(T, m, q)
  <2>1. KidsEnd(T, q, 0) < KidsEnd(T, q, d)
    <3>1. 0 < d
      OBVIOUS
    <3> QED BY <1>a, <1>c, <3>1, KidsOrdered
  <2>2. T[q].first \in Nat
    BY <1>a, NodeTypes
  <2>3. q \in m + 1 .. Len(T)
    BY <1>a, <1>b, <1>d
  <2>4. T[q].first <= m + 1
    <3> DEFINE x == T[q].first
               y == KidsEnd(T, q, 0)
               z == KidsEnd(T, q, d)
    <3>1. x \in Nat /\ m \in Nat /\ y = x - 1 /\ z = m + 1 /\ y < z
      BY <1>a, <1>b, <1>d, <1>e, <2>1, <2>2
    <3> HIDE DEF x, y, z
    <3>2. x <= m + 1
      BY <3>1
    <3> QED BY <3>2 DEF x
  <2> QED BY <2>3, <2>4 DEF OpenAt
<1>4. KidsEnd(T, q, e) = RootEnd(nd, l) /\ KidsEnd(T, q, e) <= m /\ m < T[q].kids[e + 1]
  <2>1. T[q].kids[e + 1] = k
    BY <1>2
  <2> DEFINE x == T[k].first
             y == KidsEnd(T, q, e)
  <2>2. x \in 1 .. k /\ x = y + 1 /\ y \in Int /\ m \in Nat /\ k = m + 1
    BY <1>2, <1>a, <1>b
  <2>3. RootEnd(nd, l) = x - 1
    BY <1>1
  <2> HIDE DEF x, y
  <2>4. y = x - 1 /\ y <= m /\ m < k
    BY <2>2
  <2> QED BY <2>1, <2>3, <2>4 DEF y
<1>5. Waiting(T, tokens, m, nd, ss, q, e)
  BY <1>a, <1>b, <1>2, <1>3, <1>4, WaitingFor
<1>6. PICK i \in 1 .. Len(ss) : RootEnd(nd, i - 1) = KidsEnd(T, q, e) /\ <<r, e, a>> \in LookAheads[ss[i]]
  BY <1>5 DEF Waiting, r, a
<1>7. i = l + 1
  <2>1. i \in 1 .. Len(nd) + 1
    BY <1>a, <1>6
  <2>2. i - 1 \in 0 .. Len(nd) /\ i - 1 + 1 = i
    BY <1>a, <2>1
  <2>3. RootEnd(nd, i - 1) = RootEnd(nd, l)
    BY <1>4, <1>6
  <2>4. i - 1 = l
    BY <1>a, <1>1, <2>2, <2>3, SameRoot
  <2> QED BY <2>2, <2>4
<1>8. CompleteFor(ss[l + 1], r, e, a)
  <2>1. ss[l + 1] \in State
    BY <1>6, <1>7, <1>a
  <2> QED BY <1>6, <1>7, <2>1, CompleteAt
<1>9. <<r, e + 1, a>> \in LookAheads[Goto(ss[l + 1], Rhs(r)[e + 1])]
  BY <1>2, <1>8 DEF CompleteFor
<1> QED BY <1>1, <1>2, <1>9 DEF r, a

LEMMA MadeRoots ==
    ASSUME NEW T, NEW tokens, Tree(T, tokens), NEW m, NEW nd, NEW ss, NEW k, NEW n, NEW g,
           Making(T, tokens, m, nd, ss, k, n, g)
    PROVE  /\ Roots(T, Popped(nd, n, k), k)
           /\ Len(Popped(nd, n, k)) = Len(nd) - n + 1
           /\ \A i \in 0 .. Len(nd) - n : RootEnd(Popped(nd, n, k), i) = RootEnd(nd, i)
           /\ RootEnd(Popped(nd, n, k), Len(nd) - n + 1) = k
<1> DEFINE l == Len(nd) - n
           nd2 == Popped(nd, n, k)
<1>1. /\ Grown(T, tokens) /\ k \in Nat /\ k \in 1 .. Len(T)
      /\ nd \in Seq(Nat) /\ Len(nd) \in Nat /\ Len(nd) - n \in 0 .. Len(nd) /\ n \in Nat
      /\ Roots(T, nd, m)
  BY MakingFacts
<1>2. n \in 0 .. Len(nd) /\ RootEnd(nd, Len(nd) - n) = T[k].first - 1
  BY DEF Making
<1>3. /\ nd2 \in Seq(Nat) /\ Len(nd2) = l + 1 /\ nd2[l + 1] = k
      /\ \A i \in 1 .. l : nd2[i] = nd[i]
  <2>1. nd \in Seq(Nat) /\ n \in 0 .. Len(nd) /\ k \in Nat
    BY <1>1, <1>2
  <2>2. /\ Popped(nd, n, k) \in Seq(Nat)
        /\ Len(Popped(nd, n, k)) = Len(nd) - n + 1
        /\ Popped(nd, n, k)[Len(nd) - n + 1] = k
        /\ \A i \in 1 .. Len(nd) - n : Popped(nd, n, k)[i] = nd[i]
    BY <2>1, PoppedNodes
  <2> QED BY <2>2
<1>a. l \in Nat /\ l \in 0 .. Len(nd)
  BY <1>1
<1>b. RootEnd(nd, l) = T[k].first - 1
  BY <1>2
<1> HIDE DEF l, nd2
<1>4. ASSUME NEW i \in 0 .. l PROVE RootEnd(nd2, i) = RootEnd(nd, i)
  <2>1. i = 0 \/ i \in 1 .. l
    BY <1>a
  <2> QED BY <1>3, <2>1 DEF RootEnd
<1>5. RootEnd(nd2, l + 1) = k
  <2>1. l + 1 # 0
    BY <1>a
  <2> QED BY <1>3, <2>1 DEF RootEnd
<1>6. ASSUME NEW i \in 1 .. Len(nd2)
      PROVE  nd2[i] \in 1 .. Len(T) /\ T[nd2[i]].first = RootEnd(nd2, i - 1) + 1
  <2>1. i \in 1 .. l + 1 /\ i - 1 \in 0 .. l
    BY <1>3, <1>a
  <2>2. RootEnd(nd2, i - 1) = RootEnd(nd, i - 1)
    BY <1>4, <2>1
  <2>3. CASE i \in 1 .. l
    <3>1. i \in 1 .. Len(nd)
      BY <1>1, <1>a, <2>3
    <3>2. nd[i] \in 1 .. Len(T) /\ T[nd[i]].first = RootEnd(nd, i - 1) + 1
      BY <1>1, <3>1 DEF Roots
    <3> QED BY <1>3, <2>2, <2>3, <3>2
  <2>4. CASE i = l + 1
    <3>1. i - 1 = l /\ nd2[i] = k
      BY <1>3, <1>a, <2>4
    <3>2. T[k].first \in Nat
      BY <1>1, NodeTypes DEF Grown
    <3>3. T[k].first = RootEnd(nd2, i - 1) + 1
      BY <1>b, <2>2, <3>1, <3>2
    <3> QED BY <1>1, <3>1, <3>3
  <2> QED BY <1>a, <2>1, <2>3, <2>4
<1>7. Roots(T, nd2, k)
  BY <1>3, <1>5, <1>6 DEF Roots
<1> QED BY <1>3, <1>4, <1>5, <1>7 DEF l, nd2

LEMMA WaitingFirst ==
    ASSUME NEW T, NEW tokens, Grown(T, tokens), NEW k \in Nat, NEW nd, NEW ss,
           NEW q \in 1 .. Len(T), T[q].rule # NoRule, T[q].first = k + 1,
           NEW t \in 1 .. Len(ss), RootEnd(nd, t - 1) = k,
           <<T[q].rule, 0, tokens[T[q].to]>> \in LookAheads[ss[t]]
    PROVE  Waiting(T, tokens, k, nd, ss, q, 0)
<1>1. KidsEnd(T, q, 0) = k
  BY DEF KidsEnd
<1>2. ASSUME 0 < Len(T[q].kids) PROVE k < T[q].kids[0 + 1]
  <2>1. Len(T[q].kids) \in Nat
    BY NodeTypes DEF Grown
  <2>2. 0 \in 0 .. Len(T[q].kids) /\ 1 \in 0 .. Len(T[q].kids) /\ 0 < 1
    BY <1>2, <2>1
  <2>3. KidsEnd(T, q, 0) < KidsEnd(T, q, 1)
    BY <2>2, KidsOrdered
  <2>4. KidsEnd(T, q, 1) = T[q].kids[1]
    BY DEF KidsEnd
  <2> QED BY <1>1, <2>3, <2>4
<1>3. KidsEnd(T, q, 0) <= k
  BY <1>1
<1> QED BY <1>1, <1>2, <1>3 DEF Waiting

\* The parser has made one node more.
LEMMA Made ==
    ASSUME NEW T, NEW tokens, Tree(T, tokens), NEW m, NEW nd, NEW ss, NEW k, NEW n, NEW g,
           Making(T, tokens, m, nd, ss, k, n, g)
    PROVE  Parsed(T, tokens, k, Popped(nd, n, k), Popped(ss, n, g))
<1> DEFINE l == Len(nd) - n
           nd2 == Popped(nd, n, k)
           ss2 == Popped(ss, n, g)
<1>1. /\ T \in Seq(TreeNode) /\ Len(T) \in Nat /\ Grown(T, tokens)
      /\ m \in Nat /\ k \in Nat /\ k \in 1 .. Len(T) /\ k \in 0 .. Len(T) - 1
      /\ T[k].first \in 1 .. k
      /\ Len(nd) \in Nat /\ n \in Nat
      /\ ss \in Seq(State) /\ Len(ss) = Len(nd) + 1
      /\ Roots(T, nd, m)
  BY MakingFacts
<1>2. l \in 0 .. Len(nd) /\ Len(ss) - n = l + 1 /\ l \in Nat
  <2>1. Len(nd) - n \in 0 .. Len(nd) /\ Len(ss) - n = Len(nd) - n + 1
    BY MakingFacts
  <2> QED BY <2>1
<1>3. /\ k = m + 1 /\ Parsed(T, tokens, m, nd, ss) /\ g \in State
      /\ RootEnd(nd, l) = T[k].first - 1 /\ n \in 0 .. Len(nd)
  BY DEF Making
<1>4. /\ Roots(T, nd2, k) /\ Len(nd2) = l + 1
      /\ \A i \in 0 .. l : RootEnd(nd2, i) = RootEnd(nd, i)
      /\ RootEnd(nd2, l + 1) = k
  BY MadeRoots
<1>5. /\ ss2 \in Seq(State) /\ Len(ss2) = l + 2 /\ ss2[l + 2] = g
      /\ \A i \in 1 .. l + 1 : ss2[i] = ss[i]
  <2>1. n \in 0 .. Len(ss)
    BY <1>1, <1>3
  <2>2. /\ Popped(ss, n, g) \in Seq(State)
        /\ Len(Popped(ss, n, g)) = Len(ss) - n + 1
        /\ Popped(ss, n, g)[Len(ss) - n + 1] = g
        /\ \A i \in 1 .. Len(ss) - n : Popped(ss, n, g)[i] = ss[i]
    <3>1. ss \in Seq(State) /\ g \in State
      BY <1>1, <1>3
    <3> QED BY <2>1, <3>1, PoppedStates
  <2>3. Len(ss) - n + 1 = l + 2
    <3> HIDE DEF l
    <3> QED BY <1>2
  <2> QED BY <1>2, <2>2, <2>3
<1> HIDE DEF l, nd2, ss2
<1>6. ASSUME NEW p \in 1 .. Len(T), T[p].rule # NoRule,
             NEW d \in 1 .. Len(T[p].kids), T[p].kids[d] = k
      PROVE  <<T[p].rule, d, tokens[T[p].to]>> \in LookAheads[g]
  BY <1>6, CarriedOn
<1>7. PICK t \in 1 .. Len(ss2) : RootEnd(nd2, t - 1) = k /\ ss2[t] = g
  <2> DEFINE u == l + 2
  <2>1. u - 1 = l + 1 /\ u \in 1 .. u /\ Len(ss2) = u /\ ss2[u] = g
    BY <1>2, <1>5
  <2> HIDE DEF u
  <2>2. RootEnd(nd2, u - 1) = k
    BY <1>4, <2>1
  <2> QED BY <2>1, <2>2
\* A node that begins with the next one.
<1>8. ASSUME NEW q \in k + 1 .. Len(T), T[q].rule # NoRule, T[q].first = k + 1
      PROVE  Waiting(T, tokens, k, nd2, ss2, q, 0)
  <2>1. ASSUME NEW p \in 1 .. Len(T), NEW d \in Nat,
               OpenAt(T, k, p), T[p].first <= k, d < Len(T[p].kids), KidsEnd(T, p, d) = k
        PROVE  <<T[p].rule, d, tokens[T[p].to]>> \in LookAheads[g]
    <3>1. T[p].rule # NoRule /\ T[p].first \in Nat
      BY <1>1, <2>1, NodeTypes DEF OpenAt
    <3>2. d # 0
      <4>1. CASE d = 0
        <5>1. KidsEnd(T, p, d) = T[p].first - 1
          BY <4>1 DEF KidsEnd
        <5> QED BY <1>1, <2>1, <3>1, <5>1
      <4> QED BY <4>1
    <3>3. Len(T[p].kids) \in Nat
      BY <1>1, NodeTypes
    <3>4. d \in 1 .. Len(T[p].kids) /\ T[p].kids[d] = k
      BY <2>1, <3>2, <3>3 DEF KidsEnd
    <3> QED BY <1>6, <3>1, <3>4
  <2>2. <<T[q].rule, 0, tokens[T[q].to]>> \in LookAheads[g]
    <3>1. k # 0
      BY <1>1
    <3> QED BY <1>1, <1>3, <1>8, <2>1, <3>1, OpenedOnTop
  <2>3. q \in 1 .. Len(T) /\ KidsEnd(T, q, 0) = k
    BY <1>1, <1>8 DEF KidsEnd
  <2>4. RootEnd(nd2, t - 1) = k /\ <<T[q].rule, 0, tokens[T[q].to]>> \in LookAheads[ss2[t]]
    BY <1>7, <2>2
  <2> QED BY <1>1, <1>7, <1>8, <2>3, <2>4, WaitingFirst
\* A node that has been begun before.
<1>9. ASSUME NEW q \in k + 1 .. Len(T), T[q].rule # NoRule, T[q].first <= k
      PROVE  \E d \in 0 .. Len(T[q].kids) : Waiting(T, tokens, k, nd2, ss2, q, d)
  <2> DEFINE N == Len(T[q].kids)
  <2>1. q \in 1 .. Len(T) /\ q \in m + 1 .. Len(T) /\ OpenAt(T, m, q)
    BY <1>1, <1>3, <1>9 DEF OpenAt
  <2>2. PICK d \in 0 .. N : Waiting(T, tokens, m, nd, ss, q, d)
    BY <1>3, <2>1 DEF Parsed
  <2>3. /\ KidsEnd(T, q, d) <= m
        /\ d < N => m < T[q].kids[d + 1]
    BY <2>2 DEF Waiting
  <2>4. PICK i \in 1 .. Len(ss) : /\ RootEnd(nd, i - 1) = KidsEnd(T, q, d)
                                  /\ <<T[q].rule, d, tokens[T[q].to]>> \in LookAheads[ss[i]]
    BY <2>2 DEF Waiting
  <2>5. /\ N \in Nat /\ KidsEnd(T, q, N) = q - 1
        /\ \A j \in 1 .. N : /\ KidsEnd(T, q, j) = T[q].kids[j]
                             /\ T[q].kids[j] \in 1 .. q - 1 /\ T[q].kids[j] \in 1 .. Len(T)
                             /\ T[T[q].kids[j]].first = KidsEnd(T, q, j - 1) + 1
        /\ \A j \in 0 .. N : KidsEnd(T, q, j) \in Int
    <3>1. KidsKnown(T, q)
      BY <1>1, <1>9, <2>1, KidsFacts
    <3> QED BY <3>1 DEF KidsKnown
  <2> HIDE DEF N
  <2>6. d < N
    <3>1. CASE d = N
      BY <1>1, <1>3, <1>9, <2>3, <2>5, <3>1
    <3> QED BY <2>5, <3>1
  <2> DEFINE c == d + 1
             x == T[q].kids[c]
  <2>7. c \in 1 .. N /\ c \in 0 .. N /\ c - 1 = d /\ d \in 0 .. N
    <3>1. N \in Nat /\ d \in 0 .. N /\ d < N
      BY <2>5, <2>6
    <3> QED BY <3>1
  <2>8. /\ x \in 1 .. Len(T) /\ x \in Nat /\ m < x
        /\ KidsEnd(T, q, c) = x /\ T[x].first = KidsEnd(T, q, d) + 1 /\ KidsEnd(T, q, d) \in Int
    <3>1. /\ KidsEnd(T, q, c) = x /\ x \in 1 .. Len(T) /\ T[x].first = KidsEnd(T, q, c - 1) + 1
      <4> HIDE DEF c
      <4> QED BY <2>5, <2>7
    <3>2. m < x
      BY <2>3, <2>6
    <3>3. KidsEnd(T, q, d) \in Int
      BY <2>5, <2>7
    <3> HIDE DEF x, c
    <3> QED BY <2>7, <3>1, <3>2, <3>3
  <2> HIDE DEF c
  <2>9. CASE x = k
    <3>1. <<T[q].rule, c, tokens[T[q].to]>> \in LookAheads[g]
      BY <1>6, <1>9, <2>1, <2>7, <2>9 DEF N
    <3>2. KidsEnd(T, q, c) <= k /\ RootEnd(nd2, t - 1) = KidsEnd(T, q, c)
      BY <1>1, <1>7, <2>8, <2>9
    <3>3. ASSUME c < N PROVE k < T[q].kids[c + 1]
      <4>1. c + 1 \in 0 .. N /\ c + 1 \in 1 .. N /\ c < c + 1
        BY <2>5, <2>7, <3>3
      <4>2. KidsEnd(T, q, c) < KidsEnd(T, q, c + 1)
        BY <1>1, <1>9, <2>1, <2>7, <4>1, KidsOrdered DEF N
      <4>3. KidsEnd(T, q, c + 1) = T[q].kids[c + 1]
        BY <2>5, <4>1
      <4> QED BY <2>8, <2>9, <4>2, <4>3
    <3>4. Waiting(T, tokens, k, nd2, ss2, q, c)
      <4>1. <<T[q].rule, c, tokens[T[q].to]>> \in LookAheads[ss2[t]]
        BY <1>7, <3>1
      <4> QED BY <1>7, <3>2, <3>3, <4>1 DEF Waiting, N
    <3> QED BY <2>7, <3>4 DEF N
  <2>10. CASE x # k
    <3>1. k < x /\ T[x].first <= k
      <4>1. /\ k \in Nat /\ m \in Nat /\ k = m + 1 /\ m < x /\ x \in Nat
            /\ KidsEnd(T, q, d) <= m /\ KidsEnd(T, q, d) \in Int
            /\ T[x].first = KidsEnd(T, q, d) + 1
        BY <1>1, <1>3, <2>3, <2>8
      <4> HIDE DEF x
      <4> QED BY <2>10, <4>1
    <3>2. T[x].first <= T[k].first
      <4>1. k \in Nat /\ x \in Nat /\ k < x
        BY <1>1, <2>8, <3>1
      <4> HIDE DEF x
      <4>2. k <= x
        BY <4>1
      <4>3. x \in 1 .. Len(T) /\ k \in 1 .. Len(T) /\ Grown(T, tokens) /\ T[x].first <= k
        BY <1>1, <2>8, <3>1
      <4> QED BY <4>2, <4>3, Nested
    <3>3. i - 1 \in 0 .. Len(nd) /\ i - 1 + 1 = i
      <4>1. i \in 1 .. Len(ss) /\ Len(ss) = Len(nd) + 1 /\ Len(nd) \in Nat
        BY <1>1
      <4> HIDE DEF x
      <4> QED BY <4>1
    <3>4. RootEnd(nd, i - 1) <= RootEnd(nd, l)
      <4>1. T[k].first \in 1 .. k
        BY <1>1
      <4> DEFINE f == T[x].first
                 h == T[k].first
                 v == KidsEnd(T, q, d)
      <4>2. f = v + 1 /\ v \in Int /\ h \in Int /\ f <= h
        BY <2>8, <3>2, <4>1
      <4>3. RootEnd(nd, i - 1) = v /\ RootEnd(nd, l) = h - 1
        BY <1>3, <2>4
      <4> HIDE DEF f, h, v
      <4>4. v <= h - 1
        BY <4>2
      <4> QED BY <4>3, <4>4
    <3>5. i - 1 <= l
      <4> DEFINE f == i - 1
      <4>1. f \in 0 .. Len(nd) /\ l \in 0 .. Len(nd) /\ RootEnd(nd, f) <= RootEnd(nd, l)
        BY <1>2, <3>3, <3>4
      <4> HIDE DEF f, x
      <4>2. f <= l
        BY <1>1, <4>1, SameRoot
      <4> QED BY <4>2 DEF f
    <3>6. i \in 1 .. l + 1 /\ i \in 1 .. Len(ss2) /\ i - 1 \in 0 .. l
      BY <1>2, <1>5, <3>3, <3>5
    <3>7. RootEnd(nd2, i - 1) = KidsEnd(T, q, d) /\ ss2[i] = ss[i]
      BY <1>4, <1>5, <2>4, <3>6
    <3>8. KidsEnd(T, q, d) <= k
      BY <1>1, <1>3, <2>3, <2>8
    <3>9. k < T[q].kids[d + 1]
      BY <3>1 DEF c
    <3>10. Waiting(T, tokens, k, nd2, ss2, q, d)
      BY <2>4, <3>6, <3>7, <3>8, <3>9 DEF Waiting
    <3> QED BY <2>7, <3>10 DEF N
  <2> QED BY <2>9, <2>10
<1>10. ASSUME NEW q \in 1 .. Len(T), OpenAt(T, k, q)
       PROVE  \E d \in 0 .. Len(T[q].kids) : Waiting(T, tokens, k, nd2, ss2, q, d)
  <2>1. /\ q \in k + 1 .. Len(T) /\ T[q].rule # NoRule /\ T[q].first <= k + 1
        /\ T[q].first \in Nat
    BY <1>1, <1>10, NodeTypes DEF OpenAt
  <2>2. CASE T[q].first = k + 1
    <3>1. Len(T[q].kids) \in Nat
      BY <1>1, NodeTypes
    <3>2. 0 \in 0 .. Len(T[q].kids)
      BY <3>1
    <3> QED BY <1>8, <2>1, <2>2, <3>2
  <2>3. CASE T[q].first <= k
    BY <1>9, <2>1, <2>3
  <2> QED BY <1>1, <2>1, <2>2, <2>3
<1>11. Len(ss2) = Len(nd2) + 1
  BY <1>2, <1>4, <1>5
<1>12. Parsed(T, tokens, k, nd2, ss2)
  BY <1>1, <1>4, <1>5, <1>10, <1>11 DEF Parsed
<1> QED BY <1>12 DEF nd2, ss2

-----------------------------------------------------------------------------
(* What the tables say to do next *)

LEMMA TreeFacts ==
    ASSUME NEW T, NEW tokens, Tree(T, tokens)
    PROVE  /\ Grown(T, tokens) /\ T \in Seq(TreeNode) /\ tokens \in Seq(Terminal)
           /\ Len(T) \in Nat /\ Len(T) \in 1 .. Len(T) /\ Len(tokens) \in Nat
           /\ T[Len(T)].rule = 0 /\ T[Len(T)].first = 1
           /\ T[Len(T)].to = Len(tokens) /\ tokens[Len(tokens)] = END
           /\ NextToken(T, Len(T)) = Len(tokens)
BY DEF Tree, Grown, IsTree, NextToken

LEMMA MoveFacts ==
    ASSUME NEW T, NEW tokens, Tree(T, tokens), NEW m, NEW nd, NEW ss,
           Parsed(T, tokens, m, nd, ss)
    PROVE  /\ m \in Nat /\ m \in 0 .. Len(T) /\ m + 1 \in 1 .. Len(T) /\ m + 1 - 1 = m
           /\ nd \in Seq(Nat) /\ Len(nd) \in Nat /\ RootEnd(nd, Len(nd)) = m
           /\ ss \in Seq(State) /\ Len(ss) = Len(nd) + 1 /\ ss[Len(ss)] \in State
           /\ NextToken(T, m) \in 1 .. Len(tokens) /\ tokens[NextToken(T, m)] \in Terminal
<1>1. Len(T) \in Nat /\ Grown(T, tokens) /\ tokens \in Seq(Terminal) /\ Len(tokens) \in Nat
      /\ NextToken(T, Len(T)) = Len(tokens)
  BY TreeFacts
<1>2. m \in Nat /\ m \in 0 .. Len(T) /\ m + 1 \in 1 .. Len(T) /\ m + 1 - 1 = m /\ m <= Len(T)
  BY <1>1 DEF Parsed
<1>3. /\ nd \in Seq(Nat) /\ Len(nd) \in Nat /\ RootEnd(nd, Len(nd)) = m
      /\ ss \in Seq(State) /\ Len(ss) = Len(nd) + 1
  BY DEF Parsed, Roots
<1>4. ss[Len(ss)] \in State
  BY <1>3
<1>5. NextToken(T, m) \in Nat /\ 1 <= NextToken(T, m) /\ NextToken(T, m) <= NextToken(T, Len(T))
  <2>1. Len(T) \in 0 .. Len(T)
    BY <1>1
  <2> QED BY <1>1, <1>2, <2>1, TokensForward
<1>6. NextToken(T, m) \in 1 .. Len(tokens)
  BY <1>1, <1>5
<1>7. tokens[NextToken(T, m)] \in Terminal
  BY <1>1, <1>6
<1> QED BY <1>2, <1>3, <1>4, <1>6, <1>7

\* The next node is a token: the tables shift it.
LEMMA NextShift ==
    ASSUME NEW T, NEW tokens, Tree(T, tokens), NEW m, NEW nd, NEW ss,
           Parsed(T, tokens, m, nd, ss), T[m + 1].rule = NoRule
    PROVE  /\ m + 1 < Len(T) /\ T[m + 1].first - 1 = m /\ T[m + 1].sym = tokens[NextToken(T, m)]
           /\ m_tabActionShift[ss[Len(ss)]][tokens[NextToken(T, m)]] # ERROR_VAL
           /\ NextToken(T, m + 1) = NextToken(T, m) + 1
           /\ NextToken(T, m) < Len(tokens)
<1> DEFINE k == m + 1
           s == ss[Len(ss)]
<1>1. /\ m \in Nat /\ k \in 1 .. Len(T) /\ k - 1 = m /\ s \in State
      /\ NextToken(T, m) \in 1 .. Len(tokens) /\ tokens[NextToken(T, m)] \in Terminal
  BY MoveFacts
<1>2. /\ Grown(T, tokens) /\ T \in Seq(TreeNode) /\ Len(T) \in Nat /\ T[Len(T)].rule = 0
      /\ NextToken(T, Len(T)) = Len(tokens) /\ Len(tokens) \in Nat
  BY TreeFacts
<1>r. T[k].rule = NoRule
  OBVIOUS
<1>k. k = m + 1
  OBVIOUS
<1> HIDE DEF k, s
<1>3. /\ T[k].first = k /\ T[k].sym = tokens[NextToken(T, m)] /\ T[k].to = NextToken(T, m) + 1
  <2>1. IsToken(T, tokens, k)
    BY <1>1, <1>2, <1>r, NodeKinds
  <2> QED BY <1>1, <2>1 DEF IsToken
<1>4. k # Len(T)
  BY <1>2, <1>r DEF NoRule
<1>5. NextToken(T, k) = NextToken(T, m) + 1
  BY <1>1, <1>2, <1>3, NodeTypes
<1>6. NextToken(T, m) < Len(tokens)
  <2>1. k \in 0 .. Len(T) /\ Len(T) \in 0 .. Len(T) /\ k <= Len(T)
    BY <1>1, <1>2
  <2>2. NextToken(T, k) <= NextToken(T, Len(T))
    BY <1>2, <2>1, TokensForward
  <2> QED BY <1>1, <1>2, <1>5, <2>2
<1>7. PICK p \in k + 1 .. Len(T) :
          T[p].rule # NoRule /\ \E j \in 1 .. Len(T[p].kids) : T[p].kids[j] = k
  BY <1>1, <1>4, HasParent
<1>8. PICK d \in 1 .. Len(T[p].kids) : T[p].kids[d] = k
  BY <1>7
<1>9. p \in 1 .. Len(T) /\ p \in m + 1 .. Len(T) /\ k \in Nat
  BY <1>1, <1>2, <1>7, <1>k
<1>a. ChildKnown(T, p, d, k)
  BY <1>2, <1>7, <1>8, <1>9, ChildFacts
<1>10. /\ T[p].rule \in RuleNr /\ Len(T[p].kids) = Len(Rhs(T[p].rule))
       /\ d - 1 \in 0 .. Len(T[p].kids) /\ d - 1 < Len(T[p].kids) /\ d - 1 + 1 = d
       /\ 0 \in 0 .. Len(T[p].kids) /\ d \in 0 .. Len(T[p].kids)
  BY <1>a DEF ChildKnown
<1>11. KidsEnd(T, p, d) = k /\ T[k].sym = Rhs(T[p].rule)[d]
  BY <1>a DEF ChildKnown
<1>12. /\ T[k].first = KidsEnd(T, p, d - 1) + 1
       /\ KidsEnd(T, p, 0) = T[p].first - 1 /\ KidsEnd(T, p, d - 1) \in Int
  BY <1>a DEF ChildKnown
<1>13. KidsEnd(T, p, d - 1) = m
  BY <1>1, <1>3, <1>9, <1>12, <1>k
<1>14. OpenAt(T, m, p)
  <2>1. KidsEnd(T, p, 0) < KidsEnd(T, p, d)
    <3>1. 0 < d
      OBVIOUS
    <3> QED BY <1>2, <1>7, <1>9, <1>10, <3>1, KidsOrdered
  <2>2. T[p].first \in Nat
    BY <1>2, <1>9, NodeTypes
  <2>3. T[p].first <= m + 1
    BY <1>1, <1>9, <1>11, <1>12, <1>k, <2>1, <2>2
  <2> QED BY <1>7, <1>9, <2>3 DEF OpenAt
<1>15. <<T[p].rule, d - 1, tokens[T[p].to]>> \in LookAheads[s]
  BY <1>2, <1>9, <1>10, <1>13, <1>14, ElementOnTop DEF s
<1>16. CompleteFor(s, T[p].rule, d - 1, tokens[T[p].to])
  BY <1>1, <1>15, CompleteAt
<1>17. Goto(s, Rhs(T[p].rule)[d - 1 + 1]) # ERROR_VAL
  BY <1>10, <1>16 DEF CompleteFor
<1>18. Goto(s, T[k].sym) # ERROR_VAL
  BY <1>10, <1>11, <1>17
<1>19. m_tabActionShift[s][tokens[NextToken(T, m)]] # ERROR_VAL
  BY <1>1, <1>3, <1>18 DEF Goto
<1>20. m + 1 < Len(T) /\ T[k].first - 1 = m
  BY <1>1, <1>2, <1>3, <1>4, <1>k
<1> QED BY <1>3, <1>5, <1>6, <1>19, <1>20, <1>k DEF s

\* The next node is a reduction: the tables reduce by its rule, or accept.
LEMMA NextReduce ==
    ASSUME NEW T, NEW tokens, Tree(T, tokens), NEW m, NEW nd, NEW ss,
           Parsed(T, tokens, m, nd, ss), T[m + 1].rule # NoRule
    PROVE  /\ T[m + 1].rule \in RuleNr /\ T[m + 1].sym = Rules[T[m + 1].rule].lhs
           /\ Len(T[m + 1].kids) = Len(Rhs(T[m + 1].rule))
           /\ m_tabActionReduce[ss[Len(ss)]][tokens[NextToken(T, m)]] =
                  IF T[m + 1].rule = 0 THEN ACCEPT_VAL ELSE T[m + 1].rule
           /\ T[m + 1].rule = 0 => NextToken(T, m) = Len(tokens)
           /\ T[m + 1].rule # 0 => m + 1 < Len(T)
           /\ NextToken(T, m + 1) = NextToken(T, m)
           /\ Len(T[m + 1].kids) \in 0 .. Len(nd)
           /\ RootEnd(nd, Len(nd) - Len(T[m + 1].kids)) = T[m + 1].first - 1
<1> DEFINE k == m + 1
           s == ss[Len(ss)]
           n == Len(T[k].kids)
<1>1. /\ m \in Nat /\ k \in 1 .. Len(T) /\ k - 1 = m /\ s \in State
      /\ nd \in Seq(Nat) /\ Len(nd) \in Nat
  BY MoveFacts
<1>2. /\ Grown(T, tokens) /\ T \in Seq(TreeNode) /\ Len(T) \in Nat /\ T[Len(T)].rule = 0
      /\ T[Len(T)].to = Len(tokens)
  BY TreeFacts
<1>r. T[k].rule # NoRule
  OBVIOUS
<1>k. k = m + 1
  OBVIOUS
<1> HIDE DEF k, s, n
<1>3. /\ T[k].rule \in RuleNr /\ T[k].sym = Rules[T[k].rule].lhs
      /\ n = Len(Rhs(T[k].rule)) /\ n \in Nat
      /\ T[k].to = NextToken(T, m)
      /\ KidsEnd(T, k, 0) = T[k].first - 1 /\ KidsEnd(T, k, n) = m
  BY <1>1, <1>2, <1>r, KidFacts DEF n
<1>4. NextToken(T, k) = NextToken(T, m)
  BY <1>1, <1>2, <1>3, NodeTypes
<1>5. T[k].rule = 0 <=> k = Len(T)
  BY <1>1, <1>2, StartAtRoot
<1>6. Roots(T, nd, k - 1)
  BY <1>1 DEF Parsed
<1>7. n \in 0 .. n /\ n - n = 0
  BY <1>3
<1>8. n <= Len(nd) /\ RootEnd(nd, Len(nd) - n) = KidsEnd(T, k, n - n)
  BY <1>1, <1>2, <1>6, <1>7, <1>r, KidsOnTop DEF n
<1>9. OpenAt(T, m, k)
  <2>1. T[k].first \in 1 .. k
    BY <1>1, <1>2, FirstBelow
  <2>2. k \in m + 1 .. Len(T) /\ T[k].first <= m + 1
    BY <1>1, <1>2, <1>k, <2>1
  <2> QED BY <1>r, <2>2 DEF OpenAt
<1>10. <<T[k].rule, n, tokens[T[k].to]>> \in LookAheads[s]
  BY <1>1, <1>2, <1>3, <1>7, <1>9, ElementOnTop DEF s, n
<1>11. CompleteFor(s, T[k].rule, n, tokens[T[k].to])
  BY <1>1, <1>10, CompleteAt
<1>12. m_tabActionReduce[s][tokens[NextToken(T, m)]] = IF T[k].rule = 0 THEN ACCEPT_VAL ELSE T[k].rule
  BY <1>3, <1>11 DEF CompleteFor
<1>13. T[k].rule = 0 => NextToken(T, m) = Len(tokens)
  BY <1>2, <1>3, <1>5
<1>14. T[k].rule # 0 => m + 1 < Len(T)
  BY <1>1, <1>2, <1>5, <1>k
<1>15. n \in 0 .. Len(nd) /\ RootEnd(nd, Len(nd) - n) = T[k].first - 1
  BY <1>1, <1>3, <1>7, <1>8
<1> QED BY <1>3, <1>4, <1>12, <1>13, <1>14, <1>15, <1>k DEF s, n

\* The reduction replaces the topmost roots by the node.
LEMMA ReduceMakes ==
    ASSUME NEW T, NEW tokens, Tree(T, tokens), NEW m, NEW nd, NEW ss,
           Parsed(T, tokens, m, nd, ss), T[m + 1].rule # NoRule, T[m + 1].rule # 0,
           NEW n, n = Len(T[m + 1].kids), NEW g \in State, g = Goto(ss[Len(ss) - n], T[m + 1].sym)
    PROVE  Making(T, tokens, m, nd, ss, m + 1, n, g)
<1>1. RootEnd(nd, Len(nd) - Len(T[m + 1].kids)) = T[m + 1].first - 1
  BY NextReduce
<1>2. m + 1 < Len(T) /\ n \in 0 .. Len(nd)
  BY NextReduce
<1> QED BY <1>1, <1>2 DEF Making

\* Before the first step.
LEMMA ParsedInit ==
    ASSUME NEW T, NEW tokens, Tree(T, tokens)
    PROVE  Parsed(T, tokens, 0, <<>>, <<0>>)
<1> DEFINE nd == << >>
           ss == <<0>>
<1>1. Grown(T, tokens) /\ T \in Seq(TreeNode) /\ Len(T) \in Nat /\ Len(T) \in 1 .. Len(T)
  BY TreeFacts
<1>2. /\ nd \in Seq(Nat) /\ Len(nd) = 0 /\ ss \in Seq(State) /\ Len(ss) = 1 /\ ss[1] = 0
      /\ 0 \in State /\ 1 \in 1 .. Len(ss)
  BY SymbolsAssumption
<1> HIDE DEF nd, ss
<1>3. \A i \in 0 .. 0 : RootEnd(nd, i) = 0
  BY DEF RootEnd
<1>4. Roots(T, nd, 0)
  BY <1>2, <1>3 DEF Roots
<1>5. ASSUME NEW q \in 1 .. Len(T), OpenAt(T, 0, q)
      PROVE  \E d \in 0 .. Len(T[q].kids) : Waiting(T, tokens, 0, nd, ss, q, d)
  <2>1. T[q].first = 0 + 1 /\ T[q].rule # NoRule /\ q \in 0 + 1 .. Len(T)
    <3>1. T[q].first \in 1 .. q
      BY <1>1, FirstBelow
    <3> QED BY <1>1, <1>5, <3>1 DEF OpenAt
  <2>2. ASSUME NEW p \in 1 .. Len(T), OpenAt(T, 0, p), T[p].first <= 0 PROVE FALSE
    <3>1. T[p].first \in 1 .. p
      BY <1>1, FirstBelow
    <3> QED BY <2>2, <3>1
  <2>3. 0 \in 0 .. Len(T) - 1
    BY <1>1
  <2>4. <<T[q].rule, 0, tokens[T[q].to]>> \in LookAheads[0]
    BY <1>2, <2>1, <2>2, <2>3, OpenedOnTop
  <2>5. Waiting(T, tokens, 0, nd, ss, q, 0)
    <3>1. RootEnd(nd, 1 - 1) = 0
      BY <1>3
    <3> QED BY <1>1, <1>2, <2>1, <2>4, <3>1, WaitingFirst
  <2>6. 0 \in 0 .. Len(T[q].kids)
    <3>1. Len(T[q].kids) \in Nat
      BY <1>1, NodeTypes
    <3> QED BY <3>1
  <2> QED BY <2>5, <2>6
<1>6. 0 \in 0 .. Len(T) - 1 /\ Len(ss) = Len(nd) + 1
  BY <1>1, <1>2
<1> QED BY <1>2, <1>4, <1>5, <1>6 DEF Parsed, nd, ss

-----------------------------------------------------------------------------
(* No sentence is rejected *)

\* The parser makes the nodes of the sentence's tree, one after the other.
Follows(s) ==
    \E m \in Nat, nd \in Seq(Nat) :
        Parsed(s.tree, s.tokens, m, nd, states) /\ inputidx = NextToken(s.tree, m)

\* The invariant, for one sentence.
SentenceInv(s) ==
    Begins(s) =>
        /\ result # "error"
        /\ result = "none" => Follows(s)
        /\ result = "accept" => inputidx = Len(s.tokens)
        /\ result = "underflow" => inputidx < Len(s.tokens)

SInv == IInv /\ \A s \in KnownSentences : SentenceInv(s)

LEMMA SentenceTree ==
    ASSUME NEW s \in KnownSentences
    PROVE  Tree(s.tree, s.tokens)
BY SentencesAssumption DEF Tree, Grown, IsTree

\* What a parser that follows the tree finds in the tables.
LEMMA Following ==
    ASSUME IInv, NEW s \in KnownSentences, Begins(s), result = "none",
           NEW m \in Nat, NEW nd \in Seq(Nat),
           Parsed(s.tree, s.tokens, m, nd, states), inputidx = NextToken(s.tree, m)
    PROVE  /\ curtok = s.tokens[NextToken(s.tree, m)]
           /\ s.tree[m + 1].rule = NoRule => newstate # ERROR_VAL
           /\ s.tree[m + 1].rule # NoRule =>
                  /\ s.tree[m + 1].rule \in RuleNr
                  /\ newrule = IF s.tree[m + 1].rule = 0 THEN ACCEPT_VAL ELSE s.tree[m + 1].rule
<1> DEFINE T == s.tree
           tokens == s.tokens
<1>1. Tree(T, tokens)
  BY SentenceTree
<1>2. inputidx \in Nat /\ inputidx \in 1 .. inputidx
  <2>1. inputidx \in 1 .. Len(input) /\ Len(input) \in Nat
    BY Lookup DEF IInv, ParserTypeOK
  <2> QED BY <2>1
<1>3. curtok = tokens[NextToken(T, m)]
  BY <1>2 DEF Begins, curtok
<1> HIDE DEF T, tokens
<1>p. Parsed(T, tokens, m, nd, states)
  BY DEF T, tokens
<1>4. ASSUME T[m + 1].rule = NoRule PROVE newstate # ERROR_VAL
  BY <1>1, <1>3, <1>4, <1>p, NextShift DEF newstate, topstate
<1>5. ASSUME T[m + 1].rule # NoRule
      PROVE  /\ T[m + 1].rule \in RuleNr
             /\ newrule = IF T[m + 1].rule = 0 THEN ACCEPT_VAL ELSE T[m + 1].rule
  BY <1>1, <1>3, <1>5, <1>p, NextReduce DEF newrule, topstate
<1> QED BY <1>3, <1>4, <1>5 DEF T, tokens

LEMMA SentenceInit ==
    ASSUME ParserInit, NEW s \in KnownSentences
    PROVE  SentenceInv(s)
<1>1. Parsed(s.tree, s.tokens, 0, <<>>, <<0>>)
  BY SentenceTree, ParsedInit
<1>2. states = <<0>> /\ inputidx = 1 /\ result = "none"
  BY DEF ParserInit
<1>3. NextToken(s.tree, 0) = 1 /\ 0 \in Nat /\ <<>> \in Seq(Nat)
  BY DEF NextToken
<1>4. Follows(s)
  BY <1>1, <1>2, <1>3 DEF Follows
<1> QED BY <1>2, <1>4 DEF SentenceInv

LEMMA SentenceThrow ==
    ASSUME IInv, Throw, NEW s \in KnownSentences, SentenceInv(s)
    PROVE  SentenceInv(s)'
<1>1. /\ result = "none" /\ UNCHANGED <<input, inputidx, states>>
      /\ newstate = ERROR_VAL /\ newrule = ERROR_VAL
  BY Lookup, TablesAssumption DEF IInv, Throw, newstate, newrule
<1>2. Begins(s)' => Begins(s)
  BY <1>1 DEF Begins
<1>3. ~Begins(s)
  <2> SUFFICES ASSUME Begins(s) PROVE FALSE
    OBVIOUS
  <2>1. PICK m \in Nat, nd \in Seq(Nat) :
            Parsed(s.tree, s.tokens, m, nd, states) /\ inputidx = NextToken(s.tree, m)
    BY <1>1 DEF SentenceInv, Follows
  <2>2. CASE s.tree[m + 1].rule = NoRule
    BY <1>1, <2>1, <2>2, Following
  <2>3. CASE s.tree[m + 1].rule # NoRule
    <3>1. /\ s.tree[m + 1].rule \in RuleNr
          /\ newrule = IF s.tree[m + 1].rule = 0 THEN ACCEPT_VAL ELSE s.tree[m + 1].rule
      BY <1>1, <2>1, <2>3, Following
    <3> QED BY <1>1, <3>1, SymbolsAssumption
  <2> QED BY <2>2, <2>3
<1> QED BY <1>2, <1>3 DEF SentenceInv

LEMMA SentenceAccept ==
    ASSUME IInv, Accept, NEW s \in KnownSentences, SentenceInv(s)
    PROVE  SentenceInv(s)'
<1>1. /\ result = "none" /\ UNCHANGED <<input, inputidx, states>> /\ result' = "accept"
      /\ newstate = ERROR_VAL /\ newrule = ACCEPT_VAL
  BY DEF Accept
<1>2. Begins(s)' => Begins(s)
  BY <1>1 DEF Begins
<1>3. ASSUME Begins(s) PROVE inputidx = Len(s.tokens)
  <2>1. PICK m \in Nat, nd \in Seq(Nat) :
            Parsed(s.tree, s.tokens, m, nd, states) /\ inputidx = NextToken(s.tree, m)
    BY <1>1, <1>3 DEF SentenceInv, Follows
  <2>2. s.tree[m + 1].rule # NoRule
    BY <1>1, <1>3, <2>1, Following
  <2>3. s.tree[m + 1].rule = 0
    <3>1. /\ s.tree[m + 1].rule \in RuleNr
          /\ newrule = IF s.tree[m + 1].rule = 0 THEN ACCEPT_VAL ELSE s.tree[m + 1].rule
      BY <1>1, <1>3, <2>1, <2>2, Following
    <3> QED BY <1>1, <3>1, SymbolsAssumption
  <2> QED BY <2>1, <2>2, <2>3, SentenceTree, NextReduce
<1> QED BY <1>1, <1>2, <1>3 DEF SentenceInv

LEMMA SentenceShift ==
    ASSUME IInv, Shift, NEW s \in KnownSentences, SentenceInv(s)
    PROVE  SentenceInv(s)'
<1> DEFINE T == s.tree
           tokens == s.tokens
<1>1. /\ result = "none" /\ UNCHANGED input
      /\ newstate # ERROR_VAL /\ newrule = ERROR_VAL
      /\ states' = Append(states, newstate)
      /\ \/ inputidx = Len(input) /\ result' = "underflow" /\ inputidx' = inputidx
         \/ inputidx # Len(input) /\ result' = "none" /\ inputidx' = inputidx + 1
  BY DEF Shift
<1>2. /\ inputidx \in Nat /\ newstate \in State /\ states \in Seq(State) /\ topstate \in State
      /\ curtok \in Terminal
  BY <1>1, Lookup DEF IInv, ParserTypeOK
<1>3. Tree(T, tokens) /\ Len(tokens) \in Nat
  BY SentenceTree, TreeFacts
<1>4. ASSUME Begins(s)' PROVE Begins(s)
  <2>1. input' = input /\ inputidx <= inputidx' /\ inputidx \in Nat /\ inputidx' \in Nat
    BY <1>1, <1>2
  <2>2. inputidx' <= Len(tokens) /\ \A i \in 1 .. inputidx' : input[i] = tokens[i]
    BY <1>4, <2>1 DEF Begins
  <2>3. inputidx <= Len(tokens) /\ \A i \in 1 .. inputidx : i \in 1 .. inputidx'
    BY <1>3, <2>1, <2>2
  <2> QED BY <2>2, <2>3 DEF Begins
<1>5. SUFFICES ASSUME Begins(s)
               PROVE  /\ result' = "none" => Follows(s)'
                      /\ result' = "underflow" => inputidx' < Len(tokens)
  BY <1>1, <1>4 DEF SentenceInv
<1>6. PICK m \in Nat, nd \in Seq(Nat) : Parsed(T, tokens, m, nd, states) /\ inputidx = NextToken(T, m)
  BY <1>1, <1>5 DEF SentenceInv, Follows
<1>7. curtok = tokens[NextToken(T, m)]
  BY <1>1, <1>5, <1>6, Following
<1>8. T[m + 1].rule = NoRule
  <2>1. CASE T[m + 1].rule # NoRule
    <3>1. T[m + 1].rule \in RuleNr /\ newrule = IF T[m + 1].rule = 0 THEN ACCEPT_VAL ELSE T[m + 1].rule
      BY <1>1, <1>5, <1>6, <2>1, Following
    <3> QED BY <1>1, <3>1, SymbolsAssumption
  <2> QED BY <2>1
<1> HIDE DEF T, tokens
<1>9. /\ m + 1 < Len(T) /\ T[m + 1].first - 1 = m /\ T[m + 1].sym = tokens[NextToken(T, m)]
      /\ NextToken(T, m + 1) = NextToken(T, m) + 1
      /\ NextToken(T, m) < Len(tokens)
  BY <1>3, <1>6, <1>8, NextShift
<1>10. /\ Len(nd) \in Nat /\ RootEnd(nd, Len(nd)) = m /\ Len(nd) - 0 = Len(nd)
       /\ Len(states) - 0 = Len(states) /\ Len(states) \in Nat
  <2>1. Len(nd) \in Nat /\ RootEnd(nd, Len(nd)) = m
    BY <1>3, <1>6, MoveFacts
  <2> QED BY <1>2, <2>1
<1>11. newstate = Goto(states[Len(states)], T[m + 1].sym)
  BY <1>2, <1>7, <1>9 DEF Goto, newstate, topstate
<1>12. Making(T, tokens, m, nd, states, m + 1, 0, newstate)
  BY <1>2, <1>6, <1>9, <1>10, <1>11 DEF Making
<1>13. Parsed(T, tokens, m + 1, Popped(nd, 0, m + 1), Popped(states, 0, newstate))
  BY <1>3, <1>12, Made
<1>14. Popped(states, 0, newstate) = states'
  <2>1. SubSeq(states, 1, Len(states)) = states
    BY <1>2
  <2> QED BY <1>1, <1>10, <2>1 DEF Popped
<1>15. CASE result' = "none"
  <2>1. inputidx' = NextToken(T, m + 1)
    BY <1>1, <1>6, <1>9, <1>15
  <2>2. Popped(nd, 0, m + 1) \in Seq(Nat) /\ m + 1 \in Nat
    <3>1. Roots(T, Popped(nd, 0, m + 1), m + 1)
      BY <1>13 DEF Parsed
    <3> QED BY <3>1 DEF Roots
  <2>3. Follows(s)'
    BY <1>13, <1>14, <2>1, <2>2 DEF Follows, T, tokens
  <2> QED BY <1>15, <2>3
<1>16. CASE result' = "underflow"
  BY <1>1, <1>6, <1>9, <1>16
<1> QED BY <1>1, <1>15, <1>16

LEMMA SentenceReduce ==
    ASSUME IInv, Reduce, NEW s \in KnownSentences, SentenceInv(s)
    PROVE  SentenceInv(s)'
<1> DEFINE T == s.tree
           tokens == s.tokens
<1>1. /\ result = "none" /\ result' = "none" /\ UNCHANGED <<input, inputidx>>
      /\ newrule \in RuleNr /\ NumArgs = Len(Rhs(newrule))
      /\ NewNode.sym = Rules[newrule].lhs
      /\ NewJump \in State
      /\ states' = Append(SubSeq(states, 1, Len(states) - NumArgs), NewJump)
  BY ReduceStep
<1>2. newstate = ERROR_VAL
  BY DEF Reduce
<1>3. Tree(T, tokens)
  BY SentenceTree
<1>4. Begins(s)' => Begins(s)
  BY <1>1 DEF Begins
<1>5. SUFFICES ASSUME Begins(s) PROVE Follows(s)'
  BY <1>1, <1>4 DEF SentenceInv
<1>6. PICK m \in Nat, nd \in Seq(Nat) : Parsed(T, tokens, m, nd, states) /\ inputidx = NextToken(T, m)
  BY <1>1, <1>5 DEF SentenceInv, Follows
<1>7. T[m + 1].rule # NoRule
  BY <1>1, <1>2, <1>5, <1>6, Following
<1>8. T[m + 1].rule \in RuleNr /\ T[m + 1].rule # 0 /\ newrule = T[m + 1].rule
  <2>1. T[m + 1].rule \in RuleNr /\ newrule = IF T[m + 1].rule = 0 THEN ACCEPT_VAL ELSE T[m + 1].rule
    BY <1>1, <1>5, <1>6, <1>7, Following
  <2> QED BY <1>1, <2>1, SymbolsAssumption
<1> HIDE DEF T, tokens
<1>9. T[m + 1].sym = Rules[T[m + 1].rule].lhs /\ Len(T[m + 1].kids) = Len(Rhs(T[m + 1].rule))
  BY <1>3, <1>6, <1>7, NextReduce
<1>10. NextToken(T, m + 1) = NextToken(T, m)
  BY <1>3, <1>6, <1>7, NextReduce
<1>11. NumArgs = Len(T[m + 1].kids)
  BY <1>1, <1>8, <1>9
<1>12. NewJump = Goto(states[Len(states) - NumArgs], T[m + 1].sym)
  <2>1. Rules[newrule].lhs \notin Terminal
    BY <1>1, SymbolsAssumption
  <2> QED BY <1>1, <1>8, <1>9, <2>1 DEF Goto, NewJump
<1>13. Making(T, tokens, m, nd, states, m + 1, NumArgs, NewJump)
  BY <1>1, <1>3, <1>6, <1>7, <1>8, <1>11, <1>12, ReduceMakes
<1>14. Parsed(T, tokens, m + 1, Popped(nd, NumArgs, m + 1), Popped(states, NumArgs, NewJump))
  BY <1>3, <1>13, Made
<1>15. Popped(states, NumArgs, NewJump) = states'
  BY <1>1 DEF Popped
<1>16. Popped(nd, NumArgs, m + 1) \in Seq(Nat) /\ m + 1 \in Nat
  <2>1. Roots(T, Popped(nd, NumArgs, m + 1), m + 1)
    BY <1>14 DEF Parsed
  <2> QED BY <2>1 DEF Roots
<1>17. inputidx' = NextToken(T, m + 1)
  BY <1>1, <1>6, <1>10
<1> QED BY <1>14, <1>15, <1>16, <1>17 DEF Follows, T, tokens

LEMMA SentenceStay ==
    ASSUME UNCHANGED vars, NEW s \in KnownSentences, SentenceInv(s)
    PROVE  SentenceInv(s)'
<1>1. UNCHANGED <<input, inputidx, states, result>>
  BY DEF vars
<1> QED BY <1>1 DEF SentenceInv, Begins, Follows

LEMMA SentencesInit == ParserInit => SInv
BY InitInv, SentenceInit DEF SInv

LEMMA SentencesStep == SInv /\ [ParserNext]_vars => SInv'
<1> SUFFICES ASSUME SInv, [ParserNext]_vars PROVE SInv'
  OBVIOUS
<1>1. IInv /\ IInv'
  BY StepInv DEF SInv
<1>2. ASSUME NEW s \in KnownSentences PROVE SentenceInv(s)'
  <2>1. SentenceInv(s)
    BY DEF SInv
  <2>2. CASE Throw
    BY <1>1, <2>1, <2>2, SentenceThrow
  <2>3. CASE Accept
    BY <1>1, <2>1, <2>3, SentenceAccept
  <2>4. CASE Shift
    BY <1>1, <2>1, <2>4, SentenceShift
  <2>5. CASE Reduce
    BY <1>1, <2>1, <2>5, SentenceReduce
  <2>6. CASE Done \/ UNCHANGED vars
    <3>1. UNCHANGED vars
      BY <2>6 DEF Done
    <3> QED BY <2>1, <3>1, SentenceStay
  <2> QED BY <2>2, <2>3, <2>4, <2>5, <2>6 DEF ParserNext
<1> QED BY <1>1, <1>2 DEF SInv

\* With complete tables Parse rejects no sentence: as long as what it has read is
\* how a sentence begins it throws no error, and it accepts at the end of the
\* sentence, not before.
THEOREM SentencesAccepted == ParserSafeSpec => []NoSentenceRejected
<1>1. SInv => NoSentenceRejected
  <2> SUFFICES ASSUME SInv, NEW s \in KnownSentences, Begins(s)
               PROVE  /\ result # "error"
                      /\ result \in {"accept", "underflow"} =>
                             (result = "accept") = (inputidx = Len(s.tokens))
    BY DEF NoSentenceRejected
  <2>1. /\ result # "error"
        /\ result = "accept" => inputidx = Len(s.tokens)
        /\ result = "underflow" => inputidx < Len(s.tokens)
    BY DEF SInv, SentenceInv
  <2>2. Len(s.tokens) \in Nat
    BY SentenceTree, TreeFacts
  <2> QED BY <2>1, <2>2
<1> QED BY <1>1, SentencesInit, SentencesStep, PTL DEF ParserSafeSpec

-----------------------------------------------------------------------------
(* Only sentences are accepted *)

\* One node more.
Grow(T, node) == Append(T, node)

LEMMA GrowSeq ==
    ASSUME NEW T \in Seq(TreeNode), NEW node \in TreeNode
    PROVE  /\ Grow(T, node) \in Seq(TreeNode) /\ Len(Grow(T, node)) = Len(T) + 1
           /\ Grow(T, node)[Len(T) + 1] = node
           /\ \A i \in 1 .. Len(T) : Grow(T, node)[i] = T[i]
BY DEF Grow

LEMMA GrowOne ==
    ASSUME NEW T, NEW tokens, Grown(T, tokens), NEW node \in TreeNode, NEW T2, T2 = Grow(T, node),
           NEW k, k = Len(T) + 1
    PROVE  /\ T2 \in Seq(TreeNode) /\ Len(T2) = k /\ T2[k] = node
           /\ \A i \in 1 .. Len(T) : T2[i] = T[i]
           /\ \A i \in 0 .. Len(T) : NextToken(T2, i) = NextToken(T, i)
           /\ IsToken(T2, tokens, k) => Grown(T2, tokens)
           /\ IsReduction(T2, k) => Grown(T2, tokens)
<1>1. T \in Seq(TreeNode) /\ Len(T) \in Nat /\ tokens \in Seq(Terminal)
  BY DEF Grown
<1>2. /\ T2 \in Seq(TreeNode) /\ Len(T2) = Len(T) + 1 /\ T2[Len(T) + 1] = node
      /\ \A i \in 1 .. Len(T) : T2[i] = T[i]
  BY <1>1 DEF Grow
<1>3. ASSUME NEW i \in 0 .. Len(T) PROVE NextToken(T2, i) = NextToken(T, i)
  <2>1. i = 0 \/ i \in 1 .. Len(T)
    BY <1>1
  <2> QED BY <1>2, <2>1 DEF NextToken
<1>4. ASSUME NEW m \in 1 .. Len(T) PROVE IsToken(T2, tokens, m) \/ IsReduction(T2, m)
  <2>1. m - 1 \in 0 .. Len(T) /\ T2[m] = T[m] /\ NextToken(T2, m - 1) = NextToken(T, m - 1)
    BY <1>1, <1>2, <1>3
  <2>2. CASE IsToken(T, tokens, m)
    BY <2>1, <2>2 DEF IsToken
  <2>3. CASE IsReduction(T, m)
    <3>1. \A d \in 0 .. Len(T[m].kids) : KidsEnd(T2, m, d) = KidsEnd(T, m, d)
      BY <2>1 DEF KidsEnd
    <3>2. Len(T[m].kids) \in Nat
      BY <1>1, NodeTypes
    <3>3. /\ T[m].rule \in RuleNr /\ T[m].sym = Rules[T[m].rule].lhs
          /\ Len(T[m].kids) = Len(Rhs(T[m].rule))
          /\ KidsEnd(T, m, Len(T[m].kids)) = m - 1 /\ T[m].to = NextToken(T, m - 1)
      BY <2>3 DEF IsReduction
    <3>4. KidsEnd(T2, m, Len(T2[m].kids)) = m - 1
      <4>1. Len(T[m].kids) \in 0 .. Len(T[m].kids)
        BY <3>2
      <4> QED BY <2>1, <3>1, <3>3, <4>1
    <3>5. ASSUME NEW j \in 1 .. Len(T2[m].kids)
          PROVE  /\ T2[m].kids[j] \in 1 .. m - 1
                 /\ T2[T2[m].kids[j]].sym = Rhs(T2[m].rule)[j]
                 /\ T2[T2[m].kids[j]].first = KidsEnd(T2, m, j - 1) + 1
      <4>1. j \in 1 .. Len(T[m].kids) /\ j - 1 \in 0 .. Len(T[m].kids)
        BY <2>1, <3>2
      <4>2. /\ T[m].kids[j] \in 1 .. m - 1
            /\ T[T[m].kids[j]].sym = Rhs(T[m].rule)[j]
            /\ T[T[m].kids[j]].first = KidsEnd(T, m, j - 1) + 1
        BY <2>3, <4>1 DEF IsReduction
      <4>3. T[m].kids[j] \in 1 .. Len(T)
        BY <1>1, <4>2
      <4>4. T2[T[m].kids[j]] = T[T[m].kids[j]] /\ KidsEnd(T2, m, j - 1) = KidsEnd(T, m, j - 1)
        BY <1>2, <3>1, <4>1, <4>3
      <4> QED BY <2>1, <4>2, <4>4
    <3> QED BY <2>1, <3>3, <3>4, <3>5 DEF IsReduction
  <2> QED BY <2>2, <2>3 DEF Grown, IsForest
<1>5. ASSUME IsToken(T2, tokens, k) \/ IsReduction(T2, k)
      PROVE  Grown(T2, tokens)
  <2>1. \A m \in 1 .. Len(T2) : m \in 1 .. Len(T) \/ m = k
    BY <1>1, <1>2
  <2> QED BY <1>1, <1>2, <1>4, <1>5, <2>1 DEF Grown, IsForest
<1> QED BY <1>2, <1>3, <1>5

\* The new node takes the place of the topmost n roots.
LEMMA RootsPush ==
    ASSUME NEW T, NEW tokens, Grown(T, tokens), NEW nd, Roots(T, nd, Len(T)),
           NEW n \in 0 .. Len(nd), NEW node \in TreeNode,
           node.first = RootEnd(nd, Len(nd) - n) + 1, NEW T2, T2 = Grow(T, node)
    PROVE  Roots(T2, Popped(nd, n, Len(T) + 1), Len(T) + 1)
<1> DEFINE l == Len(nd) - n
           k == Len(T) + 1
           nd2 == Popped(nd, n, k)
<1>1. Len(T) \in Nat /\ k \in Nat /\ nd \in Seq(Nat) /\ Len(nd) \in Nat
  BY DEF Grown, Roots
<1>2. l \in Nat /\ l \in 0 .. Len(nd)
  BY <1>1
<1>3. /\ nd2 \in Seq(Nat) /\ Len(nd2) = l + 1 /\ nd2[l + 1] = k
      /\ \A i \in 1 .. l : nd2[i] = nd[i]
  BY <1>1, PoppedNodes
<1>4. /\ Len(T2) = k /\ T2[k] = node
      /\ \A i \in 1 .. Len(T) : T2[i] = T[i]
  BY <1>1, GrowOne
<1>5. node.first = RootEnd(nd, l) + 1
  OBVIOUS
<1>k. k = Len(T) + 1
  OBVIOUS
<1> HIDE DEF l, k, nd2
<1>6. ASSUME NEW i \in 0 .. l PROVE RootEnd(nd2, i) = RootEnd(nd, i)
  <2>1. i = 0 \/ i \in 1 .. l
    BY <1>2
  <2> QED BY <1>3, <2>1 DEF RootEnd
<1>7. RootEnd(nd2, Len(nd2)) = k
  <2>1. l + 1 # 0
    BY <1>2
  <2> QED BY <1>3, <2>1 DEF RootEnd
<1>8. ASSUME NEW i \in 1 .. Len(nd2)
      PROVE  nd2[i] \in 1 .. Len(T2) /\ T2[nd2[i]].first = RootEnd(nd2, i - 1) + 1
  <2>1. i \in 1 .. l + 1 /\ i - 1 \in 0 .. l
    BY <1>2, <1>3
  <2>2. RootEnd(nd2, i - 1) = RootEnd(nd, i - 1)
    BY <1>6, <2>1
  <2>3. CASE i \in 1 .. l
    <3>1. i \in 1 .. Len(nd)
      BY <1>1, <1>2, <2>3
    <3>2. nd[i] \in 1 .. Len(T) /\ T[nd[i]].first = RootEnd(nd, i - 1) + 1
      BY <3>1 DEF Roots
    <3>3. nd[i] \in 1 .. Len(T2) /\ T2[nd[i]] = T[nd[i]]
      BY <1>1, <1>4, <1>k, <3>2
    <3> QED BY <1>3, <2>2, <2>3, <3>2, <3>3
  <2>4. CASE i = l + 1
    <3>1. i - 1 = l /\ nd2[i] = k /\ k \in 1 .. Len(T2)
      BY <1>1, <1>2, <1>3, <1>4, <1>k, <2>4
    <3> QED BY <1>4, <1>5, <2>2, <3>1
  <2> QED BY <1>2, <2>1, <2>3, <2>4
<1>9. Roots(T2, nd2, k)
  BY <1>3, <1>7, <1>8 DEF Roots
<1> QED BY <1>9 DEF nd2, k

\* A token is a tree of its own.
TokenNode(T, t) ==
    [sym |-> t, rule |-> NoRule, kids |-> << >>, first |-> Len(T) + 1,
     to |-> NextToken(T, Len(T)) + 1]

LEMMA TokenGrown ==
    ASSUME NEW T, NEW tokens, Grown(T, tokens), NextToken(T, Len(T)) \in 1 .. Len(tokens),
           NEW node, node = TokenNode(T, tokens[NextToken(T, Len(T))])
    PROVE  node \in TreeNode /\ Grown(Grow(T, node), tokens)
<1>1. T \in Seq(TreeNode) /\ Len(T) \in Nat /\ tokens \in Seq(Terminal)
  BY DEF Grown
<1>2. NextToken(T, Len(T)) \in Nat /\ tokens[NextToken(T, Len(T))] \in Terminal
  BY <1>1
<1>3. node \in TreeNode
  <2>1. << >> \in Seq(Nat)
    OBVIOUS
  <2> QED BY <1>1, <1>2, <2>1 DEF TokenNode, TreeNode
<1> DEFINE T2 == Grow(T, node)
           k == Len(T) + 1
<1>k. k = Len(T) + 1 /\ T2 = Grow(T, node)
  OBVIOUS
<1> HIDE DEF T2, k
<1>4. /\ T2[k] = node /\ (IsToken(T2, tokens, k) => Grown(T2, tokens))
      /\ \A i \in 0 .. Len(T) : NextToken(T2, i) = NextToken(T, i)
  <2>1. T2[k] = node /\ (IsToken(T2, tokens, k) => Grown(T2, tokens))
    BY <1>3, <1>k, GrowOne
  <2>2. \A i \in 0 .. Len(T) : NextToken(T2, i) = NextToken(T, i)
    BY <1>3, <1>k, GrowOne
  <2> QED BY <1>k, <2>1, <2>2
<1>5. k - 1 = Len(T) /\ Len(T) \in 0 .. Len(T)
  BY <1>1, <1>k
<1>6. /\ node.sym = tokens[NextToken(T, Len(T))] /\ node.rule = NoRule /\ node.first = k
      /\ node.to = NextToken(T, Len(T)) + 1
  BY <1>k DEF TokenNode
<1>7. NextToken(T2, k - 1) = NextToken(T, Len(T))
  BY <1>4, <1>5
<1>8. NextToken(T, Len(T)) \in DOMAIN tokens
  BY <1>1
<1>9. IsToken(T2, tokens, k)
  BY <1>4, <1>6, <1>7, <1>8 DEF IsToken
<1> QED BY <1>3, <1>4, <1>9 DEF T2

\* The topmost roots become the children of a node when they are a right-hand side.
RuleNode(T, nd, r) ==
    [sym |-> Rules[r].lhs, rule |-> r,
     kids |-> [j \in 1 .. Len(Rhs(r)) |-> nd[Len(nd) - Len(Rhs(r)) + j]],
     first |-> RootEnd(nd, Len(nd) - Len(Rhs(r))) + 1,
     to |-> NextToken(T, Len(T))]

LEMMA RuleGrown ==
    ASSUME NEW T, NEW tokens, Grown(T, tokens), NEW nd, Roots(T, nd, Len(T)),
           NEW r \in RuleNr, Len(Rhs(r)) <= Len(nd),
           \A j \in 1 .. Len(Rhs(r)) : T[nd[Len(nd) - Len(Rhs(r)) + j]].sym = Rhs(r)[j],
           NEW node, node = RuleNode(T, nd, r)
    PROVE  node \in TreeNode /\ Grown(Grow(T, node), tokens)
<1> DEFINE n == Len(Rhs(r))
           l == Len(nd) - n
           T2 == Grow(T, node)
           k == Len(T) + 1
<1>1. /\ T \in Seq(TreeNode) /\ Len(T) \in Nat
      /\ nd \in Seq(Nat) /\ Len(nd) \in Nat /\ RootEnd(nd, Len(nd)) = Len(T)
      /\ \A i \in 1 .. Len(nd) :
             nd[i] \in 1 .. Len(T) /\ T[nd[i]].first = RootEnd(nd, i - 1) + 1
  BY DEF Grown, Roots
<1>2. n \in Nat /\ Rules[r].lhs \in NonTerminal
  BY SymbolsAssumption DEF Rhs
<1>3. l \in Nat /\ l + n = Len(nd) /\ n <= Len(nd) /\ l \in 0 .. Len(nd)
  BY <1>1, <1>2
<1>4. RootEnd(nd, l) \in Nat
  <2>1. RootEnd(nd, l) \in 0 .. Len(T)
    BY <1>3, RootsOrdered
  <2> QED BY <2>1
<1>5. \A j \in 1 .. n : T[nd[l + j]].sym = Rhs(r)[j]
  OBVIOUS
<1>6. /\ node.sym = Rules[r].lhs /\ node.rule = r
      /\ node.kids = [j \in 1 .. n |-> nd[l + j]]
      /\ node.first = RootEnd(nd, l) + 1 /\ node.to = NextToken(T, Len(T))
  BY DEF RuleNode
<1>n. node = [sym |-> Rules[r].lhs, rule |-> r, kids |-> [j \in 1 .. n |-> nd[l + j]],
              first |-> RootEnd(nd, l) + 1, to |-> NextToken(T, Len(T))]
  BY DEF RuleNode
<1>k. k = Len(T) + 1 /\ k - 1 = Len(T) /\ n = Len(Rhs(r))
  BY <1>1
<1>t. T2 = Grow(T, node)
  OBVIOUS
<1> HIDE DEF n, l, T2, k
<1>7. \A j \in 1 .. n : l + j \in 1 .. Len(nd) /\ l + j - 1 = l + (j - 1) /\ j - 1 \in 0 .. n
  BY <1>2, <1>3
<1>8. node.kids \in Seq(Nat) /\ Len(node.kids) = n /\ \A j \in 1 .. n : node.kids[j] = nd[l + j]
  <2>1. \A j \in 1 .. n : nd[l + j] \in Nat
    BY <1>1, <1>7
  <2>2. [j \in 1 .. n |-> nd[l + j]] \in Seq(Nat) /\ Len([j \in 1 .. n |-> nd[l + j]]) = n
    BY <1>2, <2>1
  <2> QED BY <1>6, <2>2
<1>9. NextToken(T, Len(T)) \in Nat
  <2>1. Len(T) \in 0 .. Len(T) /\ Len(T) <= Len(T)
    BY <1>1
  <2> QED BY <2>1, TokensForward
<1>10. node \in TreeNode
  <2>1. [j \in 1 .. n |-> nd[l + j]] \in Seq(Nat)
    BY <1>6, <1>8
  <2> QED BY <1>2, <1>4, <1>9, <1>n, <2>1 DEF TreeNode
<1>11. /\ T2[k] = node /\ (IsReduction(T2, k) => Grown(T2, tokens))
       /\ \A i \in 1 .. Len(T) : T2[i] = T[i]
       /\ \A i \in 0 .. Len(T) : NextToken(T2, i) = NextToken(T, i)
  <2>1. T2[k] = node /\ (IsReduction(T2, k) => Grown(T2, tokens))
    BY <1>10, <1>k, <1>t, GrowOne
  <2>2. \A i \in 1 .. Len(T) : T2[i] = T[i]
    BY <1>10, <1>t, GrowOne
  <2>3. \A i \in 0 .. Len(T) : NextToken(T2, i) = NextToken(T, i)
    BY <1>10, <1>t, GrowOne
  <2> QED BY <1>k, <2>1, <2>2, <2>3
<1>12. ASSUME NEW d \in 0 .. n PROVE KidsEnd(T2, k, d) = RootEnd(nd, l + d)
  <2>1. CASE d = 0
    <3>1. KidsEnd(T2, k, d) = node.first - 1
      BY <1>11, <2>1 DEF KidsEnd
    <3>2. l + d = l
      BY <1>3, <2>1
    <3> QED BY <1>4, <1>6, <3>1, <3>2
  <2>2. CASE d # 0
    <3>1. d \in 1 .. n /\ l + d # 0
      BY <1>2, <1>3, <2>2
    <3> QED BY <1>8, <1>11, <2>2, <3>1 DEF KidsEnd, RootEnd
  <2> QED BY <2>1, <2>2
<1>13. ASSUME NEW j \in 1 .. n
       PROVE  /\ node.kids[j] \in 1 .. k - 1
              /\ T2[node.kids[j]].sym = Rhs(r)[j]
              /\ T2[node.kids[j]].first = KidsEnd(T2, k, j - 1) + 1
  <2>1. /\ node.kids[j] = nd[l + j] /\ nd[l + j] \in 1 .. Len(T)
        /\ T[nd[l + j]].first = RootEnd(nd, l + (j - 1)) + 1
    <3> DEFINE i == l + j
    <3>0. i = l + j
      OBVIOUS
    <3>1. i \in 1 .. Len(nd) /\ node.kids[j] = nd[i]
      BY <1>7, <1>8
    <3> HIDE DEF i
    <3>2. nd[i] \in 1 .. Len(T) /\ T[nd[i]].first = RootEnd(nd, i - 1) + 1
      BY <1>1, <3>1
    <3>3. i - 1 = l + (j - 1)
      BY <1>2, <1>3, <3>0
    <3>4. T[nd[i]].first = RootEnd(nd, l + (j - 1)) + 1
      BY <3>2, <3>3
    <3> QED BY <3>0, <3>1, <3>2, <3>4
  <2>2. T2[nd[l + j]] = T[nd[l + j]] /\ KidsEnd(T2, k, j - 1) = RootEnd(nd, l + (j - 1))
    BY <1>7, <1>11, <1>12, <2>1
  <2>4. T[nd[l + j]].sym = Rhs(r)[j]
    BY <1>5
  <2>5. T2[node.kids[j]].first = KidsEnd(T2, k, j - 1) + 1
    BY <2>1, <2>2
  <2> QED BY <1>k, <2>1, <2>2, <2>4, <2>5
<1>14. KidsEnd(T2, k, n) = k - 1
  <2>1. n \in 0 .. n
    BY <1>2
  <2> QED BY <1>1, <1>3, <1>12, <1>k, <2>1
<1>15. node.to = NextToken(T2, k - 1)
  <2>1. Len(T) \in 0 .. Len(T)
    BY <1>1
  <2> QED BY <1>6, <1>11, <1>k, <2>1
<1>16. IsReduction(T2, k)
  <2>1. T2[k] = node
    BY <1>11
  <2>2. node.rule = r /\ r \in RuleNr /\ node.sym = Rules[r].lhs /\ Len(node.kids) = n
    BY <1>6, <1>8
  <2>3. KidsEnd(T2, k, n) = k - 1 /\ node.to = NextToken(T2, k - 1) /\ n = Len(Rhs(r))
    BY <1>14, <1>15, <1>k
  <2> HIDE DEF T2
  <2> QED BY <1>13, <2>1, <2>2, <2>3 DEF IsReduction
<1> QED BY <1>10, <1>11, <1>16 DEF T2

\* The nodes on the stack are the roots of trees over what has been shifted.
Built(T, nd) ==
    /\ Grown(T, input)
    /\ Roots(T, nd, Len(T))
    /\ Len(nd) = Len(symbols)
    /\ \A i \in 1 .. Len(symbols) : T[nd[i]].sym = symbols[i].sym
    /\ NextToken(T, Len(T)) = Read

AInv == IInv /\ \E T \in Seq(TreeNode), nd \in Seq(Nat) : Built(T, nd)

\* A node on the stack and the root of its tree come and go together.
LEMMA BuiltPush ==
    ASSUME NEW T, NEW nd, Built(T, nd), symbols \in Seq(Node),
           NEW n \in 0 .. Len(symbols), NEW node \in TreeNode, Grown(Grow(T, node), input'),
           node.first = RootEnd(nd, Len(nd) - n) + 1,
           NEW top \in Node, top.sym = node.sym,
           symbols' = Append(SubSeq(symbols, 1, Len(symbols) - n), top),
           Read' = node.to
    PROVE  \E U \in Seq(TreeNode), od \in Seq(Nat) : Built(U, od)'
<1> DEFINE l == Len(symbols) - n
           k == Len(T) + 1
           U == Grow(T, node)
           od == Popped(nd, n, k)
           ns == SubSeq(symbols, 1, l)
<1>1. /\ Grown(T, input) /\ Roots(T, nd, Len(T)) /\ Len(nd) = Len(symbols)
      /\ \A i \in 1 .. Len(symbols) : T[nd[i]].sym = symbols[i].sym
      /\ T \in Seq(TreeNode) /\ Len(T) \in Nat
      /\ nd \in Seq(Nat) /\ Len(nd) \in Nat
  BY DEF Built, Roots, Grown
<1>2. k \in Nat /\ k = Len(T) + 1 /\ U = Grow(T, node) /\ l = Len(nd) - n /\ l \in Nat /\ l <= Len(symbols)
  BY <1>1
<1>3. n \in 0 .. Len(nd)
  BY <1>1
<1>4. Roots(U, od, k)
  BY <1>1, <1>3, RootsPush
<1>5. /\ od \in Seq(Nat) /\ Len(od) = l + 1 /\ od[l + 1] = k
      /\ \A i \in 1 .. l : od[i] = nd[i]
  <2>1. /\ Popped(nd, n, k) \in Seq(Nat) /\ Len(Popped(nd, n, k)) = Len(nd) - n + 1
        /\ Popped(nd, n, k)[Len(nd) - n + 1] = k
        /\ \A i \in 1 .. Len(nd) - n : Popped(nd, n, k)[i] = nd[i]
    <3> HIDE DEF k, l
    <3> QED BY <1>1, <1>2, <1>3, PoppedNodes
  <2> QED BY <1>1, <2>1
<1>6. /\ Len(symbols') = l + 1 /\ symbols'[l + 1] = top
      /\ \A i \in 1 .. l : symbols'[i] = symbols[i]
  <2>1. ns \in Seq(Node) /\ Len(ns) = l /\ \A i \in 1 .. l : ns[i] = symbols[i]
    BY <1>1, <1>2
  <2>2. symbols' = Append(ns, top)
    OBVIOUS
  <2> HIDE DEF ns, l
  <2> QED BY <2>1, <2>2
<1>u. Grown(U, input')
  OBVIOUS
<1> HIDE DEF l, k, U, od, ns
<1>7. /\ U \in Seq(TreeNode) /\ Len(U) = k /\ U[k] = node
      /\ \A i \in 1 .. Len(T) : U[i] = T[i]
  <2>1. /\ Grow(T, node) \in Seq(TreeNode) /\ Len(Grow(T, node)) = Len(T) + 1
        /\ Grow(T, node)[Len(T) + 1] = node
        /\ \A i \in 1 .. Len(T) : Grow(T, node)[i] = T[i]
    BY <1>1, GrowSeq
  <2> QED BY <1>2, <2>1
<1>8. ASSUME NEW i \in 1 .. Len(symbols') PROVE U[od[i]].sym = symbols'[i].sym
  <2>1. i \in 1 .. l \/ i = l + 1
    BY <1>2, <1>6
  <2>2. CASE i \in 1 .. l
    <3>1. i \in 1 .. Len(symbols) /\ i \in 1 .. Len(nd)
      BY <1>1, <1>2, <2>2
    <3>2. nd[i] \in 1 .. Len(T)
      BY <1>1, <3>1 DEF Roots
    <3>3. U[nd[i]] = T[nd[i]]
      BY <1>7, <3>2
    <3>4. od[i] = nd[i] /\ symbols'[i] = symbols[i]
      BY <1>5, <1>6, <2>2
    <3>5. T[nd[i]].sym = symbols[i].sym
      BY <1>1, <3>1
    <3> QED BY <3>3, <3>4, <3>5
  <2>3. CASE i = l + 1
    BY <1>5, <1>6, <1>7, <2>3
  <2> QED BY <2>1, <2>2, <2>3
<1>9. NextToken(U, Len(U)) = Read'
  <2>1. k # 0
    BY <1>1, <1>2
  <2> QED BY <1>7, <2>1 DEF NextToken
<1>10. Built(U, od)'
  BY <1>4, <1>5, <1>6, <1>7, <1>8, <1>9, <1>u DEF Built
<1> QED BY <1>5, <1>7, <1>10

LEMMA BuiltShift ==
    ASSUME IInv, Shift, NEW T, NEW nd, Built(T, nd)
    PROVE  \E U \in Seq(TreeNode), od \in Seq(Nat) : Built(U, od)'
<1> DEFINE node == TokenNode(T, input[NextToken(T, Len(T))])
           top == [sym |-> curtok, rule |-> NoRule, from |-> inputidx, to |-> inputidx + 1]
<1>1. /\ result = "none" /\ input' = input
      /\ symbols' = Append(symbols, top)
      /\ \/ inputidx = Len(input) /\ result' = "underflow" /\ inputidx' = inputidx
         \/ inputidx # Len(input) /\ result' = "none" /\ inputidx' = inputidx + 1
  BY DEF Shift
<1>2. /\ curtok \in Terminal /\ inputidx \in Nat /\ inputidx \in 1 .. Len(input)
      /\ symbols \in Seq(Node) /\ Len(symbols) \in Nat
  BY Lookup DEF IInv, ParserTypeOK
<1>3. NextToken(T, Len(T)) = inputidx /\ Grown(T, input)
  BY <1>1 DEF Built, Read
<1>4. node \in TreeNode /\ Grown(Grow(T, node), input)
  BY <1>2, <1>3, TokenGrown
<1>5. top \in Node /\ top.sym = curtok
  BY <1>2 DEF Node
<1>6. node.sym = curtok /\ node.first = Len(T) + 1 /\ node.to = inputidx + 1
  BY <1>3 DEF TokenNode, curtok
<1> HIDE DEF node, top
<1>7. 0 \in 0 .. Len(symbols) /\ symbols' = Append(SubSeq(symbols, 1, Len(symbols) - 0), top)
  <2>1. SubSeq(symbols, 1, Len(symbols)) = symbols /\ Len(symbols) - 0 = Len(symbols)
    BY <1>2
  <2> QED BY <1>1, <1>2, <2>1
<1>8. node.first = RootEnd(nd, Len(nd) - 0) + 1
  <2>1. RootEnd(nd, Len(nd)) = Len(T) /\ Len(nd) \in Nat
    BY DEF Built, Roots
  <2>2. Len(nd) - 0 = Len(nd)
    BY <2>1
  <2> QED BY <1>6, <2>1, <2>2
<1>9. Read' = inputidx + 1
  BY <1>1 DEF Read
<1> QED BY <1>1, <1>2, <1>4, <1>5, <1>6, <1>7, <1>8, <1>9, BuiltPush

LEMMA BuiltReduce ==
    ASSUME IInv, Reduce, NEW T, NEW nd, Built(T, nd)
    PROVE  \E U \in Seq(TreeNode), od \in Seq(Nat) : Built(U, od)'
<1> DEFINE node == RuleNode(T, nd, newrule)
<1>1. /\ newrule \in RuleNr /\ NumArgs = Len(Rhs(newrule)) /\ NumArgs \in 0 .. Len(symbols)
      /\ \A j \in 1 .. NumArgs : symbols[Len(symbols) - NumArgs + j].sym = Rhs(newrule)[j]
      /\ NewNode \in Node /\ NewNode.sym = Rules[newrule].lhs
      /\ symbols' = Append(SubSeq(symbols, 1, Len(symbols) - NumArgs), NewNode)
      /\ result = "none" /\ result' = "none"
      /\ UNCHANGED <<input, inputidx>>
  BY ReduceStep
<1>2. symbols \in Seq(Node) /\ Len(symbols) \in Nat
  BY DEF IInv, ParserTypeOK
<1>3. /\ Grown(T, input) /\ Roots(T, nd, Len(T)) /\ Len(nd) = Len(symbols)
      /\ \A i \in 1 .. Len(symbols) : T[nd[i]].sym = symbols[i].sym
      /\ NextToken(T, Len(T)) = inputidx
  BY <1>1 DEF Built, Read
<1>4. ASSUME NEW j \in 1 .. Len(Rhs(newrule))
      PROVE  T[nd[Len(nd) - Len(Rhs(newrule)) + j]].sym = Rhs(newrule)[j]
  <2> DEFINE i == Len(symbols) - NumArgs + j
  <2>1. i \in 1 .. Len(symbols) /\ i = Len(nd) - Len(Rhs(newrule)) + j
    BY <1>1, <1>2, <1>3
  <2>2. symbols[i].sym = Rhs(newrule)[j]
    BY <1>1
  <2> HIDE DEF i
  <2>3. T[nd[i]].sym = symbols[i].sym
    BY <1>3, <2>1
  <2> QED BY <2>1, <2>2, <2>3
<1>5. Len(Rhs(newrule)) <= Len(nd)
  BY <1>1, <1>2, <1>3
<1>6. node \in TreeNode /\ Grown(Grow(T, node), input)
  <2>1. node = RuleNode(T, nd, newrule)
    OBVIOUS
  <2> HIDE DEF node
  <2> QED BY <1>1, <1>3, <1>4, <1>5, <2>1, RuleGrown
<1>7. /\ node.sym = Rules[newrule].lhs /\ node.to = inputidx
      /\ node.first = RootEnd(nd, Len(nd) - NumArgs) + 1
  BY <1>1, <1>3 DEF RuleNode
<1> HIDE DEF node
<1>8. Read' = inputidx /\ Grown(Grow(T, node), input')
  BY <1>1, <1>6 DEF Read
<1> QED BY <1>1, <1>2, <1>6, <1>7, <1>8, BuiltPush

LEMMA BuiltInit == ParserInit => Built(<<>>, <<>>)
<1> SUFFICES ASSUME ParserInit PROVE Built(<<>>, <<>>)
  OBVIOUS
<1>1. input \in Seq(Terminal) /\ inputidx = 1 /\ symbols = <<>> /\ result = "none"
  BY InputsAssumption DEF ParserInit
<1> DEFINE T == << >>
<1>2. T \in Seq(TreeNode) /\ T \in Seq(Nat) /\ Len(T) = 0
  OBVIOUS
<1> HIDE DEF T
<1>3. Grown(T, input)
  BY <1>1, <1>2 DEF Grown, IsForest
<1>4. Roots(T, T, Len(T)) /\ NextToken(T, Len(T)) = 1
  BY <1>2 DEF Roots, RootEnd, NextToken
<1>5. Len(symbols) = 0
  BY <1>1
<1>6. Built(T, T)
  BY <1>1, <1>2, <1>3, <1>4, <1>5 DEF Built, Read
<1> QED BY <1>6 DEF T

LEMMA BuiltStep == AInv /\ [ParserNext]_vars => AInv'
<1> SUFFICES ASSUME AInv, [ParserNext]_vars PROVE AInv'
  OBVIOUS
<1>1. IInv /\ IInv'
  BY StepInv DEF AInv
<1>2. PICK T \in Seq(TreeNode), nd \in Seq(Nat) : Built(T, nd)
  BY DEF AInv
<1>3. ASSUME UNCHANGED <<input, symbols, inputidx>>, Read' = Read PROVE Built(T, nd)'
  <2>1. Grown(T, input) /\ Roots(T, nd, Len(T)) /\ Len(nd) = Len(symbols)
        /\ (\A i \in 1 .. Len(symbols) : T[nd[i]].sym = symbols[i].sym)
        /\ NextToken(T, Len(T)) = Read
    BY <1>2 DEF Built
  <2>2. Grown(T, input')
    BY <1>3, <2>1
  <2> QED BY <1>3, <2>1, <2>2 DEF Built
<1>4. CASE Throw \/ Accept
  <2>1. /\ UNCHANGED <<input, symbols, inputidx>>
        /\ result = "none" /\ result' \in {"error", "conflict", "accept"}
    BY <1>4 DEF Throw, Accept
  <2>2. Read' = Read
    BY <2>1 DEF Read
  <2> QED BY <1>1, <1>2, <1>3, <2>1, <2>2 DEF AInv
<1>5. CASE Shift
  BY <1>1, <1>2, <1>5, BuiltShift DEF AInv
<1>6. CASE Reduce
  BY <1>1, <1>2, <1>6, BuiltReduce DEF AInv
<1>7. CASE Done \/ UNCHANGED vars
  <2>1. UNCHANGED <<input, symbols, inputidx>> /\ Read' = Read
    BY <1>7 DEF Done, vars, Read
  <2> QED BY <1>1, <1>2, <1>3, <2>1 DEF AInv
<1> QED BY <1>4, <1>5, <1>6, <1>7 DEF ParserNext

\* What Parse accepts is a sentence of the grammar: it is what the trees of the
\* reductions made of it, with the start rule on top.
THEOREM AcceptsOnlySentences ==
    ParserSafeSpec => [](result = "accept" => IsSentence(SubSeq(input, 1, inputidx)))
<1>1. ParserInit => AInv
  <2>1. << >> \in Seq(TreeNode) /\ << >> \in Seq(Nat)
    OBVIOUS
  <2> QED BY <2>1, InitInv, BuiltInit DEF AInv
<1>2. AInv /\ AcceptedWhole => (result = "accept" => IsSentence(SubSeq(input, 1, inputidx)))
  <2> SUFFICES ASSUME AInv, AcceptedWhole, result = "accept"
               PROVE  IsSentence(SubSeq(input, 1, inputidx))
    OBVIOUS
  <2>1. curtok = END /\ Len(symbols) = 1 /\ symbols[1].sym = Rhs(0)[1]
    BY DEF AcceptedWhole
  <2>2. /\ input \in Seq(Terminal) /\ Len(input) \in Nat /\ inputidx \in 1 .. Len(input)
        /\ inputidx \in Nat
    BY Lookup DEF AInv, IInv, ParserTypeOK
  <2>3. PICK T \in Seq(TreeNode), nd \in Seq(Nat) : Built(T, nd)
    BY DEF AInv
  <2>4. /\ Grown(T, input) /\ Roots(T, nd, Len(T)) /\ Len(nd) = 1
        /\ T[nd[1]].sym = Rhs(0)[1] /\ NextToken(T, Len(T)) = inputidx
    BY <2>1, <2>3 DEF Built, Read
  <2> DEFINE node == RuleNode(T, nd, 0)
             U == Grow(T, node)
             tokens == SubSeq(input, 1, inputidx)
  <2>5. 0 \in RuleNr /\ Len(Rhs(0)) = 1
    BY SymbolsAssumption
  <2>6. \A j \in 1 .. Len(Rhs(0)) : T[nd[Len(nd) - Len(Rhs(0)) + j]].sym = Rhs(0)[j]
    <3> SUFFICES ASSUME NEW j \in 1 .. Len(Rhs(0))
                 PROVE  T[nd[Len(nd) - Len(Rhs(0)) + j]].sym = Rhs(0)[j]
      OBVIOUS
    <3>0. Len(Rhs(0)) = 1 /\ Len(nd) = 1 /\ j \in 1 .. 1
      BY <2>4, <2>5
    <3>1. j = 1
      BY <3>0
    <3>2. Len(nd) - Len(Rhs(0)) + j = 1
      <4> DEFINE x == Len(nd)
                 y == Len(Rhs(0))
      <4>1. x = 1 /\ y = 1
        BY <3>0
      <4> HIDE DEF x, y
      <4>2. x - y + j = 1
        BY <3>1, <4>1
      <4> QED BY <4>2 DEF x, y
    <3> QED BY <2>4, <3>1, <3>2
  <2>7. node \in TreeNode /\ Grown(U, input)
    <3>1. node = RuleNode(T, nd, 0) /\ U = Grow(T, node)
      OBVIOUS
    <3> HIDE DEF node, U
    <3>2. Len(Rhs(0)) <= Len(nd)
      <4>1. Len(Rhs(0)) = 1 /\ Len(nd) = 1
        BY <2>4, <2>5
      <4> QED BY <4>1
    <3> QED BY <2>4, <2>5, <2>6, <3>1, <3>2, RuleGrown
  <2>8. node.rule = 0 /\ node.first = 1 /\ node.to = inputidx
    <3>1. RootEnd(nd, Len(nd) - Len(Rhs(0))) = 0
      BY <2>4, <2>5 DEF RootEnd
    <3> QED BY <2>4, <3>1 DEF RuleNode
  <2>9. tokens \in Seq(Terminal) /\ Len(tokens) = inputidx /\ \A i \in 1 .. inputidx : tokens[i] = input[i]
    BY <2>2
  <2>10. tokens[Len(tokens)] = END
    BY <2>1, <2>2, <2>9 DEF curtok
  <2>u. U = Grow(T, node)
    OBVIOUS
  <2> HIDE DEF node, U, tokens
  <2> DEFINE k == Len(T) + 1
  <2>11. U \in Seq(TreeNode) /\ Len(U) = k /\ U[k] = node /\ k \in Nat /\ k # 0
    <3>1. k = Len(T) + 1 /\ k \in Nat /\ k # 0
      OBVIOUS
    <3> HIDE DEF k
    <3>2. /\ Grow(T, node) \in Seq(TreeNode) /\ Len(Grow(T, node)) = Len(T) + 1
          /\ Grow(T, node)[Len(T) + 1] = node
      BY <2>7, GrowSeq
    <3> QED BY <2>u, <3>1, <3>2
  <2> HIDE DEF k
  <2>12. ASSUME NEW m \in 1 .. Len(U), IsToken(U, input, m) PROVE IsToken(U, tokens, m)
    <3>1. /\ NextToken(U, m - 1) \in DOMAIN input
          /\ U[m].sym = input[NextToken(U, m - 1)] /\ U[m].to = NextToken(U, m - 1) + 1
          /\ U[m].rule = NoRule /\ U[m].first = m
      BY <2>12 DEF IsToken
    <3>2. m \in 0 .. Len(U) /\ Len(U) \in 0 .. Len(U) /\ m <= Len(U) /\ m # 0
      BY <2>11
    <3>3. NextToken(U, m) <= NextToken(U, Len(U))
      BY <2>7, <3>2, TokensForward
    <3>4. NextToken(U, m) = NextToken(U, m - 1) + 1 /\ NextToken(U, Len(U)) = inputidx
      BY <2>8, <2>11, <3>1, <3>2 DEF NextToken
    <3>5. NextToken(U, m - 1) \in 1 .. inputidx
      BY <2>2, <3>1, <3>3, <3>4
    <3>6. NextToken(U, m - 1) \in DOMAIN tokens /\ tokens[NextToken(U, m - 1)] = input[NextToken(U, m - 1)]
      BY <2>9, <3>5
    <3> QED BY <3>1, <3>6 DEF IsToken
  <2>13. IsForest(U, tokens)
    BY <2>7, <2>12 DEF Grown, IsForest
  <2>14. U # <<>>
    BY <2>11
  <2>15. IsTree(U, tokens)
    BY <2>8, <2>9, <2>10, <2>11, <2>13, <2>14 DEF IsTree
  <2> QED BY <2>11, <2>15 DEF IsSentence, tokens
<1> QED BY <1>1, <1>2, BuiltStep, AcceptsWhole, PTL DEF ParserSafeSpec
=============================================================================
