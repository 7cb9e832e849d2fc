---------------------------- MODULE Tables_proofs ----------------------------
(***************************************************************************)
(* Proofs about Tables, for every grammar and every setup: the tables that   *)
(* are returned are fit for the parser, who loses an entry was told of the   *)
(* conflict, and tables made without one are complete.                      *)
(***************************************************************************)
EXTENDS Tables, Collection_proofs

-----------------------------------------------------------------------------
\* Lemmas about the greatest and the least of a set of places.
LEMMA GreatestPlace ==
    ASSUME NEW S \in SUBSET Nat, IsFiniteSet(S), S # {}
    PROVE  Max(S) \in S
<1> DEFINE f == [y \in S |-> y]
           n == Cardinality(S)
<1>1. n \in Nat /\ n # 0
  BY FS_CardinalityType, FS_EmptySet
<1>2. n \in 1 .. n
  BY <1>1
<1>3. f \in [S -> Nat] /\ \A y, z \in S : f[y] = f[z] => y = z
  OBVIOUS
<1>4. \A y \in S : Rank(S, f, y) = Cardinality({j \in S : j < y})
  BY PlaceRank
<1> HIDE DEF f
<1>5. PICK x \in S : Rank(S, f, x) = n - 1
  BY <1>2, <1>3, RankOnto
<1> DEFINE B == {j \in S : j < x}
<1>6. Cardinality(B) = n - 1
  BY <1>4, <1>5
<1>7. IsFiniteSet(S \ {x}) /\ Cardinality(S \ {x}) = n - 1
  BY FS_RemoveElement
<1>8. B \subseteq S \ {x}
  OBVIOUS
<1>9. B = S \ {x}
  BY <1>6, <1>7, <1>8, FS_Subset
<1>10. \A y \in S : x >= y
  <2> TAKE y \in S
  <2>1. y = x \/ y \in B
    BY <1>9
  <2>2. y \in Nat /\ x \in Nat
    OBVIOUS
  <2> QED
    BY <2>1, <2>2
<1> QED
  BY <1>10 DEF Max

LEMMA LeastIn ==
    ASSUME NEW S \in SUBSET Nat, IsFiniteSet(S), S # {}
    PROVE  Min(S) \in S
<1>1. PICK x \in S : \A y \in S : x <= y
  BY LeastPlace
<1> QED
  BY <1>1 DEF Min

-----------------------------------------------------------------------------
\* Between the call and its end, the tables are those of the collection, less
\* the entries that the solutions have taken away.
CellsLeft ==
    /\ \A s \in States, t \in Terminal :
           /\ action_shift[s][t] \in {Target(s, t), ERROR_VAL}
           /\ action_reduce[s][t] \in {Reduction(s, t), ERROR_VAL}
           /\ setup.stopOnConflicts /\ step # "thrown" =>
                  \/ action_shift[s][t] = ERROR_VAL \/ action_reduce[s][t] = ERROR_VAL
                  \/ <<s, t>> \in cells
    /\ cells \subseteq {c \in States \X Terminal : Target(c[1], c[2]) # ERROR_VAL
                                                /\ Reduction(c[1], c[2]) # ERROR_VAL}

TabInv ==
    /\ step # "none" =>
           /\ Generated /\ setup \in Setups
           /\ DOMAIN action_shift = States /\ DOMAIN action_reduce = States
           /\ \A s \in States : DOMAIN action_shift[s] = Terminal /\ DOMAIN action_reduce[s] = Terminal
           /\ jump = [s \in States |-> [N \in NonTerminal |-> Target(s, N)]]
           /\ numRhsSymsPerRule = [r \in FinishedRules |-> NumSymbols(r)]
           /\ CellsLeft
    /\ step = "returned" => cells = {}

LEMMA TabInit ==
    ASSUME TablesInit
    PROVE  TabInv
BY DEF TablesInit, TabInv

\* What the tables are made from does not change once the collection is there.
LEMMA SameTables ==
    ASSUME UNCHANGED collvars
    PROVE  /\ States' = States /\ FinishedRules' = FinishedRules /\ Generated' = Generated
           /\ \A s, X : Target(s, X)' = Target(s, X)
           /\ \A s, t : Reduction(s, t)' = Reduction(s, t)
           /\ \A s, t : Finishing(s, t)' = Finishing(s, t)
           /\ reported' = reported
<1>1. UNCHANGED <<start, mode, phase, g_id, lr, frames, closure_map, coll, reported>>
  BY DEF collvars
<1>2. Result' = Result
  BY <1>1 DEF Result
<1>3. Closures' = Closures /\ States' = States /\ \A s : ClosureAt(s)' = ClosureAt(s)
  BY <1>2 DEF Closures, States, ClosureAt
<1>4. FinishedRules' = FinishedRules
  BY <1>3 DEF FinishedRules
<1>5. \A s, X : Target(s, X)' = Target(s, X)
  BY <1>2 DEF Target
<1>6. \A s, t : Finishing(s, t)' = Finishing(s, t)
  BY <1>3 DEF Finishing
<1>7. \A s, t : Reduction(s, t)' = Reduction(s, t)
  BY <1>1, <1>3, <1>6 DEF Reduction
<1> QED
  BY <1>1, <1>3, <1>4, <1>5, <1>6, <1>7 DEF Generated

LEMMA FillKeeps ==
    ASSUME TabInv, FillTables
    PROVE  TabInv'
<1>1. /\ Generated /\ UNCHANGED collvars /\ setup' \in Setups /\ step' = "cells"
      /\ action_shift' = [s \in States |-> [t \in Terminal |-> Target(s, t)]]
      /\ jump' = [s \in States |-> [N \in NonTerminal |-> Target(s, N)]]
      /\ action_reduce' = [s \in States |-> [t \in Terminal |-> Reduction(s, t)]]
      /\ numRhsSymsPerRule' = [r \in FinishedRules |-> NumSymbols(r)]
      /\ cells' = {c \in States \X Terminal :
                      action_shift'[c[1]][c[2]] # ERROR_VAL /\ action_reduce'[c[1]][c[2]] # ERROR_VAL}
  BY DEF FillTables
<1>2. /\ States' = States /\ FinishedRules' = FinishedRules /\ Generated'
      /\ \A s, X : Target(s, X)' = Target(s, X)
      /\ \A s, t : Reduction(s, t)' = Reduction(s, t)
  BY <1>1, SameTables
<1>3. /\ DOMAIN action_shift' = States /\ DOMAIN action_reduce' = States
      /\ \A s \in States : DOMAIN action_shift'[s] = Terminal /\ DOMAIN action_reduce'[s] = Terminal
      /\ \A s \in States, t \in Terminal :
             action_shift'[s][t] = Target(s, t) /\ action_reduce'[s][t] = Reduction(s, t)
  BY <1>1
<1>4. cells' = {c \in States \X Terminal : Target(c[1], c[2]) # ERROR_VAL
                                        /\ Reduction(c[1], c[2]) # ERROR_VAL}
  <2>1. \A c \in States \X Terminal :
            action_shift'[c[1]][c[2]] = Target(c[1], c[2]) /\ action_reduce'[c[1]][c[2]] = Reduction(c[1], c[2])
    BY <1>3
  <2> QED
    BY <1>1, <2>1
<1>5. CellsLeft'
  <2>1. ASSUME NEW s \in States, NEW t \in Terminal
        PROVE  \/ action_shift'[s][t] = ERROR_VAL \/ action_reduce'[s][t] = ERROR_VAL
               \/ <<s, t>> \in cells'
    BY <1>3, <1>4
  <2> QED
    BY <1>2, <1>3, <1>4, <2>1 DEF CellsLeft
<1>6. /\ jump' = [s \in States' |-> [N \in NonTerminal |-> Target(s, N)']]
      /\ numRhsSymsPerRule' = [r \in FinishedRules' |-> NumSymbols(r)]
  <2>1. \A s \in States : [N \in NonTerminal |-> Target(s, N)] = [N \in NonTerminal |-> Target(s, N)']
    BY <1>2
  <2> QED
    BY <1>1, <1>2, <2>1
<1> QED
  BY <1>1, <1>2, <1>3, <1>5, <1>6 DEF TabInv

\* A solution that is found takes one of the two entries away.
LEMMA FoundType ==
    ASSUME setup \in Setups, NEW c
    PROVE  Found(c) \subseteq {"FORCE_SHIFT", "FORCE_REDUCE"}
<1>1. Listing(c[1], c[2]) \in Solution
  <2> DEFINE fitting == {k \in DOMAIN setup.conflictsol : Fits(setup.conflictsol[k], c[1], c[2])}
  <2>1. setup.conflictsol \in Seq([back : Terminal \cup NonTerminal, ahead : Terminal, sol : Solution])
    BY TablesAssumption DEF Setup
  <2> DEFINE T == [back : Terminal \cup NonTerminal, ahead : Terminal, sol : Solution]
  <2>2. fitting \in SUBSET DOMAIN setup.conflictsol
    OBVIOUS
  <2>3. \A k \in DOMAIN setup.conflictsol : setup.conflictsol[k].sol \in Solution
    <3>1. setup.conflictsol \in Seq(T)
      BY <2>1
    <3>2. \A e \in T : e.sol \in Solution
      OBVIOUS
    <3> HIDE DEF T
    <3>3. \A k \in DOMAIN setup.conflictsol : setup.conflictsol[k] \in T
      BY <3>1
    <3> QED
      BY <3>2, <3>3
  <2>4. Listing(c[1], c[2]) = IF fitting = {} THEN "NONE" ELSE setup.conflictsol[Min(fitting)].sol
    BY DEF Listing
  <2> HIDE DEF fitting
  <2>5. fitting # {} => Min(fitting) \in fitting
    <3>1. setup.conflictsol \in Seq(T)
      BY <2>1
    <3> HIDE DEF T
    <3>2. fitting \in SUBSET Nat /\ IsFiniteSet(fitting)
      BY <2>2, <3>1, PlacesFinite
    <3> QED
      BY <3>2, LeastIn
  <2> QED
    BY <2>2, <2>3, <2>4, <2>5 DEF Solution
<1>2. \A back, t : /\ ByPrecedence(back, t) \in Solution
                   /\ ByAssociativity(back, t) \in Solution
  BY DEF ByPrecedence, ByAssociativity, Solution
<1>3. \A listed, s, t : ByOperators(listed, s, t) \in Solution
  BY <1>2 DEF ByOperators, Solution
<1> QED
  BY <1>1, <1>3 DEF Found, Solution

LEMMA ResolveKeeps ==
    ASSUME TabInv, ResolveCell
    PROVE  TabInv'
<1>1. /\ step = "cells" /\ UNCHANGED collvars /\ UNCHANGED <<setup, jump, numRhsSymsPerRule>>
      /\ \E c \in cells :
             /\ cells' = cells \ {c}
             /\ action_reduce' = IF "FORCE_SHIFT" \in Found(c)
                                 THEN [action_reduce EXCEPT ![c[1]][c[2]] = ERROR_VAL] ELSE action_reduce
             /\ action_shift' = IF "FORCE_REDUCE" \in Found(c)
                                THEN [action_shift EXCEPT ![c[1]][c[2]] = ERROR_VAL] ELSE action_shift
             /\ step' = IF Found(c) = {} /\ setup.stopOnConflicts THEN "thrown" ELSE step
  BY DEF ResolveCell
<1>2. /\ Generated /\ setup \in Setups
      /\ DOMAIN action_shift = States /\ DOMAIN action_reduce = States
      /\ \A s \in States : DOMAIN action_shift[s] = Terminal /\ DOMAIN action_reduce[s] = Terminal
      /\ jump = [s \in States |-> [N \in NonTerminal |-> Target(s, N)]]
      /\ numRhsSymsPerRule = [r \in FinishedRules |-> NumSymbols(r)]
      /\ CellsLeft
  BY <1>1 DEF TabInv
<1>3. /\ States' = States /\ FinishedRules' = FinishedRules /\ Generated'
      /\ \A s, X : Target(s, X)' = Target(s, X)
      /\ \A s, t : Reduction(s, t)' = Reduction(s, t)
  BY <1>1, <1>2, SameTables
<1>4. PICK c \in cells :
          /\ cells' = cells \ {c}
          /\ action_reduce' = IF "FORCE_SHIFT" \in Found(c)
                              THEN [action_reduce EXCEPT ![c[1]][c[2]] = ERROR_VAL] ELSE action_reduce
          /\ action_shift' = IF "FORCE_REDUCE" \in Found(c)
                             THEN [action_shift EXCEPT ![c[1]][c[2]] = ERROR_VAL] ELSE action_shift
          /\ step' = IF Found(c) = {} /\ setup.stopOnConflicts THEN "thrown" ELSE step
  BY <1>1
<1>5. c[1] \in States /\ c[2] \in Terminal /\ c = <<c[1], c[2]>>
  BY <1>2, <1>4 DEF CellsLeft
<1>6. ASSUME NEW table, DOMAIN table = States, \A s \in States : DOMAIN table[s] = Terminal,
             NEW new, new = [table EXCEPT ![c[1]][c[2]] = ERROR_VAL]
      PROVE  /\ DOMAIN new = States /\ \A s \in States : DOMAIN new[s] = Terminal
             /\ new[c[1]][c[2]] = ERROR_VAL
             /\ \A s \in States, t \in Terminal : new[s][t] \in {table[s][t], ERROR_VAL}
  BY <1>5, <1>6
<1>7. /\ DOMAIN action_reduce' = States /\ \A s \in States : DOMAIN action_reduce'[s] = Terminal
      /\ "FORCE_SHIFT" \in Found(c) => action_reduce'[c[1]][c[2]] = ERROR_VAL
      /\ \A s \in States, t \in Terminal : action_reduce'[s][t] \in {action_reduce[s][t], ERROR_VAL}
  BY <1>2, <1>4, <1>6
<1>8. /\ DOMAIN action_shift' = States /\ \A s \in States : DOMAIN action_shift'[s] = Terminal
      /\ "FORCE_REDUCE" \in Found(c) => action_shift'[c[1]][c[2]] = ERROR_VAL
      /\ \A s \in States, t \in Terminal : action_shift'[s][t] \in {action_shift[s][t], ERROR_VAL}
  BY <1>2, <1>4, <1>6
<1>9. ASSUME NEW s \in States, NEW t \in Terminal, setup.stopOnConflicts, step' # "thrown"
      PROVE  \/ action_shift'[s][t] = ERROR_VAL \/ action_reduce'[s][t] = ERROR_VAL
             \/ <<s, t>> \in cells'
  <2>1. \/ action_shift[s][t] = ERROR_VAL \/ action_reduce[s][t] = ERROR_VAL
        \/ <<s, t>> \in cells
    BY <1>1, <1>2, <1>9 DEF CellsLeft
  <2>2. CASE <<s, t>> = c
    <3>1. Found(c) # {}
      BY <1>4, <1>9
    <3>2. "FORCE_SHIFT" \in Found(c) \/ "FORCE_REDUCE" \in Found(c)
      BY <1>2, <3>1, FoundType
    <3>3. c[1] = s /\ c[2] = t
      BY <2>2
    <3> QED
      BY <1>7, <1>8, <3>2, <3>3
  <2>3. CASE <<s, t>> # c
    BY <1>4, <1>7, <1>8, <2>1, <2>3
  <2> QED
    BY <2>2, <2>3
<1>10. CellsLeft'
  <2>1. \A s \in States, t \in Terminal :
            /\ action_shift'[s][t] \in {Target(s, t), ERROR_VAL}
            /\ action_reduce'[s][t] \in {Reduction(s, t), ERROR_VAL}
    BY <1>2, <1>7, <1>8 DEF CellsLeft
  <2>2. cells' \subseteq {d \in States \X Terminal : Target(d[1], d[2]) # ERROR_VAL
                                                  /\ Reduction(d[1], d[2]) # ERROR_VAL}
    BY <1>2, <1>4 DEF CellsLeft
  <2> QED
    BY <1>1, <1>3, <1>9, <2>1, <2>2 DEF CellsLeft
<1>11. /\ jump' = [s \in States' |-> [N \in NonTerminal |-> Target(s, N)']]
       /\ numRhsSymsPerRule' = [r \in FinishedRules' |-> NumSymbols(r)]
  <2>1. \A s \in States : [N \in NonTerminal |-> Target(s, N)] = [N \in NonTerminal |-> Target(s, N)']
    BY <1>3
  <2> QED
    BY <1>1, <1>2, <1>3, <2>1
<1>12. step' # "returned"
  BY <1>1, <1>4
<1> QED
  BY <1>1, <1>2, <1>3, <1>7, <1>8, <1>10, <1>11, <1>12 DEF TabInv

LEMMA TabStep ==
    ASSUME TabInv, [TablesNext]_<<collvars, tabvars>>
    PROVE  TabInv'
<1>1. CASE Generate /\ UNCHANGED tabvars
  <2>1. phase # "done"
    BY <1>1 DEF Generate, NewClosure, OldClosure, Return, TransitionsDone, ConvertClosure, ConversionDone
  <2>2. step = "none"
    BY <2>1 DEF TabInv, Generated
  <2>3. step' = "none"
    BY <1>1, <2>2 DEF tabvars
  <2> QED
    BY <2>3 DEF TabInv
<1>2. CASE FillTables
  BY <1>2, FillKeeps
<1>3. CASE ResolveCell
  BY <1>3, ResolveKeeps
<1>4. ASSUME UNCHANGED <<collvars, setup, jump, action_shift, action_reduce, numRhsSymsPerRule, cells>>,
             \/ step = "cells" /\ step' = "returned" /\ cells = {}
             \/ step' = step
      PROVE  TabInv'
  <2>1. /\ States' = States /\ FinishedRules' = FinishedRules /\ Generated' = Generated
        /\ \A s, X : Target(s, X)' = Target(s, X)
        /\ \A s, t : Reduction(s, t)' = Reduction(s, t)
    BY <1>4, SameTables
  <2>2. CASE step = "none"
    BY <1>4, <2>2 DEF TabInv
  <2>3. CASE step # "none"
    <3>1. /\ Generated /\ setup \in Setups
          /\ DOMAIN action_shift = States /\ DOMAIN action_reduce = States
          /\ \A s \in States : DOMAIN action_shift[s] = Terminal /\ DOMAIN action_reduce[s] = Terminal
          /\ jump = [s \in States |-> [N \in NonTerminal |-> Target(s, N)]]
          /\ numRhsSymsPerRule = [r \in FinishedRules |-> NumSymbols(r)]
          /\ CellsLeft
      BY <2>3 DEF TabInv
    <3>2. CellsLeft'
      <4>1. step # "thrown" \/ step' = "thrown"
        BY <1>4
      <4> QED
        BY <1>4, <2>1, <3>1, <4>1 DEF CellsLeft
    <3>3. jump' = [s \in States' |-> [N \in NonTerminal |-> Target(s, N)']]
      <4>1. \A s \in States : [N \in NonTerminal |-> Target(s, N)] = [N \in NonTerminal |-> Target(s, N)']
        BY <2>1
      <4> QED
        BY <1>4, <2>1, <3>1, <4>1
    <3>4. step' = "returned" => cells' = {}
      BY <1>4 DEF TabInv
    <3>5. /\ Generated' /\ setup' \in Setups
          /\ DOMAIN action_shift' = States' /\ DOMAIN action_reduce' = States'
          /\ \A s \in States' : DOMAIN action_shift'[s] = Terminal /\ DOMAIN action_reduce'[s] = Terminal
          /\ numRhsSymsPerRule' = [r \in FinishedRules' |-> NumSymbols(r)]
      BY <1>4, <2>1, <3>1
    <3> QED
      BY <3>2, <3>3, <3>4, <3>5 DEF TabInv
  <2> QED
    BY <2>2, <2>3
<1>5. CASE ReturnTables
  BY <1>4, <1>5 DEF ReturnTables
<1>6. CASE TablesDone \/ UNCHANGED <<collvars, tabvars>>
  BY <1>4, <1>6 DEF TablesDone, tabvars
<1> QED
  BY <1>1, <1>2, <1>3, <1>5, <1>6 DEF TablesNext

-----------------------------------------------------------------------------
\* Lemmas about the states and their entries.
LEMMA StateFacts ==
    ASSUME CollInv, Generated
    PROVE  /\ States \subseteq Nat /\ DOMAIN Closures = 1 .. Len(Closures) /\ Len(Closures) \in Nat
           /\ \A s \in States :
                  /\ Closures[s + 1] \in DOMAIN Result.closures
                  /\ Closures[s + 1] \in Range(Result.m_collection)
                  /\ ClosureAt(s).id = s /\ ClosureAt(s).elems \in Seq(Element)
                  /\ UniqueCores(ClosureAt(s).elems) /\ ElementsSound(start, ClosureAt(s).elems)
           /\ \A o \in DOMAIN Result.closures :
                  /\ Result.closures[o].id \in States /\ Result.closures[o].id \in Nat
                  /\ ClosureAt(Result.closures[o].id) = Result.closures[o]
           /\ 0 \in DOMAIN Result.closures /\ Result.closures[0].id = 0
<1>1. IsCollection(Result) /\ Numbered(Result) /\ ClosuresSound(start, Result)
  BY DEF CollInv, ResultInv
<1>2. /\ Closures \in Seq(Nat) /\ Closures # <<>>
      /\ Closures = Result.m_collection
      /\ Range(Result.m_collection) = DOMAIN Result.closures
      /\ \A k \in DOMAIN Closures : Result.closures[Closures[k]].id = k - 1
      /\ Closures[1] = 0
  BY <1>1 DEF IsCollection, Numbered, Closures
<1>3. DOMAIN Closures = 1 .. Len(Closures) /\ Len(Closures) \in Nat /\ Len(Closures) > 0
  <2>1. DOMAIN Closures = 1 .. Len(Closures) /\ Len(Closures) \in Nat
    BY <1>2
  <2>2. Len(Closures) # 0
    BY <1>2, EmptySeq
  <2> QED
    BY <2>1, <2>2
<1>4. \A o \in DOMAIN Result.closures :
          /\ Result.closures[o] \in ClosureObject /\ UniqueCores(Result.closures[o].elems)
          /\ ElementsSound(start, Result.closures[o].elems)
          /\ Result.closures[o].elems \in Seq(Element)
  BY <1>1 DEF IsCollection, ClosuresSound, ClosureObject
<1>5. ASSUME NEW s \in States
      PROVE  /\ Closures[s + 1] \in DOMAIN Result.closures
             /\ Closures[s + 1] \in Range(Result.m_collection)
             /\ ClosureAt(s) = Result.closures[Closures[s + 1]]
             /\ ClosureAt(s).id = s
  <2>1. s \in Nat /\ s + 1 \in DOMAIN Closures
    BY <1>3 DEF States
  <2>2. Closures[s + 1] \in Range(Closures)
    BY <2>1 DEF Range
  <2>3. Result.closures[Closures[s + 1]].id = s + 1 - 1
    BY <1>2, <2>1
  <2> QED
    BY <1>2, <2>1, <2>2, <2>3 DEF ClosureAt
<1>6. ASSUME NEW o \in DOMAIN Result.closures
      PROVE  /\ Result.closures[o].id \in States /\ Result.closures[o].id \in Nat
             /\ ClosureAt(Result.closures[o].id) = Result.closures[o]
  <2>1. PICK k \in DOMAIN Closures : Closures[k] = o
    BY <1>2 DEF Range
  <2>2. Result.closures[o].id = k - 1 /\ k \in 1 .. Len(Closures)
    BY <1>2, <1>3, <2>1
  <2>3. k - 1 \in States /\ k - 1 \in Nat /\ k - 1 + 1 = k
    BY <1>3, <2>2 DEF States
  <2> QED
    BY <2>1, <2>2, <2>3 DEF ClosureAt
<1>7. 0 \in DOMAIN Result.closures /\ Result.closures[0].id = 0
  <2>1. 1 \in DOMAIN Closures
    BY <1>3
  <2>2. Result.closures[Closures[1]].id = 1 - 1
    BY <1>2, <2>1
  <2>3. Closures[1] \in Range(Closures)
    BY <2>1 DEF Range
  <2> QED
    BY <1>2, <2>2, <2>3
<1>8. States \subseteq Nat
  BY <1>3 DEF States
<1> QED
  BY <1>3, <1>4, <1>5, <1>6, <1>7, <1>8

\* An entry is that of a transition.
LEMMA TargetFacts ==
    ASSUME CollInv, Generated, NEW s \in States, NEW X
    PROVE  /\ Target(s, X) # ERROR_VAL =>
                  \E t \in Result.m_transitions :
                      /\ t[1] \in DOMAIN Result.closures /\ t[2] \in DOMAIN Result.closures
                      /\ Result.closures[t[1]] = ClosureAt(s) /\ t[3] = X
                      /\ Target(s, X) = Result.closures[t[2]].id
           /\ (\E t \in Result.m_transitions : Result.closures[t[1]].id = s /\ t[3] = X) =>
                  Target(s, X) # ERROR_VAL
<1> DEFINE to == {t[2] : t \in {u \in Result.m_transitions :
                                    Result.closures[u[1]].id = s /\ u[3] = X}}
<1>1. Target(s, X) = IF to = {} THEN ERROR_VAL ELSE Result.closures[CHOOSE o \in to : TRUE].id
  BY DEF Target
<1>2. IsCollection(Result)
  BY DEF CollInv, ResultInv
<1>3. \A t \in Result.m_transitions : t[1] \in DOMAIN Result.closures /\ t[2] \in DOMAIN Result.closures
  BY <1>2 DEF IsCollection
<1>4. \A o : o \in to <=> \E t \in Result.m_transitions :
                              Result.closures[t[1]].id = s /\ t[3] = X /\ o = t[2]
  OBVIOUS
<1> HIDE DEF to
<1>5. ASSUME Target(s, X) # ERROR_VAL
      PROVE  \E t \in Result.m_transitions :
                 /\ t[1] \in DOMAIN Result.closures /\ t[2] \in DOMAIN Result.closures
                 /\ Result.closures[t[1]] = ClosureAt(s) /\ t[3] = X
                 /\ Target(s, X) = Result.closures[t[2]].id
  <2>1. PICK o \in to : Target(s, X) = Result.closures[o].id
    BY <1>1, <1>5
  <2>2. PICK t \in Result.m_transitions : Result.closures[t[1]].id = s /\ t[3] = X /\ o = t[2]
    BY <1>4, <2>1
  <2>3. ClosureAt(s) = Result.closures[t[1]]
    BY <1>3, <2>2, StateFacts
  <2> QED
    BY <1>3, <2>1, <2>2, <2>3
<1>6. ASSUME NEW t \in Result.m_transitions, Result.closures[t[1]].id = s /\ t[3] = X
      PROVE  Target(s, X) # ERROR_VAL
  <2>1. t[2] \in to
    BY <1>4, <1>6
  <2>2. (CHOOSE o \in to : TRUE) \in to
    BY <2>1
  <2>3. (CHOOSE o \in to : TRUE) \in DOMAIN Result.closures
    BY <1>3, <1>4, <2>2
  <2>4. Target(s, X) = Result.closures[CHOOSE o \in to : TRUE].id
    BY <1>1, <2>1
  <2>5. Result.closures[CHOOSE o \in to : TRUE].id \in Nat
    BY <2>3, StateFacts
  <2> QED
    BY <2>4, <2>5, TablesAssumption
<1> QED
  BY <1>5, <1>6

LEMMA ReductionFacts ==
    ASSUME CollInv, Generated, NEW s \in States, NEW la, Reduction(s, la) # ERROR_VAL
    PROVE  \E i \in Finishing(s, la) :
               LET core == ClosureAt(s).elems[i].core
               IN  Reduction(s, la) = IF core[1] = start THEN ACCEPT_VAL ELSE core[1]
<1>1. ClosureAt(s).elems \in Seq(Element)
  BY StateFacts
<1> DEFINE end == Finishing(s, la)
<1>2. end \in SUBSET DOMAIN ClosureAt(s).elems
  BY DEF Finishing
<1>3. Reduction(s, la) =
          IF end = {} THEN ERROR_VAL
          ELSE IF ClosureAt(s).elems[Max(end)].core[1] = start THEN ACCEPT_VAL
               ELSE ClosureAt(s).elems[Max(end)].core[1]
  BY DEF Reduction
<1> HIDE DEF end
<1>4. end \in SUBSET Nat /\ IsFiniteSet(end)
  BY <1>1, <1>2, PlacesFinite
<1>5. end # {} => Max(end) \in end
  BY <1>4, GreatestPlace
<1>6. end # {}
  BY <1>3
<1> QED
  BY <1>3, <1>5, <1>6 DEF end

-----------------------------------------------------------------------------
\* Who loses an entry has been told.
LEMMA ManyFinishing ==
    ASSUME CollInv, Generated, NEW s \in States, NEW t \in Terminal,
           Cardinality(Finishing(s, t)) > 1
    PROVE  "reduce/reduce" \in reported
<1> DEFINE end == Finishing(s, t)
           elems == ClosureAt(s).elems
           o == Closures[s + 1]
<1>1. elems \in Seq(Element) /\ o \in Range(Result.m_collection) /\ elems = Result.closures[o].elems
  BY StateFacts DEF ClosureAt
<1>2. end \in SUBSET DOMAIN elems
      /\ \A i \in end : IsCursorAtEnd(elems[i].core) /\ t \in Range(elems[i].las)
  BY DEF Finishing
<1>3. IsFiniteSet(end)
  <2> HIDE DEF end, elems
  <2> QED
    BY <1>1, <1>2, PlacesFinite
<1>4. PICK i, j \in end : i # j
  <2>1. end # {}
    BY FS_EmptySet
  <2>2. PICK i \in end : TRUE
    BY <2>1
  <2>3. end # {i}
    BY FS_Singleton
  <2> QED
    BY <2>2, <2>3
<1>5. t \in Range(elems[i].las) \cap Range(elems[j].las)
  BY <1>2, <1>4
<1>6. HasReduceReduceConflict(Result)
  <2>1. \A k \in end : k \in {m \in DOMAIN Result.closures[o].elems :
                                  IsCursorAtEnd(Result.closures[o].elems[m].core)}
    BY <1>1, <1>2
  <2> QED
    BY <1>1, <1>4, <1>5, <2>1 DEF HasReduceReduceConflict
<1>7. Conflicts(Result) \subseteq reported
  BY DEF CollInv, ResultInv
<1> QED
  BY <1>6, <1>7 DEF Conflicts

LEMMA CellConflict ==
    ASSUME CollInv, Generated, NEW s \in States, NEW la \in Terminal,
           Target(s, la) # ERROR_VAL, Reduction(s, la) # ERROR_VAL
    PROVE  "shift/reduce" \in reported
<1> DEFINE elems == ClosureAt(s).elems
           o == Closures[s + 1]
           reduce == UNION {Range(elems[i].las) :
                               i \in {k \in DOMAIN elems : IsCursorAtEnd(elems[k].core)}}
<1>1. o \in Range(Result.m_collection) /\ elems = Result.closures[o].elems
  BY StateFacts DEF ClosureAt
<1>2. PICK t \in Result.m_transitions :
          Result.closures[t[1]] = ClosureAt(s) /\ t[3] = la
  BY TargetFacts
<1>3. PICK i \in Finishing(s, la) : TRUE
  BY ReductionFacts
<1>4. la \in reduce
  BY <1>3 DEF Finishing
<1>5. hash(Result.closures[t[1]].elems, FALSE) = hash(Result.closures[o].elems, FALSE)
  BY <1>1, <1>2
<1>6. HasShiftReduceConflict(Result)
  BY <1>1, <1>2, <1>4, <1>5 DEF HasShiftReduceConflict
<1>7. Conflicts(Result) \subseteq reported
  BY DEF CollInv, ResultInv
<1> QED
  BY <1>6, <1>7 DEF Conflicts

LEMMA Reporting ==
    ASSUME CollInv, TabInv
    PROVE  ConflictsReported
<1> SUFFICES ASSUME step # "none"
             PROVE  /\ (\E s \in States, t \in Terminal : Cardinality(Finishing(s, t)) > 1)
                           => "reduce/reduce" \in reported
                    /\ cells # {} => "shift/reduce" \in reported
  BY DEF ConflictsReported
<1>1. Generated /\ CellsLeft
  BY DEF TabInv
<1>2. (\E s \in States, t \in Terminal : Cardinality(Finishing(s, t)) > 1)
          => "reduce/reduce" \in reported
  BY <1>1, ManyFinishing
<1>3. ASSUME cells # {}
      PROVE  "shift/reduce" \in reported
  <2>1. PICK c \in cells : TRUE
    BY <1>3
  <2>2. /\ c[1] \in States /\ c[2] \in Terminal
        /\ Target(c[1], c[2]) # ERROR_VAL /\ Reduction(c[1], c[2]) # ERROR_VAL
    BY <1>1, <2>1 DEF CellsLeft
  <2> QED
    BY <1>1, <2>2, CellConflict
<1> QED
  BY <1>2, <1>3

-----------------------------------------------------------------------------
\* A handle that has been read has as many symbols as the rule, without epsilon.
LEMMA FinishedLength ==
    ASSUME NEW core \in Core, IsCursorAtEnd(core),
           core[2] > 0 => GetRhs(core)[core[2]] # g_eps
    PROVE  core[2] = NumSymbols(core[1])
<1> DEFINE rhs == GetRhs(core)
           n == core[2]
           read == {i \in DOMAIN rhs : rhs[i] # g_eps}
<1>1. rhs \in Seq(Symbol \cup {g_eps}) /\ n \in Nat /\ n <= Len(rhs) /\ core[1] \in RuleNr
  BY CoreType
<1>2. DOMAIN rhs = 1 .. Len(rhs) /\ Len(rhs) \in Nat
  BY <1>1
<1>3. NumSymbols(core[1]) = Cardinality(read)
  BY DEF NumSymbols, GetRhs
<1>4. \A i \in n + 1 .. Len(rhs) : rhs[i] = g_eps
  BY DEF IsCursorAtEnd
<1>5. \A i \in DOMAIN rhs : rhs[i] = g_eps => Len(rhs) = 1
  BY <1>1, EpsilonAssumption DEF GetRhs, Range
<1>6. CASE \E i \in DOMAIN rhs : rhs[i] = g_eps
  <2>1. Len(rhs) = 1 /\ rhs[1] = g_eps
    BY <1>2, <1>5, <1>6
  <2>2. n = 0
    <3>1. n = 0 \/ n = 1
      BY <1>1, <2>1
    <3> QED
      BY <2>1, <3>1
  <2>3. read = {}
    BY <1>2, <2>1
  <2> QED
    BY <1>3, <2>2, <2>3, FS_EmptySet
<1>7. CASE \A i \in DOMAIN rhs : rhs[i] # g_eps
  <2>1. n = Len(rhs)
    <3> SUFFICES ASSUME n < Len(rhs) PROVE FALSE
      BY <1>1, <1>2
    <3>1. n + 1 \in n + 1 .. Len(rhs) /\ n + 1 \in DOMAIN rhs
      BY <1>1, <1>2
    <3> QED
      BY <1>4, <1>7, <3>1
  <2>2. read = 1 .. Len(rhs)
    BY <1>2, <1>7
  <2>3. Cardinality(1 .. Len(rhs)) = Len(rhs)
    <3>1. 1 \in Int /\ Len(rhs) \in Int
      BY <1>2
    <3>2. Cardinality(1 .. Len(rhs)) = IF 1 > Len(rhs) THEN 0 ELSE Len(rhs) - 1 + 1
      BY <3>1, FS_Interval
    <3> QED
      BY <1>2, <3>2
  <2> QED
    BY <1>3, <2>1, <2>2, <2>3
<1> QED
  BY <1>6, <1>7

LEMMA ItemsFacts ==
    ASSUME CollInv, Generated, NEW s \in States
    PROVE  /\ Items(s) = CoresOf(ClosureAt(s).elems) /\ Items(s) \subseteq Core
           /\ \A core \in Items(s) :
                  /\ core[2] = 0 => core = <<start, 0>> \/ OpensRule(Items(s), core)
                  /\ core[2] > 0 => GetRhs(core)[core[2]] # g_eps
           /\ \A la : \A i \in Finishing(s, la) :
                  LET core == ClosureAt(s).elems[i].core
                  IN  /\ core \in Items(s) /\ IsCursorAtEnd(core)
                      /\ core[1] \in RuleNr /\ core = <<core[1], NumSymbols(core[1])>>
                      /\ core[1] = start => la = g_end
<1> DEFINE elems == ClosureAt(s).elems
<1>1. elems \in Seq(Element) /\ ElementsSound(start, elems)
  BY StateFacts
<1>2. Items(s) = CoresOf(elems)
  BY DEF Items, CoresOf
<1>3. Items(s) \subseteq Core
  <2> HIDE DEF elems
  <2> QED
    BY <1>1, <1>2, ElementType
<1>4. \A core \in Items(s) :
          /\ core[2] = 0 => core = <<start, 0>> \/ OpensRule(Items(s), core)
          /\ core[2] > 0 => GetRhs(core)[core[2]] # g_eps
  BY <1>1, <1>2 DEF ElementsSound
<1>5. ASSUME NEW la, NEW i \in Finishing(s, la)
      PROVE  LET core == elems[i].core
             IN  /\ core \in Items(s) /\ IsCursorAtEnd(core)
                 /\ core[1] \in RuleNr /\ core = <<core[1], NumSymbols(core[1])>>
                 /\ core[1] = start => la = g_end
  <2> DEFINE core == elems[i].core
  <2>1. i \in DOMAIN elems /\ IsCursorAtEnd(core) /\ la \in Range(elems[i].las)
    BY DEF Finishing
  <2>2. core \in Items(s)
    BY <2>1 DEF Items
  <2>3. core \in Core /\ (core[2] > 0 => GetRhs(core)[core[2]] # g_eps)
    BY <1>3, <1>4, <2>2
  <2>4. core[1] \in RuleNr /\ core = <<core[1], NumSymbols(core[1])>>
    <3> HIDE DEF core
    <3>1. core[2] = NumSymbols(core[1])
      BY <2>1, <2>3, FinishedLength
    <3>2. core[1] \in RuleNr /\ core = <<core[1], core[2]>>
      BY <2>3, CoreType
    <3> QED
      BY <3>1, <3>2
  <2>5. <<core, la>> \in ItemsOf(elems)
    BY <2>1 DEF ItemsOf
  <2>6. core[1] = start => la = g_end
    BY <1>1, <2>5 DEF ElementsSound
  <2> QED
    BY <2>1, <2>2, <2>4, <2>6
<1> QED
  BY <1>2, <1>3, <1>4, <1>5

\* Shifts and jumps lead to states whose elements come from where they start.
LEMMA EntryFits ==
    ASSUME CollInv, Generated, NEW s \in States, NEW X, Target(s, X) # ERROR_VAL
    PROVE  /\ Target(s, X) # 0
           /\ \A item \in Items(Target(s, X)) : item[2] > 0 =>
                  <<item[1], item[2] - 1>> \in Items(s) /\ GetRhs(item)[item[2]] = X
<1>1. PICK t \in Result.m_transitions :
          /\ t[1] \in DOMAIN Result.closures /\ t[2] \in DOMAIN Result.closures
          /\ Result.closures[t[1]] = ClosureAt(s) /\ t[3] = X
          /\ Target(s, X) = Result.closures[t[2]].id
  BY TargetFacts
<1>2. IsCollection(Result) /\ TransitionsSound(Result) /\ ClosuresSound(start, Result)
  BY DEF CollInv, ResultInv
<1>3. Follows(CoresOf(ClosureAt(s).elems), X, CoresOf(Result.closures[t[2]].elems))
  BY <1>1, <1>2 DEF TransitionsSound
<1>4. Target(s, X) \in States /\ ClosureAt(Target(s, X)) = Result.closures[t[2]]
  BY <1>1, StateFacts
<1>5. /\ Items(Target(s, X)) = CoresOf(Result.closures[t[2]].elems)
      /\ Items(s) = CoresOf(ClosureAt(s).elems)
  BY <1>4, ItemsFacts
<1>6. Target(s, X) # 0
  <2> SUFFICES ASSUME Target(s, X) = 0 PROVE FALSE
    OBVIOUS
  <2>1. 0 \in DOMAIN Result.closures /\ Result.closures[0].id = 0
    BY StateFacts
  <2>2. \A o, p \in DOMAIN Result.closures : Result.closures[o].id = Result.closures[p].id => o = p
    BY <1>2 DEF IsCollection
  <2>3. t[2] = 0
    BY <1>1, <2>1, <2>2
  <2>4. \A core \in CoresOf(Result.closures[t[2]].elems) : core[2] = 0
    BY <1>2, <2>3 DEF ClosuresSound
  <2>5. PICK core \in CoresOf(Result.closures[t[2]].elems) : core[2] > 0
    BY <1>3 DEF Follows
  <2> QED
    BY <2>4, <2>5
<1> QED
  BY <1>3, <1>5, <1>6 DEF Follows

\* The start rule begins in the first state, where nothing has been read.
LEMMA FirstState ==
    ASSUME CollInv, Generated
    PROVE  /\ 0 \in States /\ \A item \in Items(0) : item[2] = 0
           /\ \A s \in States : <<start, 0>> \in Items(s) => s = 0
<1>1. IsCollection(Result) /\ ClosuresSound(start, Result) /\ start \in StartRules
  BY DEF CollInv, ResultInv, LRInv
<1>2. 0 \in DOMAIN Result.closures /\ Result.closures[0].id = 0
  BY StateFacts
<1>3. 0 \in States /\ ClosureAt(0) = Result.closures[0]
  BY <1>2, StateFacts
<1>4. \A item \in Items(0) : item[2] = 0
  <2>1. Items(0) = CoresOf(Result.closures[0].elems)
    BY <1>3, ItemsFacts
  <2> QED
    BY <1>1, <2>1 DEF ClosuresSound
<1>5. ASSUME NEW s \in States, <<start, 0>> \in Items(s), s # 0
      PROVE  FALSE
  <2> DEFINE o == Closures[s + 1]
             item == <<start, 0>>
  <2>1. o \in DOMAIN Result.closures /\ ClosureAt(s) = Result.closures[o] /\ ClosureAt(s).id = s
    BY StateFacts DEF ClosureAt
  <2>2. o # 0
    BY <1>2, <1>5, <2>1
  <2>3. Items(s) = CoresOf(Result.closures[o].elems) /\ Items(s) \subseteq Core
    BY <2>1, ItemsFacts
  <2>4. AllCalledFor(Items(s))
    BY <1>1, <2>1, <2>2, <2>3 DEF ClosuresSound
  <2>5. item \in Items(s) /\ item[1] = start /\ item[2] = 0
    BY <1>5
  <2>6. PICK c \in Items(s) : GetSymbolAtCursor(c) = GetLhs(item)
    BY <2>4, <2>5 DEF AllCalledFor, OpensRule
  <2> QED
    BY <1>1, <2>3, <2>5, <2>6, StartNotCalled
<1> QED
  BY <1>3, <1>4, <1>5

\* Where a rule begins that is not that of the start symbol, there is a jump.
LEMMA JumpThere ==
    ASSUME CollInv, Generated, NEW s \in States, NEW r \in RuleNr \ {start},
           <<r, 0>> \in Items(s)
    PROVE  Rules[r].lhs \in NonTerminal /\ Target(s, Rules[r].lhs) # ERROR_VAL
<1> DEFINE lhs == Rules[r].lhs
           elems == ClosureAt(s).elems
           o == Closures[s + 1]
           item == <<r, 0>>
<1>1. OpensRule(Items(s), item)
  <2>1. item[2] = 0 /\ item # <<start, 0>>
    OBVIOUS
  <2>2. item[2] = 0 => item = <<start, 0>> \/ OpensRule(Items(s), item)
    BY ItemsFacts
  <2> QED
    BY <2>1, <2>2
<1>2. GetLhs(item) = lhs
  BY DEF GetLhs
<1>3. PICK c \in Items(s) : GetSymbolAtCursor(c) = lhs
  BY <1>1, <1>2 DEF OpensRule
<1>4. c \in Core
  BY ItemsFacts
<1>5. lhs \in NonTerminal /\ lhs # NoSymbol
  <2>1. lhs \in NonTerminal
    BY GrammarAssumption
  <2> QED
    BY <2>1, GrammarAssumption DEF NoSymbol
<1>6. GetPossibleTransition(c) = lhs
  BY <1>3, <1>4, NothingSkipped
<1>7. Items(s) = CoresOf(elems)
  BY ItemsFacts
<1>8. lhs \in Syms(elems)
  BY <1>3, <1>5, <1>6, <1>7 DEF Syms
<1>9. o \in DOMAIN Result.closures /\ Result.closures[o] = ClosureAt(s) /\ ClosureAt(s).id = s
  BY StateFacts DEF ClosureAt
<1>10. TransitionsMade(Result)
  BY DEF CollInv, ResultInv
<1>11. PICK t \in Result.m_transitions : t[1] = o /\ t[3] = lhs
  BY <1>8, <1>9, <1>10 DEF TransitionsMade
<1> QED
  BY <1>5, <1>9, <1>11, TargetFacts

\* A reduction is that of an element that is there, with its length.
LEMMA ReductionFits ==
    ASSUME CollInv, Generated, start \in StartRules, NEW s \in States, NEW t \in Terminal,
           NEW r, r = Reduction(s, t)
    PROVE  /\ r # start
           /\ r = ACCEPT_VAL => <<start, 1>> \in Items(s) /\ t = g_end
           /\ r \in RuleNr => <<r, NumSymbols(r)>> \in Items(s) /\ r \in FinishedRules
<1> SUFFICES ASSUME r # ERROR_VAL
             PROVE  /\ r # start
                    /\ r = ACCEPT_VAL => <<start, 1>> \in Items(s) /\ t = g_end
                    /\ r \in RuleNr => <<r, NumSymbols(r)>> \in Items(s) /\ r \in FinishedRules
  BY CollectionAssumption, GrammarAssumption, TablesAssumption
<1>1. PICK i \in Finishing(s, t) :
          r = IF ClosureAt(s).elems[i].core[1] = start THEN ACCEPT_VAL ELSE ClosureAt(s).elems[i].core[1]
  BY ReductionFacts
<1> DEFINE core == ClosureAt(s).elems[i].core
<1>2. /\ core \in Items(s) /\ IsCursorAtEnd(core)
      /\ core[1] \in RuleNr /\ core = <<core[1], NumSymbols(core[1])>>
      /\ core[1] = start => t = g_end
  BY ItemsFacts
<1>3. r = IF core[1] = start THEN ACCEPT_VAL ELSE core[1]
  BY <1>1
<1>4. core[1] \in FinishedRules
  <2>1. i \in DOMAIN ClosureAt(s).elems
    BY DEF Finishing
  <2> QED
    BY <1>2, <2>1 DEF FinishedRules
<1> HIDE DEF core
<1>5. ACCEPT_VAL \notin RuleNr
  BY GrammarAssumption, TablesAssumption
<1>6. ASSUME r = ACCEPT_VAL
      PROVE  <<start, 1>> \in Items(s) /\ t = g_end
  <2>1. core[1] = start
    BY <1>2, <1>3, <1>5, <1>6
  <2>2. NumSymbols(start) = 1
    <3>1. Len(Rules[start].rhs) = 1 /\ g_eps \notin Range(Rules[start].rhs)
      BY StartAssumption
    <3>2. Rules[start].rhs \in Seq(Terminal \cup NonTerminal \cup {g_eps})
      BY <1>2, <2>1, GrammarAssumption
    <3>3. DOMAIN Rules[start].rhs = {1}
      BY <3>1, <3>2
    <3>4. {j \in DOMAIN Rules[start].rhs : Rules[start].rhs[j] # g_eps} = {1}
      BY <3>1, <3>3 DEF Range
    <3> QED
      BY <3>4, FS_Singleton DEF NumSymbols
  <2> QED
    BY <1>2, <2>1, <2>2
<1>7. ASSUME r \in RuleNr
      PROVE  <<r, NumSymbols(r)>> \in Items(s) /\ r \in FinishedRules
  <2>1. core[1] = r
    BY <1>3, <1>5, <1>7
  <2> QED
    BY <1>2, <1>4, <2>1
<1>8. r # start
  BY <1>3, <1>5, CollectionAssumption
<1> QED
  BY <1>6, <1>7, <1>8

\* The end is behind no cursor.
LEMMA EndNotShifted ==
    ASSUME CollInv, Generated, NEW s \in States
    PROVE  Target(s, g_end) = ERROR_VAL
<1> SUFFICES ASSUME Target(s, g_end) # ERROR_VAL PROVE FALSE
  OBVIOUS
<1>1. PICK t \in Result.m_transitions :
          /\ t[1] \in DOMAIN Result.closures /\ t[2] \in DOMAIN Result.closures
          /\ t[3] = g_end /\ Target(s, g_end) = Result.closures[t[2]].id
  BY TargetFacts
<1> DEFINE new == Result.closures[t[2]].elems
<1>2. /\ Follows(CoresOf(Result.closures[t[1]].elems), g_end, CoresOf(new))
      /\ new \in Seq(Element)
  BY <1>1 DEF CollInv, ResultInv, TransitionsSound, IsCollection, ClosureObject
<1>3. PICK core \in CoresOf(new) : core[2] > 0 /\ GetRhs(core)[core[2]] = g_end
  BY <1>2 DEF Follows
<1>4. /\ core[1] \in RuleNr /\ core[2] \in Nat /\ core[2] <= Len(GetRhs(core))
      /\ GetRhs(core) \in Seq(Symbol \cup {g_eps}) /\ GetRhs(core) = Rules[core[1]].rhs
  BY <1>2, <1>3, ElementType, CoreType DEF GetRhs
<1>5. core[2] \in DOMAIN GetRhs(core)
  BY <1>3, <1>4
<1>6. g_end \in Range(Rules[core[1]].rhs)
  BY <1>3, <1>4, <1>5 DEF Range
<1> QED
  BY <1>4, <1>6, EndAssumption

LEMMA Fitting ==
    ASSUME CollInv, TabInv
    PROVE  FitForParser
<1> SUFFICES ASSUME step = "returned", setup.stopOnConflicts
             PROVE  /\ 0 \in States /\ \A item \in Items(0) : item[2] = 0
                    /\ \A s \in States : <<start, 0>> \in Items(s) => s = 0
                    /\ \A s \in States, X \in Terminal \cup NonTerminal :
                           Entry(s, X) # ERROR_VAL =>
                               /\ Entry(s, X) # 0
                               /\ \A item \in Items(Entry(s, X)) : item[2] > 0 =>
                                      <<item[1], item[2] - 1>> \in Items(s) /\ GetRhs(item)[item[2]] = X
                    /\ \A s \in States, r \in RuleNr \ {start} :
                           <<r, 0>> \in Items(s) => jump[s][Rules[r].lhs] # ERROR_VAL
                    /\ \A s \in States, t \in Terminal :
                           LET r == action_reduce[s][t]
                           IN  /\ action_shift[s][t] = ERROR_VAL \/ (r = ERROR_VAL /\ t # g_end)
                               /\ r # start
                               /\ r = ACCEPT_VAL => <<start, 1>> \in Items(s) /\ t = g_end
                               /\ r \in RuleNr => /\ <<r, numRhsSymsPerRule[r]>> \in Items(s)
                                                  /\ numRhsSymsPerRule[r] = NumSymbols(r)
  BY DEF FitForParser
<1>1. /\ Generated
      /\ jump = [s \in States |-> [N \in NonTerminal |-> Target(s, N)]]
      /\ numRhsSymsPerRule = [r \in FinishedRules |-> NumSymbols(r)]
      /\ CellsLeft /\ cells = {} /\ step # "thrown"
  BY DEF TabInv
<1>2. start \in StartRules
  BY DEF CollInv, LRInv
<1>3. ASSUME NEW s \in States, NEW X \in Terminal \cup NonTerminal, Entry(s, X) # ERROR_VAL
      PROVE  /\ Entry(s, X) # 0
             /\ \A item \in Items(Entry(s, X)) : item[2] > 0 =>
                    <<item[1], item[2] - 1>> \in Items(s) /\ GetRhs(item)[item[2]] = X
  <2>1. Entry(s, X) = Target(s, X)
    <3>1. CASE X \in Terminal
      <4>1. Entry(s, X) = action_shift[s][X]
        BY <3>1 DEF Entry
      <4>2. action_shift[s][X] \in {Target(s, X), ERROR_VAL}
        BY <1>1, <3>1 DEF CellsLeft
      <4> QED
        BY <1>3, <4>1, <4>2
    <3>2. CASE X \notin Terminal
      BY <1>1, <3>2 DEF Entry
    <3> QED
      BY <3>1, <3>2
  <2>2. Target(s, X) # ERROR_VAL
    BY <1>3, <2>1
  <2>3. /\ Target(s, X) # 0
        /\ \A item \in Items(Target(s, X)) : item[2] > 0 =>
               <<item[1], item[2] - 1>> \in Items(s) /\ GetRhs(item)[item[2]] = X
    BY <1>1, <2>2, EntryFits
  <2> QED
    BY <2>1, <2>3
<1>4. ASSUME NEW s \in States, NEW r \in RuleNr \ {start}, <<r, 0>> \in Items(s)
      PROVE  jump[s][Rules[r].lhs] # ERROR_VAL
  <2>1. Rules[r].lhs \in NonTerminal /\ Target(s, Rules[r].lhs) # ERROR_VAL
    BY <1>1, <1>4, JumpThere
  <2>2. jump[s][Rules[r].lhs] = Target(s, Rules[r].lhs)
    BY <1>1, <2>1
  <2> QED
    BY <2>1, <2>2
<1>5. ASSUME NEW s \in States, NEW t \in Terminal
      PROVE  LET r == action_reduce[s][t]
             IN  /\ action_shift[s][t] = ERROR_VAL \/ (r = ERROR_VAL /\ t # g_end)
                 /\ r # start
                 /\ r = ACCEPT_VAL => <<start, 1>> \in Items(s) /\ t = g_end
                 /\ r \in RuleNr => /\ <<r, numRhsSymsPerRule[r]>> \in Items(s)
                                    /\ numRhsSymsPerRule[r] = NumSymbols(r)
  <2> DEFINE r == action_reduce[s][t]
  <2>1. action_shift[s][t] = ERROR_VAL \/ (r = ERROR_VAL /\ t # g_end)
    <3>1. action_shift[s][t] = ERROR_VAL \/ r = ERROR_VAL
      BY <1>1 DEF CellsLeft
    <3>2. t = g_end => action_shift[s][t] = ERROR_VAL
      BY <1>1, EndNotShifted DEF CellsLeft
    <3> QED
      BY <3>1, <3>2
  <2>2. r \in {Reduction(s, t), ERROR_VAL}
    BY <1>1 DEF CellsLeft
  <2> HIDE DEF r
  <2>3. ERROR_VAL # ACCEPT_VAL /\ ERROR_VAL \notin RuleNr
    BY GrammarAssumption, TablesAssumption
  <2>4. r = ACCEPT_VAL => <<start, 1>> \in Items(s) /\ t = g_end
    BY <1>1, <1>2, <2>2, <2>3, ReductionFits
  <2>5. r \in RuleNr => <<r, NumSymbols(r)>> \in Items(s) /\ r \in FinishedRules
    BY <1>1, <1>2, <2>2, <2>3, ReductionFits
  <2>6. r \in FinishedRules => numRhsSymsPerRule[r] = NumSymbols(r)
    BY <1>1
  <2>7. r \in RuleNr => /\ <<r, numRhsSymsPerRule[r]>> \in Items(s)
                        /\ numRhsSymsPerRule[r] = NumSymbols(r)
    <3> SUFFICES ASSUME r \in RuleNr
                 PROVE  /\ <<r, numRhsSymsPerRule[r]>> \in Items(s)
                        /\ numRhsSymsPerRule[r] = NumSymbols(r)
      OBVIOUS
    <3>1. <<r, NumSymbols(r)>> \in Items(s) /\ numRhsSymsPerRule[r] = NumSymbols(r)
      BY <2>5, <2>6
    <3> QED
      BY <3>1
  <2>8. r # start
    BY <1>1, <1>2, <2>2, ReductionFits, CollectionAssumption, GrammarAssumption, TablesAssumption
  <2> QED
    BY <2>1, <2>4, <2>7, <2>8 DEF r
<1>6. /\ 0 \in States /\ \A item \in Items(0) : item[2] = 0
      /\ \A s \in States : <<start, 0>> \in Items(s) => s = 0
  BY <1>1, FirstState
<1> QED
  BY <1>3, <1>4, <1>5, <1>6

-----------------------------------------------------------------------------
\* The inductive invariant of the generator and the tables.
THEOREM TablesInvariant ==
    ASSUME LocalClosureCorrect PROVE TablesSpec => [](CollInv /\ TabInv)
<1>1. TablesInit => CollInv /\ TabInv
  BY InitHolds, TabInit DEF TablesInit
<1>2. ASSUME CollInv, TabInv, [TablesNext]_<<collvars, tabvars>>
      PROVE  CollInv' /\ TabInv'
  <2>1. [CollectionNext]_collvars
    BY <1>2 DEF TablesNext, CollectionNext, FillTables, ResolveCell, ReturnTables, TablesDone
  <2> QED
    BY <1>2, <2>1, StepKeeps, TabStep
<1>3. CollInv /\ TabInv /\ [TablesNext]_<<collvars, tabvars>> => (CollInv /\ TabInv)'
  BY <1>2
<1> QED
  BY <1>1, <1>3, PTL DEF TablesSpec

\* The tables that are returned, when conflicts stop the call, are what the
\* parser relies on: for every grammar, every way to a collection and all
\* solutions of conflicts.
THEOREM TablesFit ==
    ASSUME LocalClosureCorrect PROVE TablesSpec => []FitForParser
<1>1. CollInv /\ TabInv => FitForParser
  BY Fitting
<1>2. TablesSpec => [](CollInv /\ TabInv)
  BY TablesInvariant
<1> QED
  BY <1>1, <1>2, PTL

\* No reduction is lost to another and no cell has two entries without a
\* report when the collection was made.
THEOREM ConflictsAreReported ==
    ASSUME LocalClosureCorrect PROVE TablesSpec => []ConflictsReported
<1>1. CollInv /\ TabInv => ConflictsReported
  BY Reporting
<1>2. TablesSpec => [](CollInv /\ TabInv)
  BY TablesInvariant
<1> QED
  BY <1>1, <1>2, PTL

\* What CollectionSpec promises also holds while the tables are made.
THEOREM TablesOverCollection ==
    ASSUME LocalClosureCorrect PROVE TablesSpec => [](NoStaleClosure /\ ComefromsExact)
<1>1. CollInv /\ TabInv => NoStaleClosure /\ ComefromsExact
  BY InvImplies
<1>2. TablesSpec => [](CollInv /\ TabInv)
  BY TablesInvariant
<1> QED
  BY <1>1, <1>2, PTL

-----------------------------------------------------------------------------
(* The tables of a collection without a conflict *)

\* Nobody touches them.
Untouched ==
    reported = {} /\ step # "none" =>
        /\ cells = {}
        /\ \A s \in States, t \in Terminal :
               action_shift[s][t] = Target(s, t) /\ action_reduce[s][t] = Reduction(s, t)

LEMMA FillUntouched ==
    ASSUME CollInv, FillTables
    PROVE  Untouched'
<1>1. /\ Generated /\ UNCHANGED collvars
      /\ action_shift' = [s \in States |-> [t \in Terminal |-> Target(s, t)]]
      /\ action_reduce' = [s \in States |-> [t \in Terminal |-> Reduction(s, t)]]
      /\ cells' = {c \in States \X Terminal :
                      action_shift'[c[1]][c[2]] # ERROR_VAL /\ action_reduce'[c[1]][c[2]] # ERROR_VAL}
  BY DEF FillTables
<1>2. /\ States' = States /\ reported' = reported
      /\ \A s, X : Target(s, X)' = Target(s, X)
      /\ \A s, t : Reduction(s, t)' = Reduction(s, t)
  BY <1>1, SameTables
<1>3. \A s \in States, t \in Terminal :
          action_shift'[s][t] = Target(s, t) /\ action_reduce'[s][t] = Reduction(s, t)
  BY <1>1
<1>4. ASSUME reported = {}, NEW c \in cells' PROVE FALSE
  <2>1. /\ c[1] \in States /\ c[2] \in Terminal
        /\ action_shift'[c[1]][c[2]] # ERROR_VAL /\ action_reduce'[c[1]][c[2]] # ERROR_VAL
    BY <1>1
  <2>2. Target(c[1], c[2]) # ERROR_VAL /\ Reduction(c[1], c[2]) # ERROR_VAL
    BY <1>3, <2>1
  <2>3. "shift/reduce" \in reported
    BY <1>1, <2>1, <2>2, CellConflict
  <2> QED
    BY <1>4, <2>3
<1> QED
  BY <1>2, <1>3, <1>4 DEF Untouched

LEMMA UntouchedStays ==
    ASSUME CollInv, TabInv, Untouched, [TablesNext]_<<collvars, tabvars>>
    PROVE  Untouched'
<1>1. CASE Generate /\ UNCHANGED tabvars
  <2>1. phase # "done"
    BY <1>1 DEF Generate, NewClosure, OldClosure, Return, TransitionsDone, ConvertClosure, ConversionDone
  <2>2. step = "none"
    BY <2>1 DEF TabInv, Generated
  <2>3. step' = "none"
    BY <1>1, <2>2 DEF tabvars
  <2> QED
    BY <2>3 DEF Untouched
<1>2. CASE FillTables
  BY <1>2, FillUntouched
<1>3. CASE ResolveCell
  <2>1. step # "none" /\ cells # {} /\ UNCHANGED collvars
    BY <1>3 DEF ResolveCell
  <2>2. reported # {} /\ reported' = reported
    BY <2>1, SameTables DEF Untouched
  <2> QED
    BY <2>2 DEF Untouched
<1>4. ASSUME UNCHANGED <<collvars, action_shift, action_reduce, cells>>,
             step = "none" => step' = "none"
      PROVE  Untouched'
  <2>1. /\ States' = States /\ reported' = reported
        /\ \A s, X : Target(s, X)' = Target(s, X)
        /\ \A s, t : Reduction(s, t)' = Reduction(s, t)
    BY <1>4, SameTables
  <2> QED
    BY <1>4, <2>1 DEF Untouched
<1>5. CASE ReturnTables
  BY <1>4, <1>5 DEF ReturnTables
<1>6. CASE TablesDone \/ UNCHANGED <<collvars, tabvars>>
  BY <1>4, <1>6 DEF TablesDone, tabvars
<1> QED
  BY <1>1, <1>2, <1>3, <1>5, <1>6 DEF TablesNext

\* The entry for the next symbol leads to where the item is carried on.
LEMMA EntryCarries ==
    ASSUME CollInv, Generated, NothingLost(Result), NEW s \in States, NEW x \in ItemsAt(s),
           NEW X, X = GetPossibleTransition(x[1]), X # NoSymbol
    PROVE  /\ X \in Symbol /\ Target(s, X) # ERROR_VAL
           /\ <<AdvanceCursor(x[1]), x[2]>> \in ItemsAt(Target(s, X))
<1> DEFINE o == Closures[s + 1]
           elems == ClosureAt(s).elems
           y == <<AdvanceCursor(x[1]), x[2]>>
<1>1. /\ o \in DOMAIN Result.closures /\ Result.closures[o] = ClosureAt(s) /\ ClosureAt(s).id = s
      /\ elems \in Seq(Element)
  BY StateFacts DEF ClosureAt
<1>2. x \in ItemsOf(elems)
  BY DEF ItemsAt
<1> HIDE DEF o, elems
<1>3. x[1] \in CoresOf(elems)
  BY <1>1, <1>2, ElementType
<1>4. X \in Syms(elems)
  BY <1>3 DEF Syms
<1>5. TransitionsMade(Result) /\ IsCollection(Result)
  BY DEF CollInv, ResultInv
<1>6. PICK u \in Result.m_transitions : u[1] = o /\ u[3] = X
  <2>1. Result.closures[o].elems = elems
    BY <1>1 DEF elems
  <2>2. \A sym \in Syms(Result.closures[o].elems) :
            \E t \in Result.m_transitions : t[1] = o /\ t[3] = sym
    BY <1>1, <1>5 DEF TransitionsMade
  <2> QED
    BY <1>4, <2>1, <2>2
<1>7. Target(s, X) # ERROR_VAL
  BY <1>1, <1>6, TargetFacts
<1>8. PICK t \in Result.m_transitions :
          /\ t[1] \in DOMAIN Result.closures /\ t[2] \in DOMAIN Result.closures
          /\ Result.closures[t[1]] = ClosureAt(s) /\ t[3] = X
          /\ Target(s, X) = Result.closures[t[2]].id
  BY <1>7, TargetFacts
<1>9. X \in Symbol
  BY <1>5, <1>8 DEF IsCollection
<1>10. x \in ItemsOf(Result.closures[t[1]].elems)
  BY <1>2, <1>8 DEF elems
<1>11. y \in ItemsOf(Result.closures[t[2]].elems)
  BY <1>8, <1>10 DEF NothingLost
<1>12. ClosureAt(Target(s, X)) = Result.closures[t[2]]
  BY <1>8, StateFacts
<1> QED
  BY <1>7, <1>9, <1>11, <1>12 DEF ItemsAt

\* A finished item is the only one with its look-ahead.
LEMMA ReducesFinished ==
    ASSUME CollInv, Generated, reported = {}, NEW s \in States, NEW x \in ItemsAt(s),
           IsCursorAtEnd(x[1])
    PROVE  /\ x[2] \in Terminal
           /\ Reduction(s, x[2]) = IF x[1][1] = start THEN ACCEPT_VAL ELSE x[1][1]
<1> DEFINE elems == ClosureAt(s).elems
           la == x[2]
           end == Finishing(s, la)
<1>1. elems \in Seq(Element)
  BY StateFacts
<1>2. x \in ItemsOf(elems)
  BY DEF ItemsAt
<1>3. /\ end \in SUBSET DOMAIN elems
      /\ \A i \in DOMAIN elems : i \in end <=> IsCursorAtEnd(elems[i].core) /\ la \in Range(elems[i].las)
      /\ Reduction(s, la) =
             IF end = {} THEN ERROR_VAL
             ELSE IF elems[Max(end)].core[1] = start THEN ACCEPT_VAL ELSE elems[Max(end)].core[1]
  BY DEF Finishing, Reduction
<1> HIDE DEF elems
<1>a. PICK i \in DOMAIN elems : \E l \in Range(elems[i].las) : x = <<elems[i].core, l>>
  BY <1>2, ItemPlace
<1>4. x[1] = elems[i].core /\ la \in Range(elems[i].las) /\ la \in Terminal
  BY <1>1, <1>2, <1>a, ElementType
<1>5. i \in end
  BY <1>3, <1>4
<1>6. ~(Cardinality(end) > 1)
  BY <1>4, ManyFinishing
<1> HIDE DEF end
<1>7. end \in SUBSET Nat /\ IsFiniteSet(end)
  BY <1>1, <1>3, PlacesFinite
<1>8. Max(end) \in end
  BY <1>5, <1>7, GreatestPlace
<1>9. Max(end) = i
  <2> SUFFICES ASSUME Max(end) # i PROVE FALSE
    OBVIOUS
  <2> DEFINE j == Max(end)
             one == end \ {i}
  <2>1. j \in one
    BY <1>8
  <2>2. IsFiniteSet(one) /\ Cardinality(one) = Cardinality(end) - 1
    BY <1>5, <1>7, FS_RemoveElement
  <2>3. Cardinality(one) \in Nat /\ Cardinality(end) \in Nat
    BY <1>7, <2>2, FS_CardinalityType
  <2>4. Cardinality(one) # 0
    BY <2>1, <2>2, FS_EmptySet
  <2> QED
    BY <1>6, <2>2, <2>3, <2>4
<1> QED
  BY <1>3, <1>4, <1>5, <1>9

LEMMA TablesLoseNothing ==
    ASSUME CollInv, TabInv, Untouched, Generated => NothingLost(Result)
    PROVE  CompleteForParser
<1> SUFFICES ASSUME step = "returned", reported = {}
             PROVE  /\ <<<<start, 0>>, g_end>> \in ItemsAt(0)
                    /\ \A s \in States : \A x \in ItemsAt(s) :
                           LET X == GetPossibleTransition(x[1])
                           IN  /\ X # NoSymbol =>
                                      /\ Entry(s, X) # ERROR_VAL
                                      /\ <<AdvanceCursor(x[1]), x[2]>> \in ItemsAt(Entry(s, X))
                               /\ Implied(x[1], x[2]) \subseteq ItemsAt(s)
                               /\ IsCursorAtEnd(x[1]) =>
                                      action_reduce[s][x[2]] = IF x[1][1] = start THEN ACCEPT_VAL ELSE x[1][1]
  BY DEF CompleteForParser
<1>1. /\ Generated /\ NothingLost(Result)
      /\ jump = [s \in States |-> [N \in NonTerminal |-> Target(s, N)]]
      /\ \A s \in States, t \in Terminal :
             action_shift[s][t] = Target(s, t) /\ action_reduce[s][t] = Reduction(s, t)
  BY DEF TabInv, Untouched
<1>2. <<<<start, 0>>, g_end>> \in ItemsAt(0)
  <2>1. ClosureAt(0) = Result.closures[0]
    BY <1>1, StateFacts
  <2> QED
    BY <1>1, <2>1 DEF NothingLost, ItemsAt
<1>3. ASSUME NEW s \in States, NEW x \in ItemsAt(s), GetPossibleTransition(x[1]) # NoSymbol
      PROVE  LET X == GetPossibleTransition(x[1])
             IN  Entry(s, X) # ERROR_VAL /\ <<AdvanceCursor(x[1]), x[2]>> \in ItemsAt(Entry(s, X))
  <2> DEFINE X == GetPossibleTransition(x[1])
             y == <<AdvanceCursor(x[1]), x[2]>>
  <2>1. X \in Symbol /\ Target(s, X) # ERROR_VAL /\ y \in ItemsAt(Target(s, X))
    BY <1>1, <1>3, EntryCarries
  <2> HIDE DEF X, y
  <2>2. Entry(s, X) = Target(s, X)
    <3>1. CASE X \in Terminal
      BY <1>1, <3>1 DEF Entry
    <3>2. CASE X \notin Terminal
      <4>1. X \in NonTerminal
        BY <2>1, <3>2 DEF Symbol
      <4> QED
        BY <1>1, <3>2, <4>1 DEF Entry
    <3> QED
      BY <3>1, <3>2
  <2>3. Entry(s, X) # ERROR_VAL /\ y \in ItemsAt(Entry(s, X))
    BY <2>1, <2>2
  <2> QED
    BY <2>3 DEF X, y
<1>4. ASSUME NEW s \in States, NEW x \in ItemsAt(s)
      PROVE  Implied(x[1], x[2]) \subseteq ItemsAt(s)
  <2>1. Closures[s + 1] \in DOMAIN Result.closures
    BY <1>1, StateFacts
  <2>2. Closed(ItemsAt(s))
    BY <1>1, <2>1 DEF NothingLost, ItemsAt, ClosureAt
  <2> QED
    BY <2>2 DEF Closed
<1>5. ASSUME NEW s \in States, NEW x \in ItemsAt(s), IsCursorAtEnd(x[1])
      PROVE  action_reduce[s][x[2]] = IF x[1][1] = start THEN ACCEPT_VAL ELSE x[1][1]
  <2>1. /\ x[2] \in Terminal
        /\ Reduction(s, x[2]) = IF x[1][1] = start THEN ACCEPT_VAL ELSE x[1][1]
    BY <1>1, <1>5, ReducesFinished
  <2> QED
    BY <1>1, <2>1
<1> QED
  BY <1>2, <1>3, <1>4, <1>5

\* Tables that were made without a conflict are complete, whichever way their
\* collection was made: the parser that gets them rejects no sentence.
THEOREM TablesComplete ==
    ASSUME LocalClosureCorrect, LocalClosureExact, FirstNonempty, FollowClosed
    PROVE  TablesSpec => []CompleteForParser
<1> DEFINE Inv == CompleteInv /\ TabInv /\ Untouched
<1>1. TablesInit => Inv
  <2>1. TablesInit => CollectionInit /\ step = "none"
    BY DEF TablesInit
  <2>2. CollectionInit => CompleteInv
    <3>1. CollectionInit => ~Generated /\ phase = "transitions"
      BY DEF CollectionInit, Generated
    <3> QED
      BY <3>1, InitHolds, StartGoes DEF CompleteInv
  <2>3. step = "none" => Untouched
    BY DEF Untouched
  <2> QED
    BY <2>1, <2>2, <2>3, TabInit
<1>2. ASSUME Inv, [TablesNext]_<<collvars, tabvars>>
      PROVE  Inv'
  <2>1. [CollectionNext]_collvars
    BY <1>2 DEF TablesNext, CollectionNext, FillTables, ResolveCell, ReturnTables, TablesDone
  <2>2. CompleteInv'
    BY <1>2, <2>1, CompleteStays
  <2>3. TabInv' /\ Untouched'
    BY <1>2, TabStep, UntouchedStays DEF CompleteInv
  <2> QED
    BY <2>2, <2>3
<1>3. Inv /\ [TablesNext]_<<collvars, tabvars>> => Inv'
  BY <1>2
<1>4. Inv => CompleteForParser
  BY TablesLoseNothing DEF CompleteInv
<1> QED
  BY <1>1, <1>3, <1>4, PTL DEF TablesSpec

=============================================================================
