----------------------------- MODULE Collection -----------------------------
(***************************************************************************)
(* Collection: the states of the parser and the transitions between them.   *)
(* DoTransitions(true) and DoTransitions(false) build the LR(1) and the     *)
(* LALR(1) collection by calling themselves for every closure that is new,   *)
(* and in the LALR case again for one whose look-aheads have grown;          *)
(* ConvertToLALR and ConvertToSLR derive a smaller collection from the LR(1) *)
(* one.                                                                     *)
(*                                                                         *)
(* A set of look-aheads is the sequence in which it is iterated: the hash   *)
(* of an element combines its look-aheads in this order.  The library puts a *)
(* new member in front of the others; that members may share a bucket is    *)
(* left out, and a set is not rehashed here (Closure shows what follows).    *)
(*                                                                         *)
(* What AddElement makes of the elements that are added to an empty closure  *)
(* is the parameter LocalClosure; LocalClosures gives the program's.         *)
(***************************************************************************)
EXTENDS Elements, FiniteSetsExt

CONSTANTS
    StartRules,             \* the rule of the start symbol, one for each grammar
    TermOrder,              \* in which order hashing puts terminals
    Follow,                 \* what calc_follow computes for each nonterminal
    LocalClosure(_)         \* the closure of a sequence of elements

Element == [core : Core, las : Seq(Terminal)]

ASSUME CollectionAssumption ==
    /\ StartRules \subseteq RuleNr
    /\ TermOrder \in Seq(Terminal) /\ Terminal = Range(TermOrder)
    /\ Follow \in [NonTerminal -> SUBSET Terminal]

\* How the grammars of the program are written: epsilon stands alone, the end is
\* in no rule, and the start symbol has a rule of one symbol and is used nowhere.
ASSUME EpsilonAssumption ==
    \A r \in RuleNr : g_eps \in Range(Rules[r].rhs) => Len(Rules[r].rhs) = 1
ASSUME EndAssumption == \A r \in RuleNr : g_end \notin Range(Rules[r].rhs)
ASSUME StartAssumption ==
    \A s \in StartRules :
        /\ Len(Rules[s].rhs) = 1 /\ g_eps \notin Range(Rules[s].rhs)
        /\ \A r \in RuleNr : Rules[s].lhs \notin Range(Rules[r].rhs)
        /\ Follow[Rules[s].lhs] = {g_end}

Modes == {"lr1", "lalr", "convert", "slr"}

VARIABLES
    start, mode,            \* the grammar and what is asked for
    phase,                  \* "transitions", "states" (of the conversion), "done"
    g_id,                   \* identifies the next closure to be created
    lr,                     \* the collection that DoTransitions builds
    frames,                 \* the calls of DoTransitions, the current one last
    closure_map, coll,      \* the conversion: old closures to new ones
    reported                \* which conflicts have been reported

collvars == <<start, mode, phase, g_id, lr, frames, closure_map, coll, reported>>

\* f, and value at x.
With(f, x, value) == [y \in DOMAIN f \cup {x} |-> IF y = x THEN value ELSE f[y]]

\* Closures are objects named by the number they got when they were created.
\* A collection: the closures in their order, what each is, and the
\* transitions, <<from, to, symbol>>.
Empty == [m_collection |-> <<>>, closures |-> <<>>, m_transitions |-> {}]

-----------------------------------------------------------------------------
\* The k-th of a set of numbers, and the members of a sequence at these places.
Place(S, k) == CHOOSE i \in S : Cardinality({j \in S : j < i}) = k - 1
At(seq, S) == [k \in 1 .. Cardinality(S) |-> seq[Place(S, k)]]
FirstPlaces(seq) == {i \in DOMAIN seq : \A j \in 1 .. i - 1 : seq[j] # seq[i]}
Reversed(seq) == [k \in DOMAIN seq |-> seq[Len(seq) + 1 - k]]

Listed(S) == At(TermOrder, {i \in DOMAIN TermOrder : TermOrder[i] \in S})

\* New look-aheads come in front, the last one first.
AddLookaheadsTo(las, new) ==
    Reversed(At(new, {i \in FirstPlaces(new) : new[i] \notin Range(las)})) \o las

IndexOfCore(elems, core) == {i \in DOMAIN elems : elems[i].core = core}

CoresOf(elems) == {elems[i].core : i \in DOMAIN elems}
ItemsOf(elems) == UNION {{<<elems[i].core, la>> : la \in Range(elems[i].las)} : i \in DOMAIN elems}

\* The elements that have the symbol behind the cursor, moved over it.
DoTransition(elems, sym) ==
    LET moving == At(elems, {i \in DOMAIN elems : GetPossibleTransition(elems[i].core) = sym})
    IN  LocalClosure([k \in DOMAIN moving |->
                         [core |-> AdvanceCursor(moving[k].core), las |-> moving[k].las]])

GetPossibleTransitions(elems) ==
    LET syms == [i \in DOMAIN elems |-> GetPossibleTransition(elems[i].core)]
    IN  At(syms, {i \in FirstPlaces(syms) : syms[i] # NoSymbol})

\* Closure::AddLookaheads
AddLookaheads(elems, others) ==
    [i \in DOMAIN elems |->
        LET same == IndexOfCore(others, elems[i].core)
        IN  IF same = {} THEN elems[i]
            ELSE [elems[i] EXCEPT !.las = AddLookaheadsTo(@, others[CHOOSE j \in same : TRUE].las)]]

\* Elements are hashed in any order, look-aheads in the order of their set.
hash(elems, only_core) ==
    {IF only_core THEN <<elems[i].core>> ELSE <<elems[i].core, elems[i].las>> :
        i \in DOMAIN elems}

HasReduceReduceConflict(c) ==
    \E o \in Range(c.m_collection) :
        LET elems == c.closures[o].elems
            end == {i \in DOMAIN elems : IsCursorAtEnd(elems[i].core)}
        IN  \E i, j \in end : i # j /\ Range(elems[i].las) \cap Range(elems[j].las) # {}

HasShiftReduceConflict(c) ==
    \E o \in Range(c.m_collection) :
        LET elems == c.closures[o].elems
            reduce == UNION {Range(elems[i].las) :
                                i \in {k \in DOMAIN elems : IsCursorAtEnd(elems[k].core)}}
        IN  \E t \in c.m_transitions :
                /\ hash(c.closures[t[1]].elems, FALSE) = hash(elems, FALSE)
                /\ t[3] \in reduce

Conflicts(c) ==
    {k \in {"reduce/reduce", "shift/reduce"} :
        \/ k = "reduce/reduce" /\ HasReduceReduceConflict(c)
        \/ k = "shift/reduce" /\ HasShiftReduceConflict(c)}

\* Sorts by id and numbers the closures from 0, unless an equal one has been
\* numbered before.
Simplify(c) ==
    LET all == Range(c.m_collection)
        Hash(o) == hash(c.closures[o].elems, FALSE)
        Before(o) == {p \in all : c.closures[p].id < c.closures[o].id}
        fresh == {o \in all : \A p \in Before(o) : Hash(p) # Hash(o)}
        Renumbered(o) ==
            IF o \in fresh THEN [c.closures[o] EXCEPT !.id = Cardinality(Before(o) \cap fresh)]
            ELSE c.closures[o]
    IN  [m_collection |-> [k \in DOMAIN c.m_collection |->
                              CHOOSE o \in all : Cardinality(Before(o)) = k - 1],
         closures |-> [o \in DOMAIN c.closures |-> Renumbered(o)],
         m_transitions |-> c.m_transitions]

-----------------------------------------------------------------------------
\* What Closure::DoTransitions returns for closure o, when the next closures
\* are numbered from id on.
DoTransitionsOf(o, elems, id) ==
    LET syms == GetPossibleTransitions(elems)
    IN  [from |-> o,
         pending |-> [k \in DOMAIN syms |->
                        [sym |-> syms[k], to |-> id + k - 1, elems |-> DoTransition(elems, syms[k])]]]

CollectionInit ==
    /\ start \in StartRules /\ mode \in Modes
    /\ phase = "transitions"
    /\ LET elems == LocalClosure(<<[core |-> <<start, 0>>, las |-> <<g_end>>]>>)
           call == DoTransitionsOf(0, elems, 1)
       IN  /\ lr = [m_collection |-> <<0>>,
                    closures |-> [o \in {0} |-> [id |-> 0, elems |-> elems, comefrom |-> {}]],
                    m_transitions |-> {}]
           /\ frames = <<call>>
           /\ g_id = 1 + Len(call.pending)
    /\ closure_map = <<>> /\ coll = Empty
    /\ reported = {}

full_lr == mode # "lalr"

top == frames[Len(frames)]
next == Head(top.pending)
resumed == [frames EXCEPT ![Len(frames)] = [from |-> top.from, pending |-> Tail(top.pending)]]

\* The closures of the collection whose hash is that of the one to be added.
Cached == {o \in Range(lr.m_collection) :
              hash(lr.closures[o].elems, ~full_lr) = hash(next.elems, ~full_lr)}

Calling(o, elems) ==
    LET call == DoTransitionsOf(o, elems, g_id)
    IN  /\ frames' = Append(resumed, call)
        /\ g_id' = g_id + Len(call.pending)

NewClosure ==
    /\ phase = "transitions" /\ top.pending # <<>>
    /\ Cached = {}
    /\ lr' = [m_collection |-> Append(lr.m_collection, next.to),
              closures |-> With(lr.closures, next.to,
                                [id |-> next.to, elems |-> next.elems,
                                 comefrom |-> {<<next.sym, top.from>>}]),
              m_transitions |-> lr.m_transitions \cup {<<top.from, next.to, next.sym>>}]
    /\ Calling(next.to, next.elems)
    /\ UNCHANGED <<start, mode, phase, closure_map, coll, reported>>

\* (mutant) where it is reached from is not remembered
ComefromLost(closure, elems, sym, from) == [closure EXCEPT !.elems = elems]

ReachedAgain(closure, elems, sym, from) ==
    [id |-> closure.id, elems |-> elems, comefrom |-> closure.comefrom \cup {<<sym, from>>}]

\* (mutant) the transitions stay those of the old look-aheads
NotRedone(o, elems) == frames' = resumed /\ UNCHANGED g_id

\* If look-aheads were added, the transitions of the closure are redone at once.
Redone(o, elems) ==
    IF elems = lr.closures[o].elems THEN frames' = resumed /\ UNCHANGED g_id
    ELSE Calling(o, elems)

\* In the LALR case the look-aheads are united.
OldClosure ==
    /\ phase = "transitions" /\ top.pending # <<>>
    /\ \E o \in Cached :
           LET elems == IF full_lr THEN lr.closures[o].elems
                        ELSE AddLookaheads(lr.closures[o].elems, next.elems)
           IN  /\ lr' = [m_collection |-> lr.m_collection,
                         closures |-> [lr.closures EXCEPT
                                          ![o] = ReachedAgain(@, elems, next.sym, top.from)],
                         m_transitions |-> lr.m_transitions \cup {<<top.from, o, next.sym>>}]
               /\ Redone(o, elems)
    /\ UNCHANGED <<start, mode, phase, closure_map, coll, reported>>

Return ==
    /\ phase = "transitions" /\ top.pending = <<>>
    /\ Len(frames) > 1
    /\ frames' = SubSeq(frames, 1, Len(frames) - 1)
    /\ UNCHANGED <<start, mode, phase, g_id, lr, closure_map, coll, reported>>

\* The first call returns: Simplify, and the conflicts are reported.
TransitionsDone ==
    /\ phase = "transitions" /\ top.pending = <<>>
    /\ Len(frames) = 1
    /\ frames' = <<>>
    /\ lr' = Simplify(lr)
    /\ reported' = Conflicts(lr)
    /\ phase' = IF mode \in {"convert", "slr"} THEN "states" ELSE "done"
    /\ UNCHANGED <<start, mode, g_id, closure_map, coll>>

-----------------------------------------------------------------------------
\* (mutant) the look-aheads are not united
ComefromsUnited(new, old) ==
    [id |-> new.id, elems |-> new.elems, comefrom |-> new.comefrom \cup old.comefrom]

\* What ConvertToLALR makes of two closures with the same cores.
ClosureUnited(new, old) ==
    [id |-> new.id, elems |-> AddLookaheads(new.elems, old.elems),
     comefrom |-> new.comefrom \cup old.comefrom]

ConvertClosure ==
    /\ phase = "states"
    /\ Cardinality(DOMAIN closure_map) < Len(lr.m_collection)
    /\ LET o == lr.m_collection[Cardinality(DOMAIN closure_map) + 1]
           cached == {n \in Range(coll.m_collection) :
                         hash(coll.closures[n].elems, TRUE) = hash(lr.closures[o].elems, TRUE)}
       IN  IF cached = {}
           THEN /\ closure_map' = With(closure_map, o, o)
                /\ coll' = [m_collection |-> Append(coll.m_collection, o),
                            closures |-> With(coll.closures, o, lr.closures[o]),
                            m_transitions |-> {}]
           ELSE \E n \in cached :
                /\ closure_map' = With(closure_map, o, n)
                /\ coll' = [m_collection |-> coll.m_collection,
                            closures |-> [coll.closures EXCEPT ![n] = ClosureUnited(@, lr.closures[o])],
                            m_transitions |-> {}]
    /\ UNCHANGED <<start, mode, phase, g_id, lr, frames, reported>>

\* Where a closure comes from is looked up by the id of the old closure.
NewComefrom(comefrom) ==
    {<<c[1], closure_map[CHOOSE o \in DOMAIN closure_map :
                             lr.closures[o].id = lr.closures[c[2]].id]>> : c \in comefrom}

Converted ==
    Simplify([m_collection |-> coll.m_collection,
              closures |-> [o \in DOMAIN coll.closures |->
                  [coll.closures[o] EXCEPT !.comefrom = NewComefrom(@)]],
              m_transitions |->
                  {<<closure_map[t[1]], closure_map[t[2]], t[3]>> : t \in lr.m_transitions}])

\* ConvertToSLR: every look-ahead becomes the follow set of the left-hand side.
SetLookaheads(c) ==
    LET Slr(e) == [e EXCEPT !.las = Listed(Follow[GetLhs(e.core)])]
        SlrElems(elems) == [i \in DOMAIN elems |-> Slr(elems[i])]
    IN  [m_collection |-> c.m_collection,
         closures |-> [o \in DOMAIN c.closures |-> [c.closures[o] EXCEPT !.elems = SlrElems(@)]],
         m_transitions |-> c.m_transitions]

\* (mutant) the smaller collections are not looked at
ConflictsOfLR(smaller) == Conflicts(lr)

ConflictsOfAll(smaller) == Conflicts(lr) \cup Conflicts(Converted) \cup Conflicts(smaller)

ConversionDone ==
    /\ phase = "states"
    /\ Cardinality(DOMAIN closure_map) = Len(lr.m_collection)
    /\ coll' = IF mode = "slr" THEN SetLookaheads(Converted) ELSE Converted
    /\ reported' = ConflictsOfAll(coll')
    /\ phase' = "done"
    /\ UNCHANGED <<start, mode, g_id, lr, frames, closure_map>>

\* The collection asked for.
Result == IF mode \in {"lr1", "lalr"} THEN lr ELSE coll

Generated == phase = "done"
CollectionDone == Generated /\ UNCHANGED collvars

Generate ==
    \/ NewClosure \/ OldClosure \/ Return \/ TransitionsDone
    \/ ConvertClosure \/ ConversionDone

CollectionNext == Generate \/ CollectionDone

CollectionSpec == CollectionInit /\ [][CollectionNext]_collvars

-----------------------------------------------------------------------------
\* A closure whose look-aheads have grown is never left with transitions made
\* for the old ones: unless a call for it is still running, its transitions
\* are complete and their targets hold all that it implies.
NoStaleClosure ==
    phase = "transitions" /\ ~full_lr =>
        \A o \in DOMAIN lr.closures :
            \/ \E k \in DOMAIN frames : frames[k].from = o
            \/ LET elems == lr.closures[o].elems
               IN  \A sym \in Range(GetPossibleTransitions(elems)) :
                       \E t \in lr.m_transitions :
                           /\ t[1] = o /\ t[3] = sym
                           /\ ItemsOf(DoTransition(elems, sym)) \subseteq ItemsOf(lr.closures[t[2]].elems)

\* What the theorems assume of LocalClosure.  Closure_proofs shows it for the
\* steps of AddElement.
UniqueCores(elems) == \A i, j \in DOMAIN elems : elems[i].core = elems[j].core => i = j
IsClosureOf(elems, kernel) ==
    /\ elems \in Seq(Element) /\ UniqueCores(elems)
    /\ ClosureOfKernel(CoresOf(elems), ItemsOf(elems), CoresOf(kernel), ItemsOf(kernel))
LocalClosureCorrect == \A kernel \in Seq(Element) : IsClosureOf(LocalClosure(kernel), kernel)

\* What they assume so that nothing is lost: the closure of elements with
\* look-aheads is the least closed set that holds them, which Closure_proofs shows
\* as long as no set rehashes; every nonterminal can begin with something; and what
\* may follow a nonterminal is in its set.
WellFilled(elems) == \A i \in DOMAIN elems : elems[i].las # <<>>
LocalClosureExact ==
    \A kernel \in Seq(Element) : WellFilled(kernel) =>
        LET items == ItemsOf(LocalClosure(kernel))
        IN  /\ WellFilled(LocalClosure(kernel))
            /\ ItemsOf(kernel) \subseteq items /\ Closed(items)
            /\ \A I \in SUBSET (Core \X Terminal) :
                   ItemsOf(kernel) \subseteq I /\ Closed(I) => items \subseteq I

FirstNonempty == \A N \in NonTerminal : First[N] # {}
FollowClosed ==
    \A r \in RuleNr : \A i \in DOMAIN Rules[r].rhs :
        Rules[r].rhs[i] \in NonTerminal =>
            \A la \in Follow[Rules[r].lhs] :
                calc_first(Rules[r].rhs, la, i) \subseteq Follow[Rules[r].rhs[i]]

\* The closures remember exactly the transitions that lead to them; conflicts
\* are resolved by what they remember.
ComefromsExact ==
    Generated =>
        \A o \in DOMAIN Result.closures :
            Result.closures[o].comefrom =
                {<<t[3], t[1]>> : t \in {u \in Result.m_transitions : u[2] = o}}

=============================================================================
