------------------------------ MODULE Closure ------------------------------
(***************************************************************************)
(* Closure::AddElement, which adds an element to a closure and, by calling  *)
(* itself, the elements it implies.  The calls are frames of a stack; a     *)
(* step is one call, or one turn of the loops over the rules and the        *)
(* look-aheads.                                                             *)
(*                                                                         *)
(* The loop over the look-aheads iterates the set of the element passed to  *)
(* the call.  If the call stored this element in the closure, deeper calls  *)
(* insert look-aheads into the very set that is being iterated.  While the  *)
(* set does not rehash, its iterators stay valid and the loop may or may not *)
(* come to the new look-aheads; when it rehashes, the order of the set       *)
(* changes and the loop may leave out any look-ahead.                        *)
(***************************************************************************)
EXTENDS Elements, FiniteSets

CONSTANTS
    Kernels,                \* the elements DoTransition adds, in their order
    BucketLimit             \* a set with more look-aheads has been rehashed

Element == [core : Core, las : SUBSET Terminal]

ASSUME ClosureAssumption ==
    /\ Kernels \subseteq Seq(Element)
    /\ BucketLimit \in Nat

VARIABLES
    kernel,                 \* the elements to add, a member of Kernels
    todo,                   \* those that are still to be added
    m_elems,                \* the elements of the closure
    frames                  \* the calls of AddElement, the current one last

cvars == <<kernel, todo, m_elems, frames>>

\* A call: its element and whether the closure holds this very object (at is
\* its index, or 0); the rules not finished and the look-aheads not visited
\* for the first of them.
Frame == [elem : Element, at : Nat, rules : SUBSET RuleNr, left : SUBSET Terminal]

Least(S) == CHOOSE x \in S : \A y \in S : x <= y

GetLookaheads(f) == IF f.at = 0 THEN f.elem.las ELSE m_elems[f.at].las

\* Is the full element in the closure?
HasElement(e) ==
    \E i \in DOMAIN m_elems : m_elems[i].core = e.core /\ e.las \subseteq m_elems[i].las

\* The look-aheads a call may still visit after new ones were inserted.
Disturbed(f, las, new) ==
    IF Cardinality(las) <= BucketLimit /\ Cardinality(las \cup new) > BucketLimit
    THEN SUBSET (las \cup new)
    ELSE {f.left \cup S : S \in SUBSET (new \ las)}

\* The calls after new look-aheads were inserted into element i: one of them
\* may be iterating its set.
Interrupted(calls, i, new) ==
    LET Owner == {k \in DOMAIN calls : calls[k].at = i}
    IN  IF Owner = {} THEN {calls}
        ELSE LET k == Least(Owner)
             IN  {[calls EXCEPT ![k].left = left] :
                     left \in Disturbed(calls[k], m_elems[i].las, new)}

Call(e, i) ==
    LET sym == GetSymbolAtCursor(e.core)
    IN  IF sym \in NonTerminal /\ RulesOf(sym) # {}
        THEN <<[elem |-> e, at |-> i, rules |-> RulesOf(sym), left |-> e.las]>>
        ELSE <<>>

\* (mutant) it returns when the core is there
AddElementReturnsEarly(e, calls) ==
    \/ /\ HasElement(e)
       /\ frames' = calls
       /\ UNCHANGED m_elems
    \/ \E i \in DOMAIN m_elems :
           /\ m_elems[i].core = e.core
           /\ ~(e.las \subseteq m_elems[i].las)
           /\ m_elems' = [m_elems EXCEPT ![i].las = @ \cup e.las]
           /\ frames' \in Interrupted(calls, i, e.las)
    \/ /\ \A i \in DOMAIN m_elems : m_elems[i].core # e.core
       /\ m_elems' = Append(m_elems, e)
       /\ frames' = calls \o Call(e, Len(m_elems) + 1)

\* (mutant) new look-aheads make a new element
AddElementUnmerged(e, calls) ==
    \/ /\ HasElement(e)
       /\ frames' = calls
       /\ UNCHANGED m_elems
    \/ /\ ~HasElement(e)
       /\ m_elems' = Append(m_elems, e)
       /\ frames' = calls \o Call(e, Len(m_elems) + 1)

\* A call of AddElement, from the calls given.
AddElement(e, calls) ==
    \/ /\ HasElement(e)
       /\ frames' = calls
       /\ UNCHANGED m_elems
    \/ \E i \in DOMAIN m_elems :
           /\ m_elems[i].core = e.core
           /\ ~(e.las \subseteq m_elems[i].las)
           /\ m_elems' = [m_elems EXCEPT ![i].las = @ \cup e.las]
           /\ \E after \in Interrupted(calls, i, e.las) : frames' = after \o Call(e, 0)
    \/ /\ \A i \in DOMAIN m_elems : m_elems[i].core # e.core
       /\ m_elems' = Append(m_elems, e)
       /\ frames' = calls \o Call(e, Len(m_elems) + 1)

-----------------------------------------------------------------------------
ClosureInit ==
    /\ kernel \in Kernels
    /\ todo = kernel
    /\ m_elems = <<>>
    /\ frames = <<>>

\* DoTransition adds the next element.
AddKernel ==
    /\ frames = <<>> /\ todo # <<>>
    /\ todo' = Tail(todo)
    /\ AddElement(Head(todo), frames)
    /\ UNCHANGED kernel

top == frames[Len(frames)]

\* (mutant) the symbol at the cursor is not skipped
NextLookaheadAtCursor ==
    /\ frames # <<>>
    /\ \E la \in top.left :
           AddElement([core |-> <<Least(top.rules), 0>>,
                       las |-> calc_first(GetRhs(top.elem.core), la, top.elem.core[2])],
                      [frames EXCEPT ![Len(frames)].left = @ \ {la}])
    /\ UNCHANGED <<kernel, todo>>

\* The body of the loops.
NextLookahead ==
    /\ frames # <<>>
    /\ \E la \in top.left :
           AddElement([core |-> <<Least(top.rules), 0>>,
                       las |-> calc_first(GetRhs(top.elem.core), la, top.elem.core[2] + 1)],
                      [frames EXCEPT ![Len(frames)].left = @ \ {la}])
    /\ UNCHANGED <<kernel, todo>>

\* (mutant) the rule index is not increased
NextRuleStays ==
    /\ frames # <<>>
    /\ top.left = {} /\ Cardinality(top.rules) > 1
    /\ frames' = [frames EXCEPT ![Len(frames)].left = GetLookaheads(top)]
    /\ UNCHANGED <<kernel, todo, m_elems>>

\* The next rule begins with all look-aheads the set has by then.
NextRule ==
    /\ frames # <<>>
    /\ top.left = {} /\ Cardinality(top.rules) > 1
    /\ frames' = [frames EXCEPT ![Len(frames)].rules = @ \ {Least(@)},
                                ![Len(frames)].left = GetLookaheads(top)]
    /\ UNCHANGED <<kernel, todo, m_elems>>

Return ==
    /\ frames # <<>>
    /\ top.left = {} /\ Cardinality(top.rules) = 1
    /\ frames' = SubSeq(frames, 1, Len(frames) - 1)
    /\ UNCHANGED <<kernel, todo, m_elems>>

Finished == frames = <<>> /\ todo = <<>>
ClosureDone == Finished /\ UNCHANGED cvars

ClosureNext == AddKernel \/ NextLookahead \/ NextRule \/ Return \/ ClosureDone

ClosureSpec ==
    ClosureInit /\ [][ClosureNext]_cvars
        /\ WF_cvars(AddKernel \/ NextLookahead \/ NextRule \/ Return)

-----------------------------------------------------------------------------
\* An item is a core with one look-ahead.
Item == Core \X Terminal
Items(elems) == UNION {{<<elems[i].core, la>> : la \in elems[i].las} : i \in DOMAIN elems}

\* The state holds elements and frames, and an interrupted call never has
\* finished all its rules.
ClosureTypeOK ==
    /\ kernel \in Kernels /\ todo \in Seq(Element)
    /\ m_elems \in Seq(Element)
    /\ frames \in Seq(Frame)
    /\ \A k \in DOMAIN frames :
           /\ frames[k].rules # {} /\ frames[k].rules \subseteq RuleNr
           /\ frames[k].at \in 0 .. Len(m_elems)

\* Elements with the same core are merged: an element of the closure is found
\* by its core alone (AddLookaheads, GetElementWithCursorAtSymbol), and the
\* hash over the cores tells LALR states apart.
CoresUnique == \A i, j \in DOMAIN m_elems : m_elems[i].core = m_elems[j].core => i = j

\* No look-ahead is invented: whatever set of items holds the kernel and is
\* closed holds the items of the closure, at every time.  ClosedSets are the
\* sets to test with.
Sound(ClosedSets) ==
    \A I \in ClosedSets : Items(kernel) \subseteq I /\ Closed(I) => Items(m_elems) \subseteq I

\* When AddElement has returned, the closure holds the kernel and everything
\* it implies, whatever the order in which the look-aheads were visited.
Complete ==
    Finished => Items(kernel) \subseteq Items(m_elems) /\ Closed(Items(m_elems))

\* The recursion ends, also for left-recursive rules.
ClosureTerminates == <>Finished
=============================================================================
