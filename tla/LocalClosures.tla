---------------------------- MODULE LocalClosures ----------------------------
(***************************************************************************)
(* The closures that Collection works with: AddElement as one step, for the  *)
(* elements of a transition in their order.  (Closure models its steps.)    *)
(***************************************************************************)
EXTENDS Collection, SequencesExt

RECURSIVE AddElement(_, _)
AddElement(elems, e) ==
    LET same == IndexOfCore(elems, e.core)
        stored == IF same = {} THEN Append(elems, e)
                  ELSE [elems EXCEPT ![Min(same)].las = AddLookaheadsTo(@, e.las)]
        sym == GetSymbolAtCursor(e.core)
        rules == IF sym \in NonTerminal THEN SetToSortSeq(RulesOf(sym), <) ELSE <<>>
        AddRule(acc, r) ==
            FoldLeft(LAMBDA a, la : AddElement(a,
                         [core |-> <<r, 0>>,
                          las |-> Listed(calc_first(GetRhs(e.core), la, e.core[2] + 1))]),
                     acc, e.las)
    IN  IF \E i \in same : Range(e.las) \subseteq Range(elems[i].las) THEN elems
        ELSE FoldLeft(AddRule, stored, rules)

ClosureOf(kernel) == FoldLeft(AddElement, <<>>, kernel)

=============================================================================
