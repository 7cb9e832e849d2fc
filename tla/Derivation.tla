----------------------------- MODULE Derivation -----------------------------
(***************************************************************************)
(* What a bottom-up parser promises about its reductions: beginning with    *)
(* the input, each step replaces the right-hand side of a rule somewhere in *)
(* the sentential form by its left-hand side, i.e. the forms it goes        *)
(* through are a derivation of the input read backwards.                    *)
(***************************************************************************)
EXTENDS Integers, Sequences

CONSTANTS RuleNr, Rules, Inputs

VARIABLE form

\* The right-hand side of rule r stands behind the first k symbols.
HandleAt(r, k) ==
    /\ k + Len(Rules[r].rhs) <= Len(form)
    /\ \A j \in 1 .. Len(Rules[r].rhs) : form[k + j] = Rules[r].rhs[j]

\* The form with that right-hand side replaced.
Replaced(r, k) ==
    LET n == Len(Rules[r].rhs)
    IN  [i \in 1 .. Len(form) - n + 1 |->
            IF i <= k THEN form[i]
            ELSE IF i = k + 1 THEN Rules[r].lhs ELSE form[i + n - 1]]

ReduceStep(r, k) == HandleAt(r, k) /\ form' = Replaced(r, k)

DerivationInit == form \in Inputs
DerivationNext == \E r \in RuleNr, k \in 0 .. Len(form) : ReduceStep(r, k)

DerivationSpec == DerivationInit /\ [][DerivationNext]_form
=============================================================================
