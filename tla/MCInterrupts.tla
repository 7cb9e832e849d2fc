---------------------------- MODULE MCInterrupts ----------------------------
(* Three interrupt lines: the timer's and two the embedding program raises. *)
EXTENDS Interrupts
=============================================================================
