---------------------------- MODULE MCCycleForm ----------------------------
(* A cycle of a few schedules for TLC. *)
EXTENDS CycleForm

MCBodies == [hour : Hours, minute : Minutes, day : Days]

\* An empty list: the first cycle comes from the create dialog.
MCProvisioned == {[counter |-> 0, cycles |-> <<>>]}

\* No definition names an hour, a minute or a choice of days.
PartSymmetry == Permutations(Hours) \cup Permutations(Minutes) \cup Permutations(Days)
=============================================================================
