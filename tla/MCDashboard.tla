---------------------------- MODULE MCDashboard ----------------------------
(* Small cards and few calls for TLC. *)
EXTENDS Dashboard

\* No cycle yet, or one or two with different schedules: what is left of the card
\* the repository ships under the bounds of a run.
MCProvisioned ==
  {[counter |-> 0, cycles |-> <<>>]}
    \cup {[counter |-> 1, cycles |-> <<[id |-> 1, body |-> b]>>] : b \in Bodies}

\* Tabs are alike, and so are schedules: no definition names one.
TabSymmetry == Permutations(Tabs)

BodySymmetry == Permutations(Bodies)
=============================================================================
