------------------------------ MODULE MCSDLite ------------------------------
(* Small cards for TLC: the document the repository ships, an empty one, none. *)
EXTENDS SDLite

CONSTANTS u1, u2, b1, b2

MCIds == 1 .. MaxCounter

EmptyConfig == [counter |-> 0, cycles |-> <<>>]

\* src/sc_card/config/admin.json: two cycles that differ, cycle_counter 2.
ShippedConfig ==
  [counter |-> 2, cycles |-> <<[id |-> 1, body |-> b1], [id |-> 2, body |-> b2]>>]

MCProvisioned == {EmptyConfig, ShippedConfig, Absent}
=============================================================================
