---------------------------- MODULE CycleConfig ----------------------------
(***************************************************************************)
(* The document one user's card file /config/<uuid>.json holds, and the    *)
(* three edits the handlers of SD_Lite.ino make to it once it is parsed.   *)
(* Pure definitions: no state.  The JSON text is abstracted to the record  *)
(* it parses to, a cycle's schedule (status, start, end, day, fan_enable,  *)
(* fan_delay) to one opaque body.                                          *)
(***************************************************************************)
EXTENDS Naturals, Sequences, SequencesExt

CONSTANTS
  Bodies,       \* the schedules a client can ask for
  MaxCycles     \* how many cycles a user may have: the literal 5 in the code

ASSUME MaxCyclesAssumption == MaxCycles \in Nat \ {0}

Cycle == [id : Nat, body : Bodies]

Documents == [counter : Nat, cycles : Seq(Cycle)]

IdsOf(doc) == {doc.cycles[i].id : i \in DOMAIN doc.cycles}

\* What every request must leave true of a document: the limit holds, every id
\* was issued by the counter, and the list is in the order the ids were issued,
\* so that no two cycles share an id and a search for the first match finds the
\* only one.
WellFormed(doc) ==
  /\ Len(doc.cycles) <= MaxCycles
  /\ \A i \in DOMAIN doc.cycles : doc.cycles[i].id \in 1 .. doc.counter
  /\ \A i, j \in DOMAIN doc.cycles :
       i < j => doc.cycles[i].id < doc.cycles[j].id

\* Index of the first cycle with this id, 0 when no cycle has it.
IndexOf(doc, id) == SelectInSeq(doc.cycles, LAMBDA cycle : cycle.id = id)

\* Mutant: one cycle too many.
HasRoomForOneMore(doc) == Len(doc.cycles) <= MaxCycles

HasRoom(doc) == Len(doc.cycles) < MaxCycles

\* POST /cycles: the next counter value becomes the new cycle's id.
Added(doc, body) ==
  [counter |-> doc.counter + 1,
   cycles  |-> Append(doc.cycles, [id |-> doc.counter + 1, body |-> body])]

\* PUT /cycles: the first cycle with the id takes every field of the body.
Updated(doc, id, body) ==
  [doc EXCEPT !.cycles =
     ReplaceAt(@, IndexOf(doc, id), [id |-> id, body |-> body])]

\* Mutant: the counter is treated as the number of cycles.
RemovedAndUncounted(doc, id) ==
  [counter |-> doc.counter - 1, cycles |-> RemoveAt(doc.cycles, IndexOf(doc, id))]

\* DELETE /cycles: the first cycle with the id leaves the list, the counter stays.
Removed(doc, id) ==
  [doc EXCEPT !.cycles = RemoveAt(@, IndexOf(doc, id))]
=============================================================================
