----------------------------- MODULE CycleStore -----------------------------
(***************************************************************************)
(* What the firmware promises of the cards' configuration files: each      *)
(* user's document is changed by whole edits, one at a time, and can be    *)
(* lost only when a fault of the hardware happens.  No request, no handler *)
(* and no reboot appears here; SDLite.tla shows that the request server    *)
(* implements this, and Dashboard.tla uses it as its server.               *)
(***************************************************************************)
EXTENDS CycleConfig

CONSTANTS
  Users,        \* the uuids that can name a card file
  Provisioned,  \* what a card may hold for a user before the first boot
  Torn,         \* a file cut short while it was being rewritten
  Absent        \* no file

ASSUME StoreAssumption ==
  /\ Torn \notin Documents /\ Absent \notin Documents /\ Torn # Absent
  /\ Provisioned \subseteq Documents \cup {Absent}
  /\ \A doc \in Provisioned : doc # Absent => WellFormed(doc)

VARIABLES
  store,        \* what each user's file holds
  faults        \* how many hardware faults there have been

storeVars == <<store, faults>>

Readable(u) == store[u] \in Documents

StoreInit ==
  /\ store \in [Users -> Provisioned]
  /\ faults = 0

Create(u, body) ==
  /\ Readable(u)
  /\ HasRoom(store[u])
  /\ store' = [store EXCEPT ![u] = Added(@, body)]
  /\ UNCHANGED faults

Update(u, id, body) ==
  /\ Readable(u)
  /\ id \in IdsOf(store[u])
  /\ store' = [store EXCEPT ![u] = Updated(@, id, body)]
  /\ UNCHANGED faults

Delete(u, id) ==
  /\ Readable(u)
  /\ id \in IdsOf(store[u])
  /\ store' = [store EXCEPT ![u] = Removed(@, id)]
  /\ UNCHANGED faults

\* A fault in the middle of a rewrite: the whole document is gone.
Lose(u) ==
  /\ Readable(u)
  /\ store' = [store EXCEPT ![u] = Torn]
  /\ faults' = faults + 1

\* A fault that costs nothing on the card.
Hiccup ==
  /\ faults' = faults + 1
  /\ UNCHANGED store

\* The ids the user's counter has given out so far.
Issued(u) == IF Readable(u) THEN 1 .. store[u].counter ELSE {}

StoreNext ==
  \/ \E u \in Users, body \in Bodies : Create(u, body)
  \/ \E u \in Users, body \in Bodies : \E id \in Issued(u) : Update(u, id, body)
  \/ \E u \in Users : \E id \in Issued(u) : Delete(u, id)
  \/ \E u \in Users : Lose(u)
  \/ Hiccup

StoreSpec == StoreInit /\ [][StoreNext]_storeVars
=============================================================================
