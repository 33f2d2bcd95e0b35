----------------------------- MODULE Dashboard -----------------------------
(***************************************************************************)
(* The React dashboard of src/ui in several browser tabs of one user, over *)
(* the store the firmware promises (CycleStore.tla; SDLite.tla shows that  *)
(* the request server keeps the promise).                                  *)
(*                                                                         *)
(* A tab fetches the list once, when it is mounted, and from then on edits *)
(* its copy by the answers to its own calls.  Calls of one tab overlap:    *)
(* each form and each list item only waits for its own.  A call is in      *)
(* flight from fetch() to the end of its promise chain; in between the     *)
(* server serves it, and the answers come back in any order or not at all. *)
(***************************************************************************)
EXTENDS CycleStore, FiniteSets

CONSTANTS
  Owner,        \* whose dashboard this is
  Tabs,         \* the tabs it is open in
  Nobody,       \* the tab of a call whose page is gone
  NoId,         \* the id of a GET or a POST
  NoBody,       \* the body of a GET or a DELETE
  Waiting,      \* answer of a call the server has not served yet
  Refused,      \* any answer that res.json() rejects: 401, 400, 404, 500, or
                \* the text of a torn configuration
  MaxCounter,   \* bound of the model: no POST that could raise the counter above
  MaxCalls,     \* bound of the model: how many calls are in flight at once
  MaxFaults     \* bound of the model: how many hardware and network faults happen

ASSUME DashboardAssumption ==
  /\ Owner \in Users
  /\ Nobody \notin Tabs
  /\ NoId \notin Nat /\ NoBody \notin Bodies
  /\ Waiting \notin Seq(Cycle) /\ Refused \notin Seq(Cycle) /\ Waiting # Refused
  /\ MaxCounter \in Nat /\ MaxCalls \in Nat /\ MaxFaults \in Nat

VARIABLES
  view,         \* the cycles in each tab's store context
  calls,        \* the calls in flight
  excuse        \* history: why a tab may no longer show what the card holds

vars == <<store, faults, view, calls, excuse>>

Excuses ==
  {"foreign",   \* a change that was not this page's reached the server
   "raced",     \* the page changed something before it had its list
   "lost"}      \* the page never got the answer to a call that counted

-----------------------------------------------------------------------------
(* Calls. *)

Call(tab, op, id, body) ==
  [tab |-> tab, op |-> op, id |-> id, body |-> body, answer |-> Waiting]

Mount(tab) == Call(tab, "GET", NoId, NoBody)

Of(tab, op, id) == {c \in calls : c.tab = tab /\ c.op = op /\ c.id = id}

Loading(tab) == Of(tab, "GET", NoId) # {}

Answered(c) == c.answer # Waiting

Succeeded(c) == c.answer \notin {Waiting, Refused}

config == store[Owner]

Init ==
  /\ StoreInit
  /\ view = [t \in Tabs |-> <<>>]
  /\ calls = {Mount(t) : t \in Tabs}
  /\ excuse = [t \in Tabs |-> {}]

-----------------------------------------------------------------------------
(* What the user does. *)

\* A change sent while the list is still on its way may be in it or not.
Send(t, call) ==
  /\ Cardinality(calls) < MaxCalls
  /\ calls' = calls \cup {call}
  /\ excuse' = IF Loading(t) THEN [excuse EXCEPT ![t] = @ \cup {"raced"}] ELSE excuse
  /\ UNCHANGED <<store, faults, view>>

\* The bound on ids: every POST the server has yet to serve may take one.
CounterAtBound ==
  /\ Readable(Owner)
  /\ config.counter + Cardinality({c \in calls : c.op = "POST" /\ ~ Answered(c)})
       >= MaxCounter

\* Mutant: the button goes away one cycle too late.
SubmitCreateAtLimit(t, body) ==
  /\ Len(view[t]) <= MaxCycles
  /\ Of(t, "POST", NoId) = {}
  /\ ~ CounterAtBound
  /\ Send(t, Call(t, "POST", NoId, body))

\* The button is there while the list has room, and disabled while its POST runs.
SubmitCreate(t, body) ==
  /\ Len(view[t]) < MaxCycles
  /\ Of(t, "POST", NoId) = {}
  /\ ~ CounterAtBound
  /\ Send(t, Call(t, "POST", NoId, body))

Shown(t) == {view[t][i].id : i \in DOMAIN view[t]}

\* Mutant: the save button is not disabled while its PUT runs.
SubmitUpdateTwice(t, id, body) ==
  /\ id \in Shown(t)
  /\ Of(t, "DELETE", id) = {}
  /\ Send(t, Call(t, "PUT", id, body))

SubmitUpdate(t, id, body) ==
  /\ id \in Shown(t)
  /\ Of(t, "PUT", id) = {}
  /\ Of(t, "DELETE", id) = {}
  /\ Send(t, Call(t, "PUT", id, body))

\* Closing the update dialog does not stop its PUT, and the menu is free again.
SubmitDelete(t, id) ==
  /\ id \in Shown(t)
  /\ Of(t, "DELETE", id) = {}
  /\ Send(t, Call(t, "DELETE", id, NoBody))

\* The page starts afresh.  Of its calls, those the server has not served may
\* reach it all the same.  (A bound of the model: no two orphans are alike.)
Reload(t) ==
  \E orphans \in SUBSET {c \in calls : c.tab = t /\ c.op # "GET" /\ ~ Answered(c)} :
    /\ {[c EXCEPT !.tab = Nobody] : c \in orphans} \cap calls = {}
    /\ calls' = {c \in calls : c.tab # t} \cup {Mount(t)}
                  \cup {[c EXCEPT !.tab = Nobody] : c \in orphans}
    /\ view' = [view EXCEPT ![t] = <<>>]
    /\ excuse' = [excuse EXCEPT ![t] = {}]
    /\ UNCHANGED <<store, faults>>

-----------------------------------------------------------------------------
(* What the server does: one whole request at a time. *)

Answer(c, answer) ==
  calls' = IF c.tab = Nobody THEN calls \ {c}
           ELSE (calls \ {c}) \cup {[c EXCEPT !.answer = answer]}

\* A change reaches every page that has had its list already, but its own.
Excused(c) ==
  [t \in Tabs |->
     IF t = c.tab \/ \E get \in Of(t, "GET", NoId) : ~ Answered(get)
     THEN excuse[t] ELSE excuse[t] \cup {"foreign"}]

ServeList(c) ==
  /\ c.op = "GET"
  /\ Answer(c, IF Readable(Owner) THEN config.cycles ELSE Refused)
  /\ UNCHANGED <<store, faults, view, excuse>>

Possible(c) ==
  /\ Readable(Owner)
  /\ \/ c.op = "POST" /\ HasRoom(config)
     \/ c.op \in {"PUT", "DELETE"} /\ c.id \in IdsOf(config)

\* The body of a 200: the new or updated cycle, or the id that went.
Reply(c) ==
  CASE c.op = "POST"   -> <<[id |-> config.counter + 1, body |-> c.body]>>
    [] c.op = "PUT"    -> <<[id |-> c.id, body |-> c.body]>>
    [] c.op = "DELETE" -> <<>>

ServeChange(c) ==
  /\ Possible(c)
  /\ \/ c.op = "POST" /\ Create(Owner, c.body)
     \/ c.op = "PUT" /\ Update(Owner, c.id, c.body)
     \/ c.op = "DELETE" /\ Delete(Owner, c.id)
  /\ Answer(c, Reply(c))
  /\ excuse' = Excused(c)
  /\ UNCHANGED view

\* The rewrite tears the file; the server knows of it or does not.
TearChange(c) ==
  /\ Possible(c)
  /\ faults < MaxFaults
  /\ Lose(Owner)
  /\ \E told \in {Refused, Reply(c)} : Answer(c, told)
  /\ UNCHANGED <<view, excuse>>

RefuseChange(c) ==
  /\ c.op # "GET"
  /\ ~ Possible(c)
  /\ Answer(c, Refused)
  /\ UNCHANGED <<store, faults, view, excuse>>

Serve(c) ==
  /\ ~ Answered(c)
  /\ ServeList(c) \/ ServeChange(c) \/ TearChange(c) \/ RefuseChange(c)

\* The connection breaks before the request or after the answer.
Break(c) ==
  /\ c.tab # Nobody
  /\ faults < MaxFaults
  /\ Hiccup
  /\ calls' = calls \ {c}
  /\ excuse' = IF c.op = "GET" \/ Succeeded(c)
               THEN [excuse EXCEPT ![c.tab] = @ \cup {"lost"}] ELSE excuse
  /\ UNCHANGED view

-----------------------------------------------------------------------------
(* What the page does with an answer: storeReducer. *)

FirstShown(cycles, id) == SelectInSeq(cycles, LAMBDA cycle : cycle.id = id)

\* Mutant: an unknown cycle is appended instead of being left out.
UpdatedOrAdded(cycles, cycle) ==
  LET i == FirstShown(cycles, cycle.id)
  IN  IF i = 0 THEN Append(cycles, cycle) ELSE ReplaceAt(cycles, i, cycle)

UpdateShown(cycles, cycle) ==
  LET i == FirstShown(cycles, cycle.id)
  IN  IF i = 0 THEN cycles ELSE ReplaceAt(cycles, i, cycle)

\* Mutant: splice(index), which takes the rest of the list too.
DeletedToTheEnd(cycles, id) ==
  LET i == FirstShown(cycles, id)
  IN  IF i = 0 THEN cycles ELSE SubSeq(cycles, 1, i - 1)

DeleteShown(cycles, id) ==
  LET i == FirstShown(cycles, id)
  IN  IF i = 0 THEN cycles ELSE RemoveAt(cycles, i)

\* Mutant: a new cycle is shown first.
storeReducerNewestFirst(cycles, c) ==
  CASE c.op = "GET"    -> c.answer
    [] c.op = "POST"   -> <<c.answer[1]>> \o cycles
    [] c.op = "PUT"    -> UpdateShown(cycles, c.answer[1])
    [] c.op = "DELETE" -> DeleteShown(cycles, c.id)

storeReducer(cycles, c) ==
  CASE c.op = "GET"    -> c.answer
    [] c.op = "POST"   -> Append(cycles, c.answer[1])
    [] c.op = "PUT"    -> UpdateShown(cycles, c.answer[1])
    [] c.op = "DELETE" -> DeleteShown(cycles, c.id)

\* Mutant: the button comes back in then() instead of finally().
DeliverSuccess(c) ==
  /\ c.tab # Nobody
  /\ Succeeded(c)
  /\ calls' = calls \ {c}
  /\ view' = [view EXCEPT ![c.tab] = storeReducer(@, c)]
  /\ UNCHANGED <<store, faults, excuse>>

\* A list that does not parse leaves the page with none, for good.
Deliver(c) ==
  /\ c.tab # Nobody
  /\ Answered(c)
  /\ calls' = calls \ {c}
  /\ view' = IF Succeeded(c) THEN [view EXCEPT ![c.tab] = storeReducer(@, c)] ELSE view
  /\ excuse' = IF c.op = "GET" /\ c.answer = Refused
               THEN [excuse EXCEPT ![c.tab] = @ \cup {"lost"}] ELSE excuse
  /\ UNCHANGED <<store, faults>>

Next ==
  \/ \E t \in Tabs, body \in Bodies : SubmitCreate(t, body)
  \/ \E t \in Tabs, body \in Bodies : \E id \in Shown(t) : SubmitUpdate(t, id, body)
  \/ \E t \in Tabs : \E id \in Shown(t) : SubmitDelete(t, id)
  \/ \E t \in Tabs : Reload(t)
  \/ \E c \in calls : Serve(c) \/ Break(c) \/ Deliver(c)

Spec == Init /\ [][Next]_vars

\* The server takes the waiting requests in turn, and the browser runs the
\* handlers of an answer that came.
FairSpec ==
  /\ Spec
  /\ \A t \in Tabs \cup {Nobody}, op \in {"GET", "POST", "PUT", "DELETE"},
        id \in 1 .. MaxCounter \cup {NoId} :
       /\ WF_vars(\E c \in Of(t, op, id) : Serve(c))
       /\ WF_vars(\E c \in Of(t, op, id) : Deliver(c))

-----------------------------------------------------------------------------
(* What the dashboard is for. *)

CallTypeOK(c) ==
  /\ c.tab \in Tabs \cup {Nobody}
  /\ \/ c.op = "GET" /\ c.id = NoId /\ c.body = NoBody
     \/ c.op = "POST" /\ c.id = NoId /\ c.body \in Bodies
     \/ c.op = "PUT" /\ c.id \in Nat /\ c.body \in Bodies
     \/ c.op = "DELETE" /\ c.id \in Nat /\ c.body = NoBody
  /\ c.answer \in Seq(Cycle) \cup {Waiting, Refused}
  /\ c.op \in {"POST", "PUT"} /\ Succeeded(c) => Len(c.answer) = 1

\* Every call in flight has the shape its form or list item gives it, an answered
\* create or update carries the one cycle the reducer takes, and a page waits for
\* at most one call of a kind about a cycle.
TypeOK ==
  /\ view \in [Tabs -> Seq(Cycle)]
  /\ \A c \in calls : CallTypeOK(c)
  /\ \A c, d \in calls :
       c.tab = d.tab /\ c.tab # Nobody /\ c.op = d.op /\ c.id = d.id => c = d
  /\ excuse \in [Tabs -> SUBSET Excuses]
  /\ faults \in 0 .. MaxFaults

\* The cycles whose state depends on a call of the tab that is still in flight.
Touched(t) ==
  {c.id : c \in {d \in calls : d.tab = t /\ d.op \in {"PUT", "DELETE"}}}
    \cup {c.answer[1].id : c \in {d \in Of(t, "POST", NoId) : Succeeded(d)}}

\* The cycles of a list that no call of the tab in flight is about.
Settled(cycles, t) == {cycle \in Range(cycles) : cycle.id \notin Touched(t)}

\* The cycles two lists share come in the same order in both.
SameOrder(shown, filed) ==
  \A i, j \in DOMAIN shown : \A k, l \in DOMAIN filed :
    shown[i].id = filed[k].id /\ shown[j].id = filed[l].id => (i < j <=> k < l)

\* A page with no excuse shows the card: apart from the cycles its own calls in
\* flight are about, it lists the very cycles of the file, with the same schedules,
\* and in the same order, whatever the order its answers came in.
ShownAgrees ==
  \A t \in Tabs : excuse[t] = {} /\ ~ Loading(t) /\ Readable(Owner) =>
    /\ Settled(view[t], t) = Settled(config.cycles, t)
    /\ SameOrder(view[t], config.cycles)

\* Unless it changed something before it had its list, a page never shows more
\* cycles than the limit, nor a cycle twice, nor one out of order, however stale
\* it is.
ShownIsSane ==
  \A t \in Tabs : "raced" \notin excuse[t] =>
    /\ Len(view[t]) <= MaxCycles
    /\ \A i, j \in DOMAIN view[t] : i < j => view[t][i].id < view[t][j].id

\* Two pages that both found room do not put more on the card than it takes.
LimitHolds == Readable(Owner) => WellFormed(config)

\* The buttons a call disabled come back: every change a page asks for ends,
\* answered, failed or forgotten.
CallsEnd ==
  \A t \in Tabs, op \in {"POST", "PUT", "DELETE"}, id \in 1 .. MaxCounter \cup {NoId} :
    Of(t, op, id) # {} ~> Of(t, op, id) = {}
=============================================================================
