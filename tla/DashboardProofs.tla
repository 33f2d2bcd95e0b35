--------------------------- MODULE DashboardProofs ---------------------------
(***************************************************************************)
(* Theorems about Dashboard, for any number of tabs, schedules, calls in   *)
(* flight and faults.                                                      *)
(***************************************************************************)
EXTENDS Dashboard, CycleConfigProofs, WellFoundedInduction

-----------------------------------------------------------------------------
(* The reducer. *)

\* A set of naturals with a member has a least one.
LEMMA MinFound ==
  ASSUME NEW S \in SUBSET Nat, S # {}
  PROVE  Min(S) \in S /\ \A n \in S : Min(S) <= n
<1>1. PICK x \in S : \A y \in S : ~ (<<y, x>> \in OpToRel(<, Nat))
  BY NatLessThanWellFounded, WFMin
<1>2. \A y \in S : x <= y
  <2>1. ASSUME NEW y \in S, y < x
        PROVE  <<y, x>> \in OpToRel(<, Nat)
    BY <2>1, Zenon DEF OpToRel
  <2>2. \A y \in S : ~ (y < x)
    BY <1>1, <2>1, Zenon
  <2> QED
    BY <2>2
<1> QED
  BY <1>1, <1>2 DEF Min

\* findIndex: the place of the first cycle with the id, or none.
LEMMA FirstShownFinds ==
  ASSUME NEW cycles \in Seq(Cycle), NEW id
  PROVE  /\ FirstShown(cycles, id) \in 0 .. Len(cycles)
         /\ FirstShown(cycles, id) # 0 =>
              /\ cycles[FirstShown(cycles, id)].id = id
              /\ \A i \in DOMAIN cycles : cycles[i].id = id => FirstShown(cycles, id) <= i
         /\ FirstShown(cycles, id) = 0 => \A i \in DOMAIN cycles : cycles[i].id # id
<1> DEFINE Matches == {i \in 1 .. Len(cycles) : cycles[i].id = id}
<1>1. Len(cycles) \in Nat /\ DOMAIN cycles = 1 .. Len(cycles)
  OBVIOUS
<1>2. FirstShown(cycles, id) = IF Matches # {} THEN Min(Matches) ELSE 0
  BY DEF FirstShown, SelectInSeq
<1>3. Matches \in SUBSET Nat
  OBVIOUS
<1> HIDE DEF Matches
<1>4. CASE Matches = {}
  BY <1>1, <1>2, <1>4 DEF Matches
<1>5. CASE Matches # {}
  <2>1. FirstShown(cycles, id) \in Matches /\ \A n \in Matches : FirstShown(cycles, id) <= n
    BY <1>2, <1>3, <1>5, MinFound
  <2> QED
    BY <1>1, <2>1 DEF Matches
<1> QED
  BY <1>4, <1>5

\* UPDATE_CYCLE keeps the ids and their places.
LEMMA UpdateShownKeeps ==
  ASSUME NEW cycles \in Seq(Cycle), NEW cycle \in Cycle
  PROVE  /\ UpdateShown(cycles, cycle) \in Seq(Cycle)
         /\ DOMAIN UpdateShown(cycles, cycle) = DOMAIN cycles
         /\ Len(UpdateShown(cycles, cycle)) = Len(cycles)
         /\ \A i \in DOMAIN cycles : UpdateShown(cycles, cycle)[i].id = cycles[i].id
<1> DEFINE k == FirstShown(cycles, cycle.id)
<1>1. k \in 0 .. Len(cycles) /\ (k # 0 => cycles[k].id = cycle.id)
  BY FirstShownFinds
<1>2. UpdateShown(cycles, cycle) = IF k = 0 THEN cycles ELSE [cycles EXCEPT ![k] = cycle]
  BY DEF UpdateShown, ReplaceAt
<1> HIDE DEF k
<1>3. CASE k = 0
  BY <1>2, <1>3
<1>4. CASE k # 0
  <2>1. k \in 1 .. Len(cycles)
    BY <1>1, <1>4
  <2>2. /\ [cycles EXCEPT ![k] = cycle] \in Seq(Cycle)
        /\ Len([cycles EXCEPT ![k] = cycle]) = Len(cycles)
        /\ \A j \in 1 .. Len(cycles) :
             [cycles EXCEPT ![k] = cycle][j] = IF j = k THEN cycle ELSE cycles[j]
    BY <2>1, ExceptSeq
  <2> QED
    BY <1>1, <1>2, <1>4, <2>2
<1> QED
  BY <1>3, <1>4

\* Where a cycle of the list stood before the one at place k was taken out.
Old(i, k) == IF i < k THEN i ELSE i + 1

\* DELETE_CYCLE takes at most one cycle out and keeps the order of the others.
LEMMA DeleteShownKeeps ==
  ASSUME NEW cycles \in Seq(Cycle), NEW id
  PROVE  LET rest == DeleteShown(cycles, id)
             k == FirstShown(cycles, id)
         IN  /\ rest \in Seq(Cycle)
             /\ k = 0 => rest = cycles
             /\ k # 0 => /\ Len(rest) = Len(cycles) - 1
                         /\ \A i \in 1 .. Len(rest) :
                              /\ Old(i, k) \in DOMAIN cycles
                              /\ rest[i] = cycles[Old(i, k)]
<1> DEFINE k    == FirstShown(cycles, id)
           n    == Len(cycles)
           rest == SubSeq(cycles, 1, k - 1) \o SubSeq(cycles, k + 1, n)
<1>1. k \in 0 .. n /\ n \in Nat /\ DOMAIN cycles = 1 .. n
  BY FirstShownFinds
<1>2. DeleteShown(cycles, id) = IF k = 0 THEN cycles ELSE rest
  BY DEF DeleteShown, RemoveAt
<1> HIDE DEF k
<1>3. CASE k = 0
  BY <1>2, <1>3 DEF k
<1>4. CASE k # 0
  <2> DEFINE front == SubSeq(cycles, 1, k - 1)
             back  == SubSeq(cycles, k + 1, n)
  <2>1. k \in 1 .. n
    BY <1>1, <1>4
  <2>2. /\ front \in Seq(Cycle) /\ Len(front) = k - 1
        /\ \A i \in 1 .. k - 1 : front[i] = cycles[i]
    BY <1>1, <2>1
  <2>3. /\ back \in Seq(Cycle) /\ Len(back) = n - k
        /\ \A i \in 1 .. n - k : back[i] = cycles[k + i]
    <3>1. \A i \in k + 1 .. n : cycles[i] \in Cycle
      BY <1>1, <2>1
    <3> HIDE DEF n
    <3>2. /\ back \in Seq(Cycle)
          /\ Len(back) = IF k + 1 <= n THEN n - (k + 1) + 1 ELSE 0
          /\ \A i \in 1 .. n - (k + 1) + 1 : back[i] = cycles[(k + 1) + i - 1]
      BY <1>1, <2>1, <3>1, SubSeqProperties
    <3> QED
      BY <1>1, <2>1, <3>2
  <2>4. rest = front \o back
    OBVIOUS
  <2> HIDE DEF front, back, rest, n
  <2>5. /\ rest \in Seq(Cycle) /\ Len(rest) = n - 1
        /\ \A i \in 1 .. n - 1 : rest[i] = IF i <= k - 1 THEN front[i] ELSE back[i - (k - 1)]
    <3>1. /\ rest \in Seq(Cycle) /\ Len(rest) = Len(front) + Len(back)
          /\ \A i \in 1 .. Len(front) + Len(back) :
               rest[i] = IF i <= Len(front) THEN front[i] ELSE back[i - Len(front)]
      BY <2>2, <2>3, <2>4, ConcatProperties
    <3>2. Len(front) + Len(back) = n - 1
      BY <1>1, <2>1, <2>2, <2>3
    <3> QED
      BY <2>2, <3>1, <3>2
  <2>6. ASSUME NEW i \in 1 .. n - 1
        PROVE  Old(i, k) \in DOMAIN cycles /\ rest[i] = cycles[Old(i, k)]
    <3>1. CASE i < k
      <4>1. i <= k - 1 /\ i \in 1 .. k - 1 /\ Old(i, k) = i /\ i \in 1 .. n
        BY <1>1, <2>1, <3>1 DEF Old
      <4> QED
        BY <1>1, <2>2, <2>5, <4>1
    <3>2. CASE ~ (i < k)
      <4>1. /\ ~ (i <= k - 1) /\ i - (k - 1) \in 1 .. n - k /\ k + (i - (k - 1)) = i + 1
            /\ Old(i, k) = i + 1 /\ i + 1 \in 1 .. n
        BY <1>1, <2>1, <3>2 DEF Old
      <4> QED
        BY <1>1, <2>3, <2>5, <4>1
    <3> QED
      BY <3>1, <3>2
  <2> QED
    BY <1>2, <1>4, <2>5, <2>6 DEF k, n
<1> QED
  BY <1>3, <1>4

-----------------------------------------------------------------------------
(* The store under the pages. *)

StoreInv ==
  /\ store \in [Users -> Documents \cup {Torn, Absent}]
  /\ Readable(Owner) => WellFormed(config)

\* Whatever happens to the owner's file, its counter never goes back, and a file
\* that cannot be read stays so.
CounterGrows == Readable(Owner)' => Readable(Owner) /\ config.counter <= config'.counter

LEMMA InitStore == Init => StoreInv
<1> SUFFICES ASSUME Init PROVE StoreInv
  OBVIOUS
<1>1. store \in [Users -> Provisioned]
  BY DEF Init, StoreInit
<1>2. store \in [Users -> Documents \cup {Torn, Absent}]
  BY <1>1, StoreAssumption
<1>3. config \in Provisioned
  BY <1>1, DashboardAssumption DEF config
<1>4. ASSUME Readable(Owner) PROVE WellFormed(config)
  BY <1>3, <1>4, StoreAssumption DEF Readable, config
<1> QED
  BY <1>2, <1>4 DEF StoreInv

LEMMA SameStore ==
  ASSUME StoreInv, UNCHANGED store
  PROVE  StoreInv' /\ CounterGrows
<1>1. Readable(Owner)' <=> Readable(Owner)
  BY DEF Readable
<1>2. config' = config
  BY DEF config
<1>3. Readable(Owner) => config.counter \in Nat
  BY DEF Readable, config, Documents
<1> QED
  BY <1>1, <1>2, <1>3 DEF StoreInv, CounterGrows

\* A new document that is well formed and counts no less replaces the owner's.
LEMMA NewDocument ==
  ASSUME StoreInv, Readable(Owner), NEW doc \in Documents, WellFormed(doc),
         doc.counter = config.counter \/ doc.counter = config.counter + 1,
         store' = [store EXCEPT ![Owner] = doc]
  PROVE  StoreInv' /\ CounterGrows /\ config' = doc /\ Readable(Owner)'
<1>1. store'[Owner] = doc
  BY DashboardAssumption DEF StoreInv
<1>2. store' \in [Users -> Documents \cup {Torn, Absent}]
  BY Zenon DEF StoreInv
<1>3. config.counter \in Nat
  BY DEF Readable, config, Documents
<1>4. config' = doc
  BY <1>1 DEF config
<1>5. Readable(Owner)'
  BY <1>1 DEF Readable
<1> QED
  BY <1>2, <1>3, <1>4, <1>5 DEF StoreInv, CounterGrows

LEMMA ChangeStore ==
  ASSUME StoreInv, NEW c, CallTypeOK(c), c.op # "GET", ServeChange(c)
  PROVE  StoreInv' /\ CounterGrows
<1>1. Possible(c) /\ Readable(Owner) /\ WellFormed(config) /\ config \in Documents
  BY DEF ServeChange, Possible, StoreInv, Readable, config
<1>2. CASE c.op = "POST" /\ Create(Owner, c.body)
  <2>1. c.body \in Bodies /\ HasRoom(config)
    BY <1>2 DEF CallTypeOK, Create, config
  <2>2. store' = [store EXCEPT ![Owner] = Added(config, c.body)]
    BY <1>2 DEF Create, config
  <2> QED
    BY <1>1, <2>1, <2>2, AddedSound, NewDocument
<1>3. CASE c.op = "PUT" /\ Update(Owner, c.id, c.body)
  <2>1. c.body \in Bodies /\ c.id \in IdsOf(config)
    BY <1>3 DEF CallTypeOK, Update, config
  <2>2. store' = [store EXCEPT ![Owner] = Updated(config, c.id, c.body)]
    BY <1>3 DEF Update, config
  <2> QED
    BY <1>1, <2>1, <2>2, UpdatedSound, NewDocument
<1>4. CASE c.op = "DELETE" /\ Delete(Owner, c.id)
  <2>1. c.id \in IdsOf(config)
    BY <1>4 DEF Delete, config
  <2>2. store' = [store EXCEPT ![Owner] = Removed(config, c.id)]
    BY <1>4 DEF Delete, config
  <2> QED
    BY <1>1, <2>1, <2>2, RemovedSound, NewDocument
<1> QED
  BY <1>2, <1>3, <1>4 DEF ServeChange

LEMMA TearStore ==
  ASSUME StoreInv, NEW c, TearChange(c)
  PROVE  StoreInv' /\ CounterGrows
<1>1. store' = [store EXCEPT ![Owner] = Torn]
  BY DEF TearChange, Lose
<1>2. store'[Owner] = Torn
  BY <1>1, DashboardAssumption DEF StoreInv
<1>3. ~ Readable(Owner)'
  BY <1>2, StoreAssumption DEF Readable
<1>4. store' \in [Users -> Documents \cup {Torn, Absent}]
  BY <1>1, Zenon DEF StoreInv
<1> QED
  BY <1>3, <1>4 DEF StoreInv, CounterGrows

\* Every step of the dashboard.
LEMMA StoreStep ==
  ASSUME StoreInv, \A c \in calls : CallTypeOK(c), [Next]_vars
  PROVE  StoreInv' /\ CounterGrows
<1>1. CASE UNCHANGED store
  BY <1>1, SameStore
<1>2. CASE \E c \in calls : Serve(c)
  <2>1. PICK c \in calls : Serve(c)
    BY <1>2
  <2>2. CASE ServeList(c)
    BY <1>1, <2>2 DEF ServeList
  <2>3. CASE ServeChange(c)
    <3>1. c.op # "GET"
      BY <2>3 DEF ServeChange, Possible
    <3> QED
      BY <2>3, <3>1, ChangeStore
  <2>4. CASE TearChange(c)
    BY <2>4, TearStore
  <2>5. CASE RefuseChange(c)
    BY <1>1, <2>5 DEF RefuseChange
  <2> QED
    BY <2>1, <2>2, <2>3, <2>4, <2>5 DEF Serve
<1>3. UNCHANGED store \/ \E c \in calls : Serve(c)
  BY DEF Next, vars, SubmitCreate, SubmitUpdate, SubmitDelete, Send, Reload, Break, Hiccup,
         Deliver
<1> QED
  BY <1>1, <1>2, <1>3

-----------------------------------------------------------------------------
(* Calls. *)

IsCall(c) ==
  c = [tab |-> c.tab, op |-> c.op, id |-> c.id, body |-> c.body, answer |-> c.answer]

Distinct ==
  \A c, d \in calls :
    c.tab = d.tab /\ c.tab # Nobody /\ c.op = d.op /\ c.id = d.id => c = d

\* TypeOK, and what it leaves out: that calls have no other fields.
TypeInv ==
  /\ view \in [Tabs -> Seq(Cycle)]
  /\ \A c \in calls : IsCall(c) /\ CallTypeOK(c)
  /\ Distinct
  /\ excuse \in [Tabs -> SUBSET Excuses]
  /\ faults \in 0 .. MaxFaults

LEMMA MountTyped ==
  ASSUME NEW t \in Tabs
  PROVE  IsCall(Mount(t)) /\ CallTypeOK(Mount(t)) /\ Mount(t).tab = t /\ Mount(t).op = "GET"
<1> DEFINE c == Mount(t)
<1>1. /\ c.tab = t /\ c.op = "GET" /\ c.id = NoId /\ c.body = NoBody /\ c.answer = Waiting
      /\ IsCall(c)
  BY DEF Mount, Call, IsCall
<1> HIDE DEF c
<1>2. CallTypeOK(c)
  BY <1>1 DEF CallTypeOK
<1> QED
  BY <1>1, <1>2 DEF c

\* The server answers a call, and nothing else of it changes.
LEMMA AnsweredTyped ==
  ASSUME NEW c, IsCall(c), CallTypeOK(c), NEW answer \in Seq(Cycle) \cup {Waiting, Refused},
         c.op \in {"POST", "PUT"} /\ answer \notin {Waiting, Refused} => Len(answer) = 1
  PROVE  LET d == [c EXCEPT !.answer = answer]
         IN  /\ IsCall(d) /\ CallTypeOK(d)
             /\ d.tab = c.tab /\ d.op = c.op /\ d.id = c.id /\ d.body = c.body
             /\ d.answer = answer
<1> DEFINE d == [c EXCEPT !.answer = answer]
<1>1. d = [tab |-> c.tab, op |-> c.op, id |-> c.id, body |-> c.body, answer |-> answer]
  BY DEF IsCall
<1>2. /\ d.tab = c.tab /\ d.op = c.op /\ d.id = c.id /\ d.body = c.body /\ d.answer = answer
      /\ IsCall(d)
  BY <1>1 DEF IsCall
<1> HIDE DEF d
<1>3. CallTypeOK(d)
  BY <1>2 DEF CallTypeOK, Succeeded
<1> QED
  BY <1>2, <1>3 DEF d

\* The page of a call goes, and nothing else of it changes.
LEMMA OrphanTyped ==
  ASSUME NEW c, IsCall(c), CallTypeOK(c)
  PROVE  LET d == [c EXCEPT !.tab = Nobody]
         IN  IsCall(d) /\ CallTypeOK(d) /\ d.tab = Nobody
<1> DEFINE d == [c EXCEPT !.tab = Nobody]
<1>1. d = [tab |-> Nobody, op |-> c.op, id |-> c.id, body |-> c.body, answer |-> c.answer]
  BY DEF IsCall
<1>2. /\ d.tab = Nobody /\ d.op = c.op /\ d.id = c.id /\ d.body = c.body /\ d.answer = c.answer
      /\ IsCall(d)
  BY <1>1 DEF IsCall
<1> HIDE DEF d
<1>3. CallTypeOK(d)
  BY <1>2 DEF CallTypeOK, Succeeded
<1> QED
  BY <1>2, <1>3 DEF d

LEMMA InitTyped == Init => TypeInv
<1> SUFFICES ASSUME Init PROVE TypeInv
  OBVIOUS
<1>1. view \in [Tabs -> Seq(Cycle)]
  BY DEF Init
<1>2. \A c \in calls : IsCall(c) /\ CallTypeOK(c)
  BY MountTyped DEF Init
<1>3. Distinct
  BY MountTyped DEF Init, Distinct
<1>4. excuse \in [Tabs -> SUBSET Excuses]
  BY DEF Init
<1>5. faults \in 0 .. MaxFaults
  BY DashboardAssumption DEF Init, StoreInit
<1> QED
  BY <1>1, <1>2, <1>3, <1>4, <1>5 DEF TypeInv

LEMMA SendTyped ==
  ASSUME TypeInv, NEW t \in Tabs, NEW c, IsCall(c), CallTypeOK(c), c.tab = t,
         Of(t, c.op, c.id) = {}, Send(t, c)
  PROVE  TypeInv'
<1>1. calls' = calls \cup {c} /\ UNCHANGED <<store, faults, view>>
  BY DEF Send
<1>2. \A d \in calls' : IsCall(d) /\ CallTypeOK(d)
  BY <1>1 DEF TypeInv
<1>3. Distinct'
  BY <1>1 DEF TypeInv, Distinct, Of
<1>4. excuse' \in [Tabs -> SUBSET Excuses]
  <2>1. CASE Loading(t)
    <3>1. excuse' = [excuse EXCEPT ![t] = @ \cup {"raced"}]
      BY <2>1 DEF Send
    <3>2. excuse[t] \cup {"raced"} \in SUBSET Excuses
      BY DEF TypeInv, Excuses
    <3> QED
      BY <3>1, <3>2 DEF TypeInv
  <2> QED
    BY <2>1 DEF Send, TypeInv
<1> QED
  BY <1>1, <1>2, <1>3, <1>4 DEF TypeInv

LEMMA ShownIsNat ==
  ASSUME TypeInv, NEW t \in Tabs, NEW id \in Shown(t)
  PROVE  id \in Nat
<1>1. PICK i \in DOMAIN view[t] : id = view[t][i].id
  BY DEF Shown
<1>2. view[t] \in Seq(Cycle)
  BY DEF TypeInv
<1>3. view[t][i] \in Cycle
  BY <1>1, <1>2
<1> QED
  BY <1>1, <1>3 DEF Cycle

\* The users' buttons.
LEMMA SubmitTyped ==
  ASSUME TypeInv, NEW t \in Tabs
  PROVE  /\ \A body \in Bodies : SubmitCreate(t, body) => TypeInv'
         /\ \A body \in Bodies : \A id \in Shown(t) : SubmitUpdate(t, id, body) => TypeInv'
         /\ \A id \in Shown(t) : SubmitDelete(t, id) => TypeInv'
<1>1. ASSUME NEW body \in Bodies, SubmitCreate(t, body)
      PROVE  TypeInv'
  <2> DEFINE c == Call(t, "POST", NoId, body)
  <2>1. /\ c.tab = t /\ c.op = "POST" /\ c.id = NoId /\ c.body = body /\ c.answer = Waiting
        /\ IsCall(c)
    BY DEF Call, IsCall
  <2>2. Send(t, c) /\ Of(t, "POST", NoId) = {}
    BY <1>1 DEF SubmitCreate
  <2> HIDE DEF c
  <2>3. CallTypeOK(c)
    BY <2>1 DEF CallTypeOK, Succeeded
  <2> QED
    BY <2>1, <2>2, <2>3, SendTyped
<1>2. ASSUME NEW body \in Bodies, NEW id \in Shown(t), SubmitUpdate(t, id, body)
      PROVE  TypeInv'
  <2> DEFINE c == Call(t, "PUT", id, body)
  <2>1. /\ c.tab = t /\ c.op = "PUT" /\ c.id = id /\ c.body = body /\ c.answer = Waiting
        /\ IsCall(c)
    BY DEF Call, IsCall
  <2>2. Send(t, c) /\ Of(t, "PUT", id) = {}
    BY <1>2 DEF SubmitUpdate
  <2> HIDE DEF c
  <2>3. CallTypeOK(c)
    BY <2>1, ShownIsNat DEF CallTypeOK, Succeeded
  <2> QED
    BY <2>1, <2>2, <2>3, SendTyped
<1>3. ASSUME NEW id \in Shown(t), SubmitDelete(t, id)
      PROVE  TypeInv'
  <2> DEFINE c == Call(t, "DELETE", id, NoBody)
  <2>1. /\ c.tab = t /\ c.op = "DELETE" /\ c.id = id /\ c.body = NoBody /\ c.answer = Waiting
        /\ IsCall(c)
    BY DEF Call, IsCall
  <2>2. Send(t, c) /\ Of(t, "DELETE", id) = {}
    BY <1>3 DEF SubmitDelete
  <2> HIDE DEF c
  <2>3. CallTypeOK(c)
    BY <2>1, ShownIsNat DEF CallTypeOK, Succeeded
  <2> QED
    BY <2>1, <2>2, <2>3, SendTyped
<1> QED
  BY <1>1, <1>2, <1>3

LEMMA ReloadTyped ==
  ASSUME TypeInv, NEW t \in Tabs, Reload(t)
  PROVE  TypeInv'
<1>1. PICK orphans \in SUBSET {c \in calls : c.tab = t /\ c.op # "GET" /\ ~ Answered(c)} :
         /\ calls' = {c \in calls : c.tab # t} \cup {Mount(t)}
                       \cup {[c EXCEPT !.tab = Nobody] : c \in orphans}
         /\ view' = [view EXCEPT ![t] = <<>>]
         /\ excuse' = [excuse EXCEPT ![t] = {}]
         /\ UNCHANGED <<store, faults>>
  BY DEF Reload
<1>2. \A d \in calls' : \/ d \in calls /\ d.tab # t
                        \/ d = Mount(t)
                        \/ IsCall(d) /\ CallTypeOK(d) /\ d.tab = Nobody
  BY <1>1, OrphanTyped DEF TypeInv
<1>3. \A d \in calls' : IsCall(d) /\ CallTypeOK(d)
  BY <1>2, MountTyped DEF TypeInv
<1>4. Distinct'
  BY <1>2, MountTyped, DashboardAssumption DEF TypeInv, Distinct
<1>5. view' \in [Tabs -> Seq(Cycle)]
  <2>1. <<>> \in Seq(Cycle)
    OBVIOUS
  <2> QED
    BY <1>1, <2>1 DEF TypeInv
<1>6. excuse' \in [Tabs -> SUBSET Excuses]
  BY <1>1 DEF TypeInv
<1> QED
  BY <1>1, <1>3, <1>4, <1>5, <1>6 DEF TypeInv

\* The answers of the server.
LEMMA AnswerTyped ==
  ASSUME TypeInv, NEW c \in calls, NEW answer \in Seq(Cycle) \cup {Waiting, Refused},
         c.op \in {"POST", "PUT"} /\ answer \notin {Waiting, Refused} => Len(answer) = 1,
         Answer(c, answer)
  PROVE  (\A d \in calls' : IsCall(d) /\ CallTypeOK(d)) /\ Distinct'
<1> DEFINE e == [c EXCEPT !.answer = answer]
<1>1. IsCall(e) /\ CallTypeOK(e) /\ e.tab = c.tab /\ e.op = c.op /\ e.id = c.id
  BY AnsweredTyped DEF TypeInv
<1>2. calls' \subseteq (calls \ {c}) \cup {e}
  BY DEF Answer
<1> HIDE DEF e
<1> QED
  BY <1>1, <1>2 DEF TypeInv, Distinct

LEMMA ReplyTyped ==
  ASSUME StoreInv, NEW c, CallTypeOK(c), c.op # "GET", Possible(c)
  PROVE  /\ Reply(c) \in Seq(Cycle)
         /\ c.op \in {"POST", "PUT"} => Len(Reply(c)) = 1 /\ Reply(c)[1] \in Cycle
         /\ c.op = "POST" => Reply(c)[1] = [id |-> config.counter + 1, body |-> c.body]
         /\ c.op = "PUT" => Reply(c)[1] = [id |-> c.id, body |-> c.body]
<1>1. config \in Documents /\ config.counter \in Nat
  BY DEF Possible, Readable, config, Documents
<1>2. CASE c.op = "POST"
  <2>1. Reply(c) = <<[id |-> config.counter + 1, body |-> c.body]>>
    BY <1>2 DEF Reply
  <2>2. [id |-> config.counter + 1, body |-> c.body] \in Cycle
    BY <1>1, <1>2 DEF CallTypeOK, Cycle
  <2> QED
    BY <1>2, <2>1, <2>2
<1>3. CASE c.op = "PUT"
  <2>1. Reply(c) = <<[id |-> c.id, body |-> c.body]>>
    BY <1>3 DEF Reply
  <2>2. [id |-> c.id, body |-> c.body] \in Cycle
    BY <1>3 DEF CallTypeOK, Cycle
  <2> QED
    BY <1>3, <2>1, <2>2
<1>4. CASE c.op = "DELETE"
  BY <1>4 DEF Reply
<1> QED
  BY <1>2, <1>3, <1>4 DEF CallTypeOK

LEMMA ServeTyped ==
  ASSUME TypeInv, StoreInv, NEW c \in calls, Serve(c)
  PROVE  TypeInv'
<1>1. CallTypeOK(c)
  BY DEF TypeInv
<1>2. CASE ServeList(c)
  <2> DEFINE answer == IF Readable(Owner) THEN config.cycles ELSE Refused
  <2>1. answer \in Seq(Cycle) \cup {Waiting, Refused}
    BY DEF Readable, config, Documents
  <2>2. c.op = "GET" /\ Answer(c, answer) /\ UNCHANGED <<store, faults, view, excuse>>
    BY <1>2 DEF ServeList
  <2> HIDE DEF answer
  <2> QED
    BY <2>1, <2>2, AnswerTyped DEF TypeInv
<1>3. CASE ServeChange(c)
  <2>1. c.op # "GET" /\ Possible(c) /\ Answer(c, Reply(c)) /\ UNCHANGED view
    BY <1>3 DEF ServeChange, Possible
  <2>2. (\A d \in calls' : IsCall(d) /\ CallTypeOK(d)) /\ Distinct'
    BY <1>1, <2>1, ReplyTyped, AnswerTyped
  <2>3. UNCHANGED faults
    BY <1>3 DEF ServeChange, Create, Update, Delete
  <2>4. excuse' \in [Tabs -> SUBSET Excuses]
    BY <1>3 DEF ServeChange, Excused, TypeInv, Excuses
  <2> QED
    BY <2>1, <2>2, <2>3, <2>4 DEF TypeInv
<1>4. CASE TearChange(c)
  <2>1. c.op # "GET" /\ Possible(c) /\ UNCHANGED <<view, excuse>>
    BY <1>4 DEF TearChange, Possible
  <2>2. PICK told \in {Refused, Reply(c)} : Answer(c, told)
    BY <1>4 DEF TearChange
  <2>3. (\A d \in calls' : IsCall(d) /\ CallTypeOK(d)) /\ Distinct'
    BY <1>1, <2>1, <2>2, ReplyTyped, AnswerTyped
  <2>4. faults' \in 0 .. MaxFaults
    BY <1>4, DashboardAssumption DEF TearChange, Lose, TypeInv
  <2> QED
    BY <2>1, <2>3, <2>4 DEF TypeInv
<1>5. CASE RefuseChange(c)
  <2>1. Answer(c, Refused) /\ UNCHANGED <<store, faults, view, excuse>>
    BY <1>5 DEF RefuseChange
  <2> QED
    BY <2>1, AnswerTyped DEF TypeInv
<1> QED
  BY <1>2, <1>3, <1>4, <1>5 DEF Serve

LEMMA BreakTyped ==
  ASSUME TypeInv, NEW c \in calls, Break(c)
  PROVE  TypeInv'
<1>1. c.tab \in Tabs
  BY DEF Break, TypeInv, CallTypeOK
<1>2. calls' \subseteq calls /\ UNCHANGED view
  BY DEF Break
<1>3. faults' \in 0 .. MaxFaults
  BY DashboardAssumption DEF Break, Hiccup, TypeInv
<1>4. excuse[c.tab] \cup {"lost"} \in SUBSET Excuses
  BY <1>1 DEF TypeInv, Excuses
<1>5. excuse' \in [Tabs -> SUBSET Excuses]
  BY <1>1, <1>4 DEF Break, TypeInv
<1> QED
  BY <1>2, <1>3, <1>5 DEF TypeInv, Distinct

LEMMA ReducerTyped ==
  ASSUME NEW cycles \in Seq(Cycle), NEW c, CallTypeOK(c), Succeeded(c)
  PROVE  storeReducer(cycles, c) \in Seq(Cycle)
<1>1. c.answer \in Seq(Cycle)
  BY DEF CallTypeOK, Succeeded
<1>2. CASE c.op = "GET"
  BY <1>1, <1>2 DEF storeReducer
<1>3. CASE c.op = "POST"
  <2>1. c.answer[1] \in Cycle
    BY <1>1, <1>3 DEF CallTypeOK
  <2> QED
    BY <1>3, <2>1, AppendProperties DEF storeReducer
<1>4. CASE c.op = "PUT"
  <2>1. c.answer[1] \in Cycle
    BY <1>1, <1>4 DEF CallTypeOK
  <2> QED
    BY <1>4, <2>1, UpdateShownKeeps DEF storeReducer
<1>5. CASE c.op = "DELETE"
  <2>1. DeleteShown(cycles, c.id) \in Seq(Cycle)
    BY DeleteShownKeeps
  <2> QED
    BY <1>5, <2>1 DEF storeReducer
<1> QED
  BY <1>2, <1>3, <1>4, <1>5 DEF CallTypeOK

LEMMA DeliverTyped ==
  ASSUME TypeInv, NEW c \in calls, Deliver(c)
  PROVE  TypeInv'
<1>1. c.tab \in Tabs /\ CallTypeOK(c) /\ view[c.tab] \in Seq(Cycle)
  BY DEF Deliver, TypeInv, CallTypeOK
<1>2. calls' \subseteq calls /\ UNCHANGED faults
  BY DEF Deliver
<1>3. view' \in [Tabs -> Seq(Cycle)]
  <2>1. CASE Succeeded(c)
    <3>1. storeReducer(view[c.tab], c) \in Seq(Cycle)
      BY <1>1, <2>1, ReducerTyped
    <3>2. view' = [view EXCEPT ![c.tab] = storeReducer(view[c.tab], c)]
      BY <2>1 DEF Deliver
    <3> QED
      BY <1>1, <3>1, <3>2 DEF TypeInv
  <2> QED
    BY <2>1 DEF Deliver, TypeInv
<1>4. excuse[c.tab] \cup {"lost"} \in SUBSET Excuses
  BY <1>1 DEF TypeInv, Excuses
<1>5. excuse' \in [Tabs -> SUBSET Excuses]
  BY <1>1, <1>4 DEF Deliver, TypeInv
<1> QED
  BY <1>2, <1>3, <1>5 DEF TypeInv, Distinct

LEMMA StepTyped ==
  ASSUME TypeInv, StoreInv, [Next]_vars
  PROVE  TypeInv'
<1>1. CASE UNCHANGED vars
  BY <1>1 DEF vars, TypeInv, Distinct
<1>2. CASE Next
  BY <1>2, SubmitTyped, ReloadTyped, ServeTyped, BreakTyped, DeliverTyped DEF Next
<1> QED
  BY <1>1, <1>2

Base == StoreInv /\ TypeInv

LEMMA BaseInvariant == Spec => []Base
<1>1. Init => Base
  BY InitStore, InitTyped DEF Base
<1>2. Base /\ [Next]_vars => Base'
  <2> SUFFICES ASSUME Base, [Next]_vars PROVE Base'
    OBVIOUS
  <2>1. \A c \in calls : CallTypeOK(c)
    BY DEF Base, TypeInv
  <2> QED
    BY <2>1, StoreStep, StepTyped DEF Base
<1> QED
  BY <1>1, <1>2, PTL DEF Spec

\* Every call in flight has the shape its form or list item gives it, and a page waits
\* for at most one call of a kind about a cycle (storeReducer.js:9, _cycleAction.jsx:78).
THEOREM TypeCorrect == Spec => []TypeOK
<1>1. Base => TypeOK
  BY DEF Base, TypeInv, TypeOK, Distinct
<1> QED
  BY <1>1, BaseInvariant, PTL

\* Pages that all found room do not put more on the card than it takes, however many
\* there are (SD_Lite.ino:340, _createContent.jsx:214).
THEOREM LimitIsKept == Spec => []LimitHolds
<1>1. Base => LimitHolds
  BY DEF Base, StoreInv, LimitHolds
<1> QED
  BY <1>1, BaseInvariant, PTL

-----------------------------------------------------------------------------
(* What a page shows, however stale.  Every list that can reach the page is  *)
(* sane by itself; what is left is that the reducer keeps it so.  It does    *)
(* for a new cycle because the firmware never counts back: the id of an      *)
(* answer that waits is above every id the page can get to show before it.   *)

Sane(cycles) ==
  /\ Len(cycles) <= MaxCycles
  /\ \A i, j \in DOMAIN cycles : i < j => cycles[i].id < cycles[j].id

\* No id the server has yet to give is among these.
Below(cycles) ==
  Readable(Owner) => \A i \in DOMAIN cycles : cycles[i].id <= config.counter

Above(cycle, cycles) == \A i \in DOMAIN cycles : cycles[i].id < cycle.id

CallInv(c, t) ==
  /\ c.op # "GET" => ~ Loading(t)
  /\ c.op = "GET" /\ Succeeded(c) => Sane(c.answer) /\ Below(c.answer)
  /\ c.op = "POST" => Len(view[t]) < MaxCycles
  /\ c.op = "POST" /\ Succeeded(c) => Above(c.answer[1], view[t]) /\ Below(c.answer)

TabInv(t) ==
  "raced" \notin excuse[t] =>
    /\ Sane(view[t]) /\ Below(view[t])
    /\ \A c \in calls : c.tab = t => CallInv(c, t)

\* What was below the counter stays there.
LEMMA StaysBelow ==
  ASSUME StoreInv, StoreInv', CounterGrows, NEW cycles \in Seq(Cycle), Below(cycles)
  PROVE  Below(cycles)'
<1> SUFFICES ASSUME Readable(Owner)' PROVE \A i \in DOMAIN cycles : cycles[i].id <= config'.counter
  BY DEF Below
<1>1. Readable(Owner) /\ config.counter <= config'.counter
  BY DEF CounterGrows
<1>2. config.counter \in Nat /\ config'.counter \in Nat
  BY <1>1 DEF Readable, config, Documents
<1>3. \A i \in DOMAIN cycles : cycles[i].id \in Nat
  <2>1. \A i \in DOMAIN cycles : cycles[i] \in Cycle
    OBVIOUS
  <2> QED
    BY <2>1 DEF Cycle
<1> QED
  BY <1>1, <1>2, <1>3 DEF Below

\* A call of the tab that goes on waiting, or waits for its answer still.
LEMMA CallKept ==
  ASSUME TypeInv, StoreInv, StoreInv', CounterGrows, NEW t \in Tabs, view'[t] = view[t],
         Loading(t)' => Loading(t), NEW c, CallTypeOK(c), CallInv(c, t)
  PROVE  CallInv(c, t)'
<1>1. Succeeded(c) => c.answer \in Seq(Cycle)
  BY DEF CallTypeOK, Succeeded
<1>2. Succeeded(c)' <=> Succeeded(c)
  BY DEF Succeeded
<1>3. Succeeded(c) /\ Below(c.answer) => Below(c.answer)'
  BY <1>1, StaysBelow
<1>4. c.op # "GET" => ~ Loading(t)'
  BY DEF CallInv
<1> QED
  BY <1>2, <1>3, <1>4 DEF CallInv, Sane, Above

\* A step that leaves the page as it is, and gives it no new call.
LEMMA TabKept ==
  ASSUME TypeInv, StoreInv, StoreInv', CounterGrows, NEW t \in Tabs, TabInv(t),
         view'[t] = view[t], "raced" \in excuse[t] => "raced" \in excuse'[t],
         \A c \in calls' : c.tab = t => c \in calls
  PROVE  TabInv(t)'
<1> SUFFICES ASSUME "raced" \notin excuse'[t]
             PROVE  /\ Sane(view[t])' /\ Below(view[t])'
                    /\ \A c \in calls' : c.tab = t => CallInv(c, t)'
  BY DEF TabInv
<1>1. /\ Sane(view[t]) /\ Below(view[t])
      /\ \A c \in calls : c.tab = t => CallInv(c, t)
  BY DEF TabInv
<1>2. view[t] \in Seq(Cycle)
  BY DEF TypeInv
<1>3. Sane(view[t])'
  BY <1>1 DEF Sane
<1>4. Below(view[t])'
  <2>1. \A s \in Seq(Cycle) : Below(s) => Below(s)'
    BY StaysBelow
  <2> QED
    BY <1>1, <1>2, <2>1 DEF Below
<1>5. Loading(t)' => Loading(t)
  BY DEF Loading, Of
<1>6. ASSUME NEW c \in calls', c.tab = t
      PROVE  CallInv(c, t)'
  BY <1>1, <1>5, <1>6, CallKept DEF TypeInv
<1> QED
  BY <1>3, <1>4, <1>6

\* A button: the new call comes to a page that has had its list, or the page is excused.
LEMMA SendSane ==
  ASSUME TypeInv, StoreInv, StoreInv', CounterGrows, NEW t \in Tabs, TabInv(t),
         NEW s \in Tabs, NEW c, c.tab = s, c.op # "GET", c.answer = Waiting,
         c.op = "POST" => Len(view[s]) < MaxCycles, Send(s, c)
  PROVE  TabInv(t)'
<1>1. calls' = calls \cup {c} /\ UNCHANGED view
  BY DEF Send
<1>2. CASE t # s
  <2>1. excuse'[t] = excuse[t]
    BY <1>2 DEF Send, TypeInv
  <2> QED
    BY <1>1, <1>2, <2>1, TabKept
<1>3. CASE t = s /\ Loading(t)
  <2>1. "raced" \in excuse'[t]
    BY <1>3 DEF Send, TypeInv
  <2> QED
    BY <2>1 DEF TabInv
<1>4. CASE t = s /\ ~ Loading(t)
  <2>1. excuse' = excuse /\ ~ Loading(t)'
    BY <1>1, <1>4 DEF Send, Loading, Of
  <2> SUFFICES ASSUME "raced" \notin excuse[t]
               PROVE  TabInv(t)'
    BY <2>1 DEF TabInv
  <2>2. /\ Sane(view[t]) /\ Below(view[t])
        /\ \A d \in calls : d.tab = t => CallInv(d, t)
    BY DEF TabInv
  <2>3. Below(view[t])'
    <3>1. \A cycles \in Seq(Cycle) : Below(cycles) => Below(cycles)'
      BY StaysBelow
    <3> QED
      BY <1>1, <2>2, <3>1 DEF Below, TypeInv
  <2>4. CallInv(c, t)'
    BY <1>1, <1>4, <2>1 DEF CallInv, Succeeded
  <2>5. ASSUME NEW d \in calls, d.tab = t
        PROVE  CallInv(d, t)'
    BY <1>1, <2>1, <2>2, <2>5, CallKept DEF TypeInv
  <2> QED
    BY <1>1, <2>2, <2>3, <2>4, <2>5 DEF TabInv, Sane
<1> QED
  BY <1>2, <1>3, <1>4

LEMMA SubmitSane ==
  ASSUME TypeInv, StoreInv, StoreInv', CounterGrows, NEW t \in Tabs, TabInv(t), NEW s \in Tabs
  PROVE  /\ \A body \in Bodies : SubmitCreate(s, body) => TabInv(t)'
         /\ \A body \in Bodies : \A id \in Shown(s) : SubmitUpdate(s, id, body) => TabInv(t)'
         /\ \A id \in Shown(s) : SubmitDelete(s, id) => TabInv(t)'
<1>1. ASSUME NEW op, NEW id, NEW body
      PROVE  LET c == Call(s, op, id, body)
             IN  c.tab = s /\ c.op = op /\ c.answer = Waiting
  BY DEF Call
<1>2. ASSUME NEW body \in Bodies, SubmitCreate(s, body)
      PROVE  TabInv(t)'
  <2>1. Len(view[s]) < MaxCycles /\ Send(s, Call(s, "POST", NoId, body))
    BY <1>2 DEF SubmitCreate
  <2> QED
    BY <1>1, <2>1, SendSane
<1>3. ASSUME NEW body \in Bodies, NEW id \in Shown(s), SubmitUpdate(s, id, body)
      PROVE  TabInv(t)'
  <2>1. Send(s, Call(s, "PUT", id, body))
    BY <1>3 DEF SubmitUpdate
  <2> QED
    BY <1>1, <2>1, SendSane
<1>4. ASSUME NEW id \in Shown(s), SubmitDelete(s, id)
      PROVE  TabInv(t)'
  <2>1. Send(s, Call(s, "DELETE", id, NoBody))
    BY <1>4 DEF SubmitDelete
  <2> QED
    BY <1>1, <2>1, SendSane
<1> QED
  BY <1>2, <1>3, <1>4

LEMMA ReloadSane ==
  ASSUME TypeInv, StoreInv, StoreInv', CounterGrows, NEW t \in Tabs, TabInv(t),
         NEW s \in Tabs, Reload(s)
  PROVE  TabInv(t)'
<1>1. PICK orphans \in SUBSET {c \in calls : c.tab = s /\ c.op # "GET" /\ ~ Answered(c)} :
         /\ calls' = {c \in calls : c.tab # s} \cup {Mount(s)}
                       \cup {[c EXCEPT !.tab = Nobody] : c \in orphans}
         /\ view' = [view EXCEPT ![s] = <<>>]
         /\ excuse' = [excuse EXCEPT ![s] = {}]
  BY DEF Reload
<1>2. \A d \in calls' : d.tab = Nobody \/ d = Mount(s) \/ (d \in calls /\ d.tab # s)
  BY <1>1, OrphanTyped DEF TypeInv
<1>3. t # Nobody
  BY DashboardAssumption
<1>4. CASE t # s
  <2>1. view'[t] = view[t] /\ excuse'[t] = excuse[t]
    BY <1>1, <1>4 DEF TypeInv
  <2> QED
    BY <1>2, <1>3, <1>4, <2>1, MountTyped, TabKept
<1>5. CASE t = s
  <2>1. view'[t] = <<>>
    BY <1>1, <1>5 DEF TypeInv
  <2>2. Sane(view[t])' /\ Below(view[t])'
    BY <2>1, MaxCyclesAssumption DEF Sane, Below
  <2>3. \A d \in calls' : d.tab = t => d = Mount(t)
    BY <1>2, <1>3, <1>5
  <2>4. Mount(t).op = "GET" /\ Mount(t).answer = Waiting
    BY DEF Mount, Call
  <2>5. CallInv(Mount(t), t)'
    BY <2>4 DEF CallInv, Succeeded, Mount, Call
  <2> QED
    BY <2>2, <2>3, <2>5 DEF TabInv, CallInv, Mount, Call
<1> QED
  BY <1>4, <1>5

LEMMA BreakSane ==
  ASSUME TypeInv, StoreInv, StoreInv', CounterGrows, NEW t \in Tabs, TabInv(t),
         NEW c \in calls, Break(c)
  PROVE  TabInv(t)'
<1>1. calls' \subseteq calls /\ UNCHANGED view
  BY DEF Break
<1>2. c.tab \in Tabs
  BY DEF Break, TypeInv, CallTypeOK
<1>3. "raced" \in excuse[t] => "raced" \in excuse'[t]
  BY <1>2 DEF Break, TypeInv
<1> QED
  BY <1>1, <1>3, TabKept

LEMMA AnswerSane ==
  ASSUME TypeInv, StoreInv, StoreInv', CounterGrows, NEW t \in Tabs, TabInv(t),
         NEW c \in calls, ~ Answered(c), NEW answer \in Seq(Cycle) \cup {Waiting, Refused},
         c.op \in {"POST", "PUT"} /\ answer \notin {Waiting, Refused} => Len(answer) = 1,
         Answer(c, answer), UNCHANGED view, "raced" \in excuse[t] => "raced" \in excuse'[t],
         ASSUME c.tab = t, "raced" \notin excuse[t], answer \notin {Waiting, Refused}
         PROVE  /\ c.op = "GET" => Sane(answer) /\ Below(answer)'
                /\ c.op = "POST" => Above(answer[1], view[t]) /\ Below(answer)'
  PROVE  TabInv(t)'
<1> DEFINE e == [c EXCEPT !.answer = answer]
<1>1. /\ IsCall(e) /\ CallTypeOK(e)
      /\ e.tab = c.tab /\ e.op = c.op /\ e.id = c.id /\ e.answer = answer
  BY AnsweredTyped DEF TypeInv
<1>2. calls' \subseteq (calls \ {c}) \cup {e} /\ (c.tab = Nobody => calls' \subseteq calls)
  BY DEF Answer
<1> HIDE DEF e
<1>3. CASE c.tab # t
  BY <1>1, <1>2, <1>3, TabKept
<1>4. CASE c.tab = t
  <2> SUFFICES ASSUME "raced" \notin excuse'[t]
               PROVE  /\ Sane(view[t])' /\ Below(view[t])'
                      /\ \A d \in calls' : d.tab = t => CallInv(d, t)'
    BY DEF TabInv
  <2>1. /\ "raced" \notin excuse[t] /\ Sane(view[t]) /\ Below(view[t])
        /\ \A d \in calls : d.tab = t => CallInv(d, t)
    BY DEF TabInv
  <2>2. Below(view[t])'
    <3>1. \A cycles \in Seq(Cycle) : Below(cycles) => Below(cycles)'
      BY StaysBelow
    <3> QED
      BY <2>1, <3>1 DEF Below, TypeInv
  <2>3. Loading(t)' => Loading(t)
    BY <1>1, <1>2 DEF Loading, Of
  <2>4. ASSUME NEW d \in calls, d.tab = t
        PROVE  CallInv(d, t)'
    BY <2>1, <2>3, <2>4, CallKept DEF TypeInv
  <2>5. CallInv(e, t)'
    <3>1. CallInv(c, t)
      BY <1>4, <2>1
    <3>2. Succeeded(e)' => answer \notin {Waiting, Refused}
      BY <1>1 DEF Succeeded
    <3>3. e.op # "GET" => ~ Loading(t)'
      BY <1>1, <2>3, <3>1 DEF CallInv
    <3>4. e.op = "POST" => Len(view'[t]) < MaxCycles
      BY <1>1, <3>1 DEF CallInv
    <3>5. e.op = "GET" /\ Succeeded(e)' => Sane(answer) /\ Below(answer)'
      BY <1>1, <1>4, <2>1, <3>2
    <3>6. e.op = "POST" /\ Succeeded(e)' => Above(answer[1], view[t]) /\ Below(answer)'
      BY <1>1, <1>4, <2>1, <3>2
    <3> QED
      BY <1>1, <3>3, <3>4, <3>5, <3>6 DEF CallInv, Below
  <2> QED
    BY <1>2, <2>1, <2>2, <2>4, <2>5 DEF Sane
<1> QED
  BY <1>3, <1>4

\* The answer to a create carries the next id, above all the page can show.
LEMMA NewIsAbove ==
  ASSUME TypeInv, StoreInv, StoreInv', NEW t \in Tabs, Below(view[t]),
         NEW c, CallTypeOK(c), c.op = "POST", Possible(c),
         Readable(Owner)' => config'.counter = config.counter + 1,
         NEW answer, answer = Reply(c)
  PROVE  Above(answer[1], view[t]) /\ Below(answer)'
<1>1. Readable(Owner) /\ config.counter \in Nat
  BY DEF Possible, Readable, config, Documents
<1>2. answer[1].id = config.counter + 1 /\ DOMAIN answer = {1}
  <2>1. Reply(c) = <<[id |-> config.counter + 1, body |-> c.body]>>
    BY DEF Reply
  <2> QED
    BY <2>1
<1>3. \A i \in DOMAIN view[t] : view[t][i].id \in Nat
  <2>1. \A i \in DOMAIN view[t] : view[t][i] \in Cycle
    BY DEF TypeInv
  <2> QED
    BY <2>1 DEF Cycle
<1>4. Above(answer[1], view[t])
  BY <1>1, <1>2, <1>3 DEF Above, Below
<1>5. ASSUME Readable(Owner)', NEW i \in DOMAIN answer
      PROVE  answer[i].id <= config'.counter
  BY <1>1, <1>2, <1>5
<1> QED
  BY <1>4, <1>5 DEF Below

\* The server: a list that parses is sane, and a new id is above what is shown.
LEMMA ServeSane ==
  ASSUME TypeInv, StoreInv, StoreInv', CounterGrows, NEW t \in Tabs, TabInv(t),
         NEW c \in calls, Serve(c)
  PROVE  TabInv(t)'
<1>1. CallTypeOK(c) /\ ~ Answered(c)
  BY DEF TypeInv, Serve
<1>2. "raced" \notin excuse[t] => Below(view[t])
  BY DEF TabInv
<1>3. CASE ServeList(c)
  <2>1. PICK answer : answer = IF Readable(Owner) THEN config.cycles ELSE Refused
    OBVIOUS
  <2>2. c.op = "GET" /\ Answer(c, answer) /\ UNCHANGED <<store, view, excuse>>
    BY <1>3, <2>1 DEF ServeList
  <2>3. answer \in Seq(Cycle) \cup {Waiting, Refused}
    BY <2>1 DEF Readable, config, Documents
  <2>4. ASSUME answer \notin {Waiting, Refused}
        PROVE  Sane(answer) /\ Below(answer)'
    <3>1. Readable(Owner) /\ answer = config.cycles /\ WellFormed(config)
      BY <2>1, <2>4 DEF StoreInv
    <3>2. config.counter \in Nat
      BY <3>1 DEF Readable, config, Documents
    <3>3. config' = config
      BY <2>2 DEF config
    <3> QED
      BY <3>1, <3>2, <3>3 DEF WellFormed, Sane, Below
  <2> QED
    BY <1>1, <2>2, <2>3, <2>4, AnswerSane
<1>4. CASE ServeChange(c)
  <2>1. c.op # "GET" /\ Possible(c) /\ Answer(c, Reply(c)) /\ UNCHANGED view
    BY <1>4 DEF ServeChange, Possible
  <2>2. PICK answer : answer = Reply(c)
    OBVIOUS
  <2>3. answer \in Seq(Cycle) /\ (c.op \in {"POST", "PUT"} => Len(answer) = 1)
    BY <1>1, <2>1, <2>2, ReplyTyped
  <2>4. "raced" \in excuse[t] => "raced" \in excuse'[t]
    BY <1>4 DEF ServeChange, Excused
  <2>5. ASSUME c.op = "POST", "raced" \notin excuse[t]
        PROVE  Above(answer[1], view[t]) /\ Below(answer)'
    <3>1. store' = [store EXCEPT ![Owner] = Added(config, c.body)]
      BY <1>4, <2>5 DEF ServeChange, Create, config
    <3>2. config' = Added(config, c.body)
      BY <3>1, DashboardAssumption DEF StoreInv, config
    <3>3. config'.counter = config.counter + 1
      BY <3>2 DEF Added
    <3> QED
      BY <1>1, <1>2, <2>1, <2>2, <2>5, <3>3, NewIsAbove
  <2> QED
    BY <1>1, <2>1, <2>2, <2>3, <2>4, <2>5, AnswerSane
<1>5. CASE TearChange(c)
  <2>1. c.op # "GET" /\ Possible(c) /\ UNCHANGED <<view, excuse>>
    BY <1>5 DEF TearChange, Possible
  <2>2. PICK answer \in {Refused, Reply(c)} : Answer(c, answer)
    BY <1>5 DEF TearChange
  <2>3. ~ Readable(Owner)'
    <3>1. store'[Owner] = Torn
      BY <1>5, DashboardAssumption DEF TearChange, Lose, StoreInv
    <3> QED
      BY <3>1, StoreAssumption DEF Readable
  <2>4. /\ answer \in Seq(Cycle) \cup {Refused}
        /\ c.op \in {"POST", "PUT"} /\ answer # Refused => Len(answer) = 1
    BY <1>1, <2>1, <2>2, ReplyTyped
  <2>5. ASSUME c.op = "POST", "raced" \notin excuse[t], answer # Refused
        PROVE  Above(answer[1], view[t]) /\ Below(answer)'
    BY <1>1, <1>2, <2>1, <2>2, <2>3, <2>5, NewIsAbove
  <2> QED
    BY <1>1, <2>1, <2>2, <2>4, <2>5, AnswerSane
<1>6. CASE RefuseChange(c)
  <2>1. Answer(c, Refused) /\ UNCHANGED <<view, excuse>>
    BY <1>6 DEF RefuseChange
  <2> QED
    BY <1>1, <2>1, AnswerSane
<1> QED
  BY <1>3, <1>4, <1>5, <1>6 DEF Serve

\* An update or a deletion keeps the list sane and brings no id in.
LEMMA ReducerSane ==
  ASSUME NEW cycles \in Seq(Cycle), Sane(cycles), NEW c, CallTypeOK(c), Succeeded(c),
         c.op \in {"PUT", "DELETE"}, NEW shown, shown = storeReducer(cycles, c)
  PROVE  /\ Sane(shown) /\ Len(shown) <= Len(cycles)
         /\ \A i \in DOMAIN shown : \E j \in DOMAIN cycles : shown[i].id = cycles[j].id
<1>1. Len(cycles) \in Nat /\ DOMAIN cycles = 1 .. Len(cycles) /\ MaxCycles \in Nat
  BY MaxCyclesAssumption
<1>2. CASE c.op = "PUT"
  <2>1. c.answer[1] \in Cycle
    BY <1>2 DEF CallTypeOK, Succeeded
  <2>2. shown = UpdateShown(cycles, c.answer[1])
    BY <1>2 DEF storeReducer
  <2>3. /\ DOMAIN shown = DOMAIN cycles /\ Len(shown) = Len(cycles)
        /\ \A i \in DOMAIN cycles : shown[i].id = cycles[i].id
    BY <2>1, <2>2, UpdateShownKeeps
  <2> QED
    BY <1>1, <2>3 DEF Sane
<1>3. CASE c.op = "DELETE"
  <2> DEFINE k == FirstShown(cycles, c.id)
  <2>1. shown = DeleteShown(cycles, c.id)
    BY <1>3 DEF storeReducer
  <2>2. /\ shown \in Seq(Cycle)
        /\ k = 0 => shown = cycles
        /\ k # 0 => /\ Len(shown) = Len(cycles) - 1
                    /\ \A i \in 1 .. Len(shown) :
                         Old(i, k) \in DOMAIN cycles /\ shown[i] = cycles[Old(i, k)]
    BY <2>1, DeleteShownKeeps
  <2>3. k \in Nat
    BY FirstShownFinds
  <2> HIDE DEF k
  <2>4. CASE k = 0
    BY <1>1, <2>2, <2>4 DEF Sane
  <2>5. CASE k # 0
    <3>1. DOMAIN shown = 1 .. Len(shown) /\ Len(shown) \in Nat
      BY <2>2
    <3>2. ASSUME NEW i \in DOMAIN shown, NEW j \in DOMAIN shown, i < j
          PROVE  shown[i].id < shown[j].id
      <4>1. Old(i, k) < Old(j, k)
        BY <2>3, <3>1, <3>2 DEF Old
      <4>2. /\ Old(i, k) \in DOMAIN cycles /\ shown[i] = cycles[Old(i, k)]
            /\ Old(j, k) \in DOMAIN cycles /\ shown[j] = cycles[Old(j, k)]
        BY <2>2, <2>5, <3>1
      <4> QED
        BY <4>1, <4>2 DEF Sane
    <3>3. Len(shown) <= MaxCycles /\ Len(shown) <= Len(cycles)
      BY <1>1, <2>2, <2>5 DEF Sane
    <3>4. \A i \in DOMAIN shown : \E j \in DOMAIN cycles : shown[i].id = cycles[j].id
      BY <2>2, <2>5, <3>1
    <3> QED
      BY <3>2, <3>3, <3>4 DEF Sane
  <2> QED
    BY <2>4, <2>5
<1> QED
  BY <1>2, <1>3

\* A new cycle goes to the end, where the highest id belongs.
LEMMA AppendSane ==
  ASSUME NEW cycles \in Seq(Cycle), Sane(cycles), NEW cycle \in Cycle,
         Above(cycle, cycles), Len(cycles) < MaxCycles
  PROVE  /\ Sane(Append(cycles, cycle))
         /\ \A i \in DOMAIN Append(cycles, cycle) :
              \/ Append(cycles, cycle)[i] = cycle
              \/ i \in DOMAIN cycles /\ Append(cycles, cycle)[i] = cycles[i]
<1> DEFINE n == Len(cycles)
           longer == Append(cycles, cycle)
<1>1. /\ n \in Nat /\ DOMAIN cycles = 1 .. n /\ MaxCycles \in Nat
      /\ Len(longer) = n + 1 /\ DOMAIN longer = 1 .. n + 1
      /\ longer[n + 1] = cycle /\ \A i \in 1 .. n : longer[i] = cycles[i]
  BY MaxCyclesAssumption, AppendProperties
<1>2. n < MaxCycles
  OBVIOUS
<1> HIDE DEF n, longer
<1>3. ASSUME NEW i \in DOMAIN longer, NEW j \in DOMAIN longer, i < j
      PROVE  longer[i].id < longer[j].id
  <2>1. i \in 1 .. n
    BY <1>1, <1>3
  <2>2. CASE j \in 1 .. n
    BY <1>1, <1>3, <2>1, <2>2 DEF Sane
  <2>3. CASE j = n + 1
    BY <1>1, <2>1, <2>3 DEF Above
  <2> QED
    BY <1>1, <2>2, <2>3
<1>4. Len(longer) <= MaxCycles
  BY <1>1, <1>2
<1>5. \A i \in DOMAIN longer : longer[i] = cycle \/ (i \in DOMAIN cycles /\ longer[i] = cycles[i])
  BY <1>1
<1> QED
  BY <1>3, <1>4, <1>5 DEF Sane, longer

\* The page takes an answer.
LEMMA DeliverSane ==
  ASSUME TypeInv, StoreInv, StoreInv', CounterGrows, NEW t \in Tabs, TabInv(t),
         NEW c \in calls, Deliver(c)
  PROVE  TabInv(t)'
<1>1. c.tab \in Tabs /\ CallTypeOK(c) /\ calls' = calls \ {c} /\ UNCHANGED store
  BY DEF Deliver, TypeInv, CallTypeOK
<1>2. "raced" \in excuse[t] => "raced" \in excuse'[t]
  BY <1>1 DEF Deliver, TypeInv
<1>3. CASE c.tab # t \/ ~ Succeeded(c)
  <2>1. view'[t] = view[t]
    BY <1>1, <1>3 DEF Deliver, TypeInv
  <2> QED
    BY <1>1, <1>2, <2>1, TabKept
<1>4. CASE c.tab = t /\ Succeeded(c)
  <2> SUFFICES ASSUME "raced" \notin excuse'[t]
               PROVE  /\ Sane(view'[t]) /\ Below(view[t])'
                      /\ \A d \in calls' : d.tab = t => CallInv(d, t)'
    BY DEF TabInv, Sane
  <2>1. /\ Sane(view[t]) /\ Below(view[t])
        /\ \A d \in calls : d.tab = t => CallInv(d, t)
    BY <1>2 DEF TabInv
  <2>2. /\ view[t] \in Seq(Cycle) /\ view'[t] = storeReducer(view[t], c)
        /\ t # Nobody
    BY <1>4, DashboardAssumption DEF Deliver, TypeInv
  <2>3. CallInv(c, t) /\ c.answer \in Seq(Cycle)
    BY <1>1, <1>4, <2>1 DEF CallTypeOK, Succeeded
  <2>4. (Readable(Owner)' <=> Readable(Owner)) /\ config' = config
    BY <1>1 DEF Readable, config
  <2>5. Loading(t)' => Loading(t)
    BY <1>1 DEF Loading, Of
  <2>6. CASE c.op = "GET"
    <3>1. view'[t] = c.answer
      BY <2>2, <2>6 DEF storeReducer
    <3>2. Loading(t) /\ c.id = NoId
      BY <1>1, <1>4, <2>6 DEF Loading, Of, CallTypeOK
    <3>3. ASSUME NEW d \in calls', d.tab = t
          PROVE  FALSE
      <4>1. d \in calls /\ d # c /\ CallTypeOK(d) /\ CallInv(d, t)
        BY <1>1, <2>1, <3>3 DEF TypeInv
      <4>2. d.op = "GET" /\ d.id = NoId
        BY <3>2, <4>1 DEF CallInv, CallTypeOK
      <4> QED
        BY <1>4, <2>2, <2>6, <3>2, <3>3, <4>1, <4>2 DEF TypeInv, Distinct
    <3> QED
      BY <1>4, <2>3, <2>4, <2>6, <3>1, <3>3 DEF CallInv, Below
  <2>7. CASE c.op = "POST"
    <3>1. view'[t] = Append(view[t], c.answer[1])
      BY <2>2, <2>7 DEF storeReducer
    <3>2. /\ c.answer[1] \in Cycle /\ 1 \in DOMAIN c.answer /\ c.id = NoId
          /\ Above(c.answer[1], view[t]) /\ Below(c.answer) /\ Len(view[t]) < MaxCycles
      BY <1>1, <1>4, <2>3, <2>7 DEF CallTypeOK, CallInv
    <3>3. /\ Sane(view'[t])
          /\ \A i \in DOMAIN view'[t] :
               view'[t][i] = c.answer[1] \/ (i \in DOMAIN view[t] /\ view'[t][i] = view[t][i])
      BY <2>1, <2>2, <3>1, <3>2, AppendSane
    <3>4. Below(view[t])'
      BY <2>1, <2>4, <3>2, <3>3 DEF Below
    <3>5. ASSUME NEW d \in calls', d.tab = t
          PROVE  CallInv(d, t)'
      <4>1. d \in calls /\ d # c /\ CallTypeOK(d) /\ CallInv(d, t)
        BY <1>1, <2>1, <3>5 DEF TypeInv
      <4>2. d.op # "POST"
        BY <1>4, <2>2, <2>7, <3>2, <3>5, <4>1 DEF TypeInv, Distinct, CallTypeOK
      <4>3. ~ Loading(t) /\ d.op # "GET"
        BY <2>3, <2>7, <3>5, <4>1 DEF CallInv, Loading, Of, CallTypeOK
      <4> QED
        BY <2>5, <4>2, <4>3 DEF CallInv
    <3> QED
      BY <3>3, <3>4, <3>5
  <2>8. CASE c.op \in {"PUT", "DELETE"}
    <3>1. PICK shown : shown = storeReducer(view[t], c)
      OBVIOUS
    <3>2. /\ Sane(shown) /\ Len(shown) <= Len(view[t])
          /\ \A i \in DOMAIN shown : \E j \in DOMAIN view[t] : shown[i].id = view[t][j].id
      BY <1>1, <1>4, <2>1, <2>2, <2>8, <3>1, ReducerSane
    <3>3. view'[t] = shown
      BY <2>2, <3>1
    <3>4. Below(view[t])'
      BY <2>1, <2>4, <3>2, <3>3 DEF Below
    <3>5. ASSUME NEW d \in calls', d.tab = t
          PROVE  CallInv(d, t)'
      <4>1. d \in calls /\ d # c /\ CallTypeOK(d) /\ CallInv(d, t)
        BY <1>1, <2>1, <3>5 DEF TypeInv
      <4>2. ~ Loading(t) /\ d.op # "GET"
        BY <2>3, <2>8, <3>5, <4>1 DEF CallInv, Loading, Of, CallTypeOK
      <4>3. d.op = "POST" => Len(view'[t]) < MaxCycles
        <5>1. shown \in Seq(Cycle)
          BY <1>1, <1>4, <2>2, <3>1, ReducerTyped
        <5>2. Len(shown) \in Nat /\ Len(view[t]) \in Nat /\ MaxCycles \in Nat
          BY <2>2, <5>1, MaxCyclesAssumption
        <5> QED
          BY <3>2, <3>3, <4>1, <5>2 DEF CallInv
      <4>4. d.op = "POST" /\ Succeeded(d) =>
              Above(d.answer[1], view[t]) /\ Below(d.answer)
        BY <4>1 DEF CallInv
      <4>5. d.op = "POST" /\ Succeeded(d) => Above(d.answer[1], view'[t])
        BY <3>2, <3>3, <4>4 DEF Above
      <4>6. Below(d.answer) => Below(d.answer)'
        BY <2>4 DEF Below
      <4> QED
        BY <2>5, <4>2, <4>3, <4>4, <4>5, <4>6 DEF CallInv, Above, Succeeded
    <3> QED
      BY <3>2, <3>3, <3>4, <3>5
  <2> QED
    BY <1>1, <2>6, <2>7, <2>8 DEF CallTypeOK
<1> QED
  BY <1>3, <1>4

LEMMA StepSane ==
  ASSUME TypeInv, StoreInv, StoreInv', CounterGrows, [Next]_vars,
         NEW t \in Tabs, TabInv(t)
  PROVE  TabInv(t)'
<1>1. CASE UNCHANGED vars
  BY <1>1, TabKept DEF vars
<1>2. CASE Next
  BY <1>2, SubmitSane, ReloadSane, ServeSane, BreakSane, DeliverSane DEF Next
<1> QED
  BY <1>1, <1>2

SaneInv == Base /\ \A t \in Tabs : TabInv(t)

LEMMA InitSane == Init => SaneInv
<1> SUFFICES ASSUME Init, NEW t \in Tabs PROVE TabInv(t)
  BY InitStore, InitTyped DEF SaneInv, Base
<1>1. view[t] = <<>>
  BY DEF Init
<1>2. Sane(view[t]) /\ Below(view[t])
  BY <1>1, MaxCyclesAssumption DEF Sane, Below
<1>3. ASSUME NEW c \in calls, c.tab = t
      PROVE  CallInv(c, t)
  <2>1. c.op = "GET" /\ c.answer = Waiting
    BY DEF Init, Mount, Call
  <2> QED
    BY <2>1 DEF CallInv, Succeeded
<1> QED
  BY <1>2, <1>3 DEF TabInv

LEMMA SaneStep ==
  ASSUME SaneInv, [Next]_vars
  PROVE  SaneInv' /\ StoreInv' /\ CounterGrows /\ TypeInv
<1>1. StoreInv /\ TypeInv /\ \A c \in calls : CallTypeOK(c)
  BY DEF SaneInv, Base, TypeInv
<1>2. StoreInv' /\ CounterGrows /\ TypeInv'
  BY <1>1, StoreStep, StepTyped
<1>3. \A t \in Tabs : TabInv(t)'
  BY <1>1, <1>2, StepSane DEF SaneInv
<1> QED
  BY <1>1, <1>2, <1>3 DEF SaneInv, Base

\* However stale a page is, and whatever the order its answers come in, it shows no
\* more cycles than the limit, none twice and none out of order, if it sent no change
\* before it had its list (storeReducer.js:4-27, SD_Lite.ino:337-344).
THEOREM PagesAreSane == Spec => []ShownIsSane
<1>1. SaneInv /\ [Next]_vars => SaneInv'
  BY SaneStep
<1>2. SaneInv => ShownIsSane
  BY DEF SaneInv, TabInv, Sane, ShownIsSane
<1> QED
  BY <1>1, <1>2, InitSane, PTL DEF Spec

\* The pages change the card only as CycleStore promises: what SDLite implements is all
\* they rely on (_createContent.jsx:32, _updateContent.jsx:27, _cycleAction.jsx:35).
THEOREM PagesUseTheStore == Spec => StoreSpec
<1>1. Init => StoreInit
  BY DEF Init
<1>2. Base /\ [Next]_vars => [StoreNext]_storeVars
  <2> SUFFICES ASSUME Base, [Next]_vars PROVE [StoreNext]_storeVars
    OBVIOUS
  <2>1. CASE UNCHANGED storeVars
    BY <2>1
  <2>2. CASE Hiccup
    BY <2>2 DEF StoreNext
  <2>3. ASSUME NEW c \in calls, ServeChange(c)
        PROVE  StoreNext
    <3>1. CallTypeOK(c) /\ Readable(Owner) /\ WellFormed(config) /\ config.counter \in Nat
      BY <2>3 DEF Base, TypeInv, StoreInv, ServeChange, Possible, Readable, config, Documents
    <3>2. IdsOf(config) \subseteq Issued(Owner)
      BY <3>1 DEF IdsOf, WellFormed, Issued, config
    <3>3. CASE c.op = "POST" /\ Create(Owner, c.body)
      BY <3>1, <3>3, DashboardAssumption DEF CallTypeOK, StoreNext
    <3>4. CASE c.op = "PUT" /\ Update(Owner, c.id, c.body)
      BY <3>1, <3>2, <3>4, DashboardAssumption DEF CallTypeOK, StoreNext, Update, config
    <3>5. CASE c.op = "DELETE" /\ Delete(Owner, c.id)
      BY <3>2, <3>5, DashboardAssumption DEF StoreNext, Delete, config
    <3> QED
      BY <2>3, <3>3, <3>4, <3>5 DEF ServeChange
  <2>4. ASSUME NEW c \in calls, TearChange(c)
        PROVE  StoreNext
    BY <2>4, DashboardAssumption DEF TearChange, StoreNext
  <2>5. \/ UNCHANGED storeVars \/ Hiccup
        \/ \E c \in calls : ServeChange(c) \/ TearChange(c)
    BY DEF Next, vars, storeVars, SubmitCreate, SubmitUpdate, SubmitDelete, Send, Reload,
           Serve, ServeList, RefuseChange, Break, Deliver
  <2> QED
    BY <2>1, <2>2, <2>3, <2>4, <2>5
<1> QED
  BY <1>1, <1>2, BaseInvariant, PTL DEF Spec, StoreSpec

-----------------------------------------------------------------------------
(* What a page with no excuse shows.  Both lists are sane, so each is told   *)
(* by the set of its cycles, and the reducer edits the one set as the        *)
(* handlers edit the other.                                                  *)

\* No cycle of the list has the id.
Gone(cycles, id) == \A x \in Range(cycles) : x.id # id

\* The ids of a sane list tell its cycles apart.
LEMMA SaneIds ==
  ASSUME NEW cycles \in Seq(Cycle), Sane(cycles)
  PROVE  /\ \A i, j \in DOMAIN cycles : cycles[i].id = cycles[j].id => i = j
         /\ \A x, y \in Range(cycles) : x.id = y.id => x = y
         /\ \A x \in Range(cycles) : x \in Cycle /\ x.id \in Nat
<1>1. \A i \in DOMAIN cycles : i \in Nat /\ cycles[i] \in Cycle /\ cycles[i].id \in Nat
  <2>1. \A i \in DOMAIN cycles : i \in Nat /\ cycles[i] \in Cycle
    OBVIOUS
  <2> QED
    BY <2>1 DEF Cycle
<1>2. ASSUME NEW i \in DOMAIN cycles, NEW j \in DOMAIN cycles, cycles[i].id = cycles[j].id
      PROVE  i = j
  <2>1. ~ (cycles[i].id < cycles[j].id) /\ ~ (cycles[j].id < cycles[i].id)
    BY <1>1, <1>2
  <2>2. ~ (i < j) /\ ~ (j < i)
    BY <1>2, <2>1 DEF Sane
  <2> QED
    BY <1>1, <2>2
<1>3. \A x \in Range(cycles) : \E i \in DOMAIN cycles : x = cycles[i]
  BY DEF Range
<1> QED
  BY <1>1, <1>2, <1>3

\* POST puts the new cycle among the others.
LEMMA AppendRange ==
  ASSUME NEW cycles \in Seq(Cycle), NEW cycle \in Cycle
  PROVE  \A x : x \in Range(Append(cycles, cycle)) <=> x \in Range(cycles) \/ x = cycle
<1> DEFINE n == Len(cycles)
           longer == Append(cycles, cycle)
<1>1. /\ n \in Nat /\ DOMAIN cycles = 1 .. n /\ DOMAIN longer = 1 .. n + 1
      /\ longer[n + 1] = cycle /\ \A i \in 1 .. n : longer[i] = cycles[i]
  BY AppendProperties
<1> HIDE DEF n, longer
<1>2. \A i \in 1 .. n + 1 : i \in 1 .. n \/ i = n + 1
  BY <1>1
<1>3. (\A i \in 1 .. n : i \in 1 .. n + 1) /\ n + 1 \in 1 .. n + 1
  BY <1>1
<1>4. ASSUME NEW x
      PROVE  x \in Range(longer) <=> x \in Range(cycles) \/ x = cycle
  <2>1. x \in Range(longer) => x \in Range(cycles) \/ x = cycle
    BY <1>1, <1>2 DEF Range
  <2>2. x \in Range(cycles) => x \in Range(longer)
    BY <1>1, <1>3 DEF Range
  <2>3. cycle \in Range(longer)
    BY <1>1, <1>3 DEF Range
  <2> QED
    BY <2>1, <2>2, <2>3
<1> QED
  BY <1>4 DEF longer

\* PUT puts the cycle in the place of the one with its id, where there is one.
LEMMA UpdateRange ==
  ASSUME NEW cycles \in Seq(Cycle), Sane(cycles), NEW cycle \in Cycle
  PROVE  \A x : x \in Range(UpdateShown(cycles, cycle)) <=>
                  \/ x \in Range(cycles) /\ x.id # cycle.id
                  \/ x = cycle /\ ~ Gone(cycles, cycle.id)
<1> DEFINE k == FirstShown(cycles, cycle.id)
           shown == UpdateShown(cycles, cycle)
<1>1. /\ k \in 0 .. Len(cycles)
      /\ k # 0 => cycles[k].id = cycle.id
      /\ k = 0 => \A i \in DOMAIN cycles : cycles[i].id # cycle.id
  BY FirstShownFinds
<1>2. shown = IF k = 0 THEN cycles ELSE [cycles EXCEPT ![k] = cycle]
  BY DEF UpdateShown, ReplaceAt
<1>3. \A i, j \in DOMAIN cycles : cycles[i].id = cycles[j].id => i = j
  BY SaneIds
<1>4. DOMAIN cycles = 1 .. Len(cycles) /\ Len(cycles) \in Nat
  OBVIOUS
<1> HIDE DEF k, shown
<1>5. CASE k = 0
  <2>1. Gone(cycles, cycle.id)
    BY <1>1, <1>5 DEF Gone, Range
  <2> QED
    BY <1>2, <1>5, <2>1 DEF Gone, shown
<1>6. CASE k # 0
  <2>1. k \in DOMAIN cycles /\ cycles[k].id = cycle.id
    BY <1>1, <1>4, <1>6
  <2>2. /\ DOMAIN shown = DOMAIN cycles /\ shown[k] = cycle
        /\ \A i \in DOMAIN cycles : i # k => shown[i] = cycles[i]
    BY <1>2, <1>6, <2>1
  <2>3. cycle \in Range(shown) /\ ~ Gone(cycles, cycle.id)
    BY <2>1, <2>2 DEF Range, Gone
  <2>4. ASSUME NEW x \in Range(cycles), x.id # cycle.id
        PROVE  x \in Range(shown)
    <3>1. PICK i \in DOMAIN cycles : x = cycles[i]
      BY DEF Range
    <3> QED
      BY <2>1, <2>2, <2>4, <3>1 DEF Range
  <2>5. ASSUME NEW x \in Range(shown), x # cycle
        PROVE  x \in Range(cycles) /\ x.id # cycle.id
    <3>1. PICK i \in DOMAIN cycles : x = shown[i]
      BY <2>2 DEF Range
    <3>2. i # k /\ x = cycles[i]
      BY <2>2, <2>5, <3>1
    <3>3. x.id # cycle.id
      BY <1>3, <2>1, <3>2
    <3> QED
      BY <3>2, <3>3 DEF Range
  <2> QED
    BY <2>3, <2>4, <2>5 DEF shown
<1> QED
  BY <1>5, <1>6

\* DELETE takes the one cycle with the id out, where there is one.
LEMMA DeleteRange ==
  ASSUME NEW cycles \in Seq(Cycle), Sane(cycles), NEW id
  PROVE  \A x : x \in Range(DeleteShown(cycles, id)) <=> x \in Range(cycles) /\ x.id # id
<1> DEFINE k == FirstShown(cycles, id)
           rest == DeleteShown(cycles, id)
           n == Len(cycles)
<1>1. /\ k \in 0 .. n
      /\ k # 0 => cycles[k].id = id
      /\ k = 0 => \A i \in DOMAIN cycles : cycles[i].id # id
  BY FirstShownFinds
<1>2. /\ rest \in Seq(Cycle)
      /\ k = 0 => rest = cycles
      /\ k # 0 => /\ Len(rest) = n - 1
                  /\ \A i \in 1 .. Len(rest) :
                       Old(i, k) \in DOMAIN cycles /\ rest[i] = cycles[Old(i, k)]
  BY DeleteShownKeeps
<1>3. \A i, j \in DOMAIN cycles : cycles[i].id = cycles[j].id => i = j
  BY SaneIds
<1>4. DOMAIN cycles = 1 .. n /\ n \in Nat /\ DOMAIN rest = 1 .. Len(rest)
  BY <1>2
<1> HIDE DEF k, rest, n
<1>5. CASE k = 0
  <2>1. \A x \in Range(cycles) : x.id # id
    BY <1>1, <1>5 DEF Range
  <2> QED
    BY <1>2, <1>5, <2>1 DEF rest
<1>6. CASE k # 0
  <2>1. k \in DOMAIN cycles /\ k \in 1 .. n /\ cycles[k].id = id
    BY <1>1, <1>4, <1>6
  <2>2. DOMAIN rest = 1 .. n - 1 /\ \A i \in 1 .. n - 1 :
          Old(i, k) \in DOMAIN cycles /\ rest[i] = cycles[Old(i, k)]
    BY <1>2, <1>4, <1>6
  <2>3. ASSUME NEW x \in Range(rest)
        PROVE  x \in Range(cycles) /\ x.id # id
    <3>1. PICK i \in 1 .. n - 1 : x = rest[i]
      BY <2>2 DEF Range
    <3>2. Old(i, k) # k
      BY <1>4, <2>1 DEF Old
    <3>3. Old(i, k) \in DOMAIN cycles /\ x = cycles[Old(i, k)]
      BY <2>2, <3>1
    <3>4. cycles[Old(i, k)].id # id
      BY <1>3, <2>1, <3>2, <3>3
    <3> QED
      BY <3>3, <3>4 DEF Range
  <2>4. ASSUME NEW x \in Range(cycles), x.id # id
        PROVE  x \in Range(rest)
    <3>1. PICK j \in 1 .. n : x = cycles[j]
      BY <1>4 DEF Range
    <3>2. j # k
      BY <2>1, <2>4, <3>1
    <3>3. \E i \in 1 .. n - 1 : Old(i, k) = j
      <4>1. CASE j < k
        <5>1. j \in 1 .. n - 1 /\ Old(j, k) = j
          BY <1>4, <2>1, <4>1 DEF Old
        <5> QED
          BY <5>1
      <4>2. CASE j > k
        <5>1. j - 1 \in 1 .. n - 1 /\ Old(j - 1, k) = j
          BY <1>4, <2>1, <4>2 DEF Old
        <5> QED
          BY <5>1
      <4> QED
        BY <1>4, <2>1, <3>2, <4>1, <4>2
    <3> QED
      BY <2>2, <3>1, <3>3 DEF Range
  <2> QED
    BY <2>3, <2>4 DEF rest
<1> QED
  BY <1>5, <1>6

\* A well-formed document is as sane as a page, and the handlers of PUT and DELETE
\* edit it as the reducer edits the page.
LEMMA EditsAlike ==
  ASSUME NEW doc \in Documents, WellFormed(doc), NEW id \in IdsOf(doc)
  PROVE  /\ Sane(doc.cycles)
         /\ \A body \in Bodies : Updated(doc, id, body).cycles =
                                   UpdateShown(doc.cycles, [id |-> id, body |-> body])
         /\ Removed(doc, id).cycles = DeleteShown(doc.cycles, id)
<1> DEFINE k == IndexOf(doc, id)
<1>1. k \in DOMAIN doc.cycles /\ doc.cycles \in Seq(Cycle)
  BY IndexOfFinds DEF Documents
<1>2. k # 0
  BY <1>1
<1>3. k = FirstShown(doc.cycles, id)
  BY DEF IndexOf, FirstShown
<1> HIDE DEF k
<1>4. ASSUME NEW body \in Bodies
      PROVE  Updated(doc, id, body).cycles = UpdateShown(doc.cycles, [id |-> id, body |-> body])
  <2>1. Updated(doc, id, body).cycles = ReplaceAt(doc.cycles, k, [id |-> id, body |-> body])
    BY DEF Updated, Documents, k
  <2> QED
    BY <1>2, <1>3, <2>1 DEF UpdateShown
<1>5. Removed(doc, id).cycles = DeleteShown(doc.cycles, id)
  <2>1. Removed(doc, id).cycles = RemoveAt(doc.cycles, k)
    BY DEF Removed, Documents, k
  <2> QED
    BY <1>2, <1>3, <2>1 DEF DeleteShown
<1> QED
  BY <1>4, <1>5 DEF WellFormed, Sane

\* The tab has the answer of a call that went well, and has yet to take it in.
Yes(c, t, op) == c.tab = t /\ c.op = op /\ Succeeded(c)

\* An update or a deletion is about an id that was given, and not to a cycle the tab
\* still waits to show.
Fits(c, t) ==
  c.op \in {"PUT", "DELETE"} =>
    /\ c.id <= config.counter
    /\ \A d \in calls : Yes(d, t, "POST") => d.answer[1].id # c.id

\* What the tab shows and the file does not hold, or holds otherwise, or holds and the
\* tab does not show, has an answer of the tab's own that will set it right; and every
\* such answer says what the file holds still.
ShowsTooMuch(t) ==
  \A x \in Range(view[t]) : Gone(config.cycles, x.id) =>
    \E c \in calls : Yes(c, t, "DELETE") /\ c.id = x.id

ShowsTooLittle(t) ==
  \A y \in Range(config.cycles) : Gone(view[t], y.id) =>
    \E c \in calls : Yes(c, t, "POST") /\ c.answer[1] = y

ShowsOtherwise(t) ==
  \A x \in Range(view[t]), y \in Range(config.cycles) : x.id = y.id /\ x # y =>
    \E c \in calls : Yes(c, t, "PUT") /\ c.id = x.id

AnswersHold(t) ==
  \A c \in calls :
    /\ Yes(c, t, "DELETE") => Gone(config.cycles, c.id)
    /\ Yes(c, t, "POST") => c.answer[1] \in Range(config.cycles)
    /\ Yes(c, t, "PUT") =>
         /\ c.answer[1].id = c.id
         /\ \A y \in Range(config.cycles) : y.id = c.id => y = c.answer[1]

Agrees(t) ==
  /\ ShowsTooMuch(t) /\ ShowsTooLittle(t) /\ ShowsOtherwise(t)
  /\ AnswersHold(t)
  /\ \A c \in calls : c.tab = t => Fits(c, t)

\* A list that has come and is not shown yet is the file's.
ListHolds(t) ==
  \A c \in calls : Yes(c, t, "GET") => c.answer = config.cycles

AgreeInv(t) ==
  excuse[t] = {} /\ Readable(Owner) =>
    IF Loading(t) THEN ListHolds(t) ELSE Agrees(t)

\* A step that leaves the page, the file and the answers that went well as they are.
LEMMA StillAgrees ==
  ASSUME NEW t \in Tabs, Agrees(t), view'[t] = view[t], config' = config,
         \A c \in calls' : c.tab = t => c \in calls \/ (~ Succeeded(c) /\ Fits(c, t)),
         \A c \in calls : c.tab = t /\ Succeeded(c) => c \in calls'
  PROVE  Agrees(t)'
<1>1. ASSUME NEW c, NEW op
      PROVE  Yes(c, t, op)' <=> Yes(c, t, op)
  BY DEF Yes, Succeeded
<1>2. ASSUME NEW op
      PROVE  \A c : c \in calls' /\ Yes(c, t, op) <=> c \in calls /\ Yes(c, t, op)
  BY DEF Yes
<1>3. ShowsTooMuch(t)'
  BY <1>1, <1>2 DEF Agrees, ShowsTooMuch, Gone
<1>4. ShowsTooLittle(t)'
  BY <1>1, <1>2 DEF Agrees, ShowsTooLittle, Gone
<1>5. ShowsOtherwise(t)'
  BY <1>1, <1>2 DEF Agrees, ShowsOtherwise
<1>6. AnswersHold(t)'
  BY <1>1, <1>2 DEF Agrees, AnswersHold, Gone
<1>7. ASSUME NEW c \in calls', c.tab = t
      PROVE  Fits(c, t)'
  <2>1. Fits(c, t)
    BY <1>7 DEF Agrees
  <2> QED
    BY <1>1, <1>2, <2>1 DEF Fits
<1> QED
  BY <1>3, <1>4, <1>5, <1>6, <1>7 DEF Agrees

\* The same for the whole of the invariant, where no list comes.
LEMMA StillHolds ==
  ASSUME NEW t \in Tabs, AgreeInv(t), view'[t] = view[t], UNCHANGED store,
         excuse'[t] = {} => excuse[t] = {}, Loading(t)' <=> Loading(t),
         \A c \in calls' : c.tab = t => c \in calls \/ (~ Succeeded(c) /\ Fits(c, t)),
         \A c \in calls : c.tab = t /\ Succeeded(c) => c \in calls'
  PROVE  AgreeInv(t)'
<1>1. (Readable(Owner)' <=> Readable(Owner)) /\ config' = config
  BY DEF Readable, config
<1> SUFFICES ASSUME excuse[t] = {}, Readable(Owner)
             PROVE  IF Loading(t) THEN ListHolds(t)' ELSE Agrees(t)'
  BY <1>1 DEF AgreeInv
<1>2. CASE Loading(t)
  <2>1. ListHolds(t)
    BY <1>2 DEF AgreeInv
  <2>2. ListHolds(t)'
    BY <1>1, <2>1 DEF ListHolds, Yes, Succeeded
  <2> QED
    BY <1>2, <2>2
<1>3. CASE ~ Loading(t)
  <2>1. Agrees(t)
    BY <1>3 DEF AgreeInv
  <2>2. Agrees(t)'
    BY <1>1, <2>1, StillAgrees
  <2> QED
    BY <1>3, <2>2
<1> QED
  BY <1>2, <1>3

\* Where the tab's own calls stay the same, so does whether it waits for its list.
LEMMA SameLoading ==
  ASSUME NEW t, \A c : c.tab = t => (c \in calls' <=> c \in calls)
  PROVE  Loading(t)' <=> Loading(t)
<1>1. \A c : c \in Of(t, "GET", NoId)' <=> c \in Of(t, "GET", NoId)
  BY DEF Of
<1> QED
  BY <1>1 DEF Loading

LEMMA SendAgrees ==
  ASSUME TypeInv, NEW t \in Tabs, TabInv(t), AgreeInv(t), NEW s \in Tabs, NEW c,
         c.tab = s, c.op # "GET", c.answer = Waiting,
         c.op \in {"PUT", "DELETE"} => c.id \in Shown(s), Send(s, c)
  PROVE  AgreeInv(t)'
<1>1. calls' = calls \cup {c} /\ UNCHANGED <<store, view>>
  BY DEF Send
<1>2. CASE t # s
  <2>1. excuse'[t] = excuse[t]
    BY <1>2 DEF Send, TypeInv
  <2>2. \A d : d.tab = t => (d \in calls' <=> d \in calls)
    BY <1>1, <1>2
  <2> QED
    BY <1>1, <2>1, <2>2, SameLoading, StillHolds
<1>3. CASE t = s /\ Loading(t)
  <2>1. "raced" \in excuse'[t]
    BY <1>3 DEF Send, TypeInv
  <2> QED
    BY <2>1 DEF AgreeInv
<1>4. CASE t = s /\ ~ Loading(t)
  <2>1. excuse' = excuse /\ ~ Loading(t)'
    BY <1>1, <1>4 DEF Send, Loading, Of
  <2>2. Readable(Owner)' <=> Readable(Owner)
    BY <1>1 DEF Readable
  <2> SUFFICES ASSUME excuse[t] = {}, Readable(Owner)
               PROVE  AgreeInv(t)'
    BY <2>1, <2>2 DEF AgreeInv
  <2>3. /\ Below(view[t]) /\ view[t] \in Seq(Cycle)
        /\ \A d \in calls : d.tab = t => CallInv(d, t) /\ CallTypeOK(d)
    BY DEF TabInv, TypeInv
  <2>4. Fits(c, t)
    <3> SUFFICES ASSUME c.op \in {"PUT", "DELETE"}
                 PROVE  /\ c.id <= config.counter
                        /\ \A d \in calls : Yes(d, t, "POST") => d.answer[1].id # c.id
      BY DEF Fits
    <3>1. PICK i \in DOMAIN view[t] : c.id = view[t][i].id
      BY <1>4 DEF Shown
    <3>2. c.id \in Nat
      <4>1. view[t][i] \in Cycle
        BY <2>3, <3>1
      <4> QED
        BY <3>1, <4>1 DEF Cycle
    <3>3. c.id <= config.counter
      BY <2>3, <3>1 DEF Below
    <3>4. ASSUME NEW d \in calls, Yes(d, t, "POST")
          PROVE  d.answer[1].id # c.id
      <4>1. d.tab = t /\ d.op = "POST" /\ Succeeded(d)
        BY <3>4 DEF Yes
      <4>2. c.id < d.answer[1].id
        BY <2>3, <3>1, <4>1 DEF CallInv, Above
      <4> QED
        BY <3>2, <4>2
    <3> QED
      BY <3>3, <3>4
  <2>5. ~ Succeeded(c)
    BY DEF Succeeded
  <2> QED
    BY <1>1, <1>4, <2>1, <2>4, <2>5, StillHolds
<1> QED
  BY <1>2, <1>3, <1>4

LEMMA SubmitAgrees ==
  ASSUME TypeInv, NEW t \in Tabs, TabInv(t), AgreeInv(t), NEW s \in Tabs
  PROVE  /\ \A body \in Bodies : SubmitCreate(s, body) => AgreeInv(t)'
         /\ \A body \in Bodies : \A id \in Shown(s) : SubmitUpdate(s, id, body) => AgreeInv(t)'
         /\ \A id \in Shown(s) : SubmitDelete(s, id) => AgreeInv(t)'
<1>1. ASSUME NEW op, NEW id, NEW body
      PROVE  LET c == Call(s, op, id, body)
             IN  c.tab = s /\ c.op = op /\ c.id = id /\ c.answer = Waiting
  BY DEF Call
<1>2. ASSUME NEW body \in Bodies, SubmitCreate(s, body)
      PROVE  AgreeInv(t)'
  <2> DEFINE c == Call(s, "POST", NoId, body)
  <2>1. c.tab = s /\ c.op = "POST" /\ c.answer = Waiting /\ Send(s, c)
    BY <1>1, <1>2 DEF SubmitCreate
  <2> HIDE DEF c
  <2> QED
    BY <2>1, SendAgrees
<1>3. ASSUME NEW body \in Bodies, NEW id \in Shown(s), SubmitUpdate(s, id, body)
      PROVE  AgreeInv(t)'
  <2> DEFINE c == Call(s, "PUT", id, body)
  <2>1. c.tab = s /\ c.op = "PUT" /\ c.id = id /\ c.answer = Waiting /\ Send(s, c)
    BY <1>1, <1>3 DEF SubmitUpdate
  <2> HIDE DEF c
  <2> QED
    BY <2>1, SendAgrees
<1>4. ASSUME NEW id \in Shown(s), SubmitDelete(s, id)
      PROVE  AgreeInv(t)'
  <2> DEFINE c == Call(s, "DELETE", id, NoBody)
  <2>1. c.tab = s /\ c.op = "DELETE" /\ c.id = id /\ c.answer = Waiting /\ Send(s, c)
    BY <1>1, <1>4 DEF SubmitDelete
  <2> HIDE DEF c
  <2> QED
    BY <2>1, SendAgrees
<1> QED
  BY <1>2, <1>3, <1>4

LEMMA ReloadAgrees ==
  ASSUME TypeInv, NEW t \in Tabs, AgreeInv(t), NEW s \in Tabs, Reload(s)
  PROVE  AgreeInv(t)'
<1>1. PICK orphans \in SUBSET {c \in calls : c.tab = s /\ c.op # "GET" /\ ~ Answered(c)} :
         /\ calls' = {c \in calls : c.tab # s} \cup {Mount(s)}
                       \cup {[c EXCEPT !.tab = Nobody] : c \in orphans}
         /\ view' = [view EXCEPT ![s] = <<>>]
         /\ excuse' = [excuse EXCEPT ![s] = {}]
         /\ UNCHANGED <<store, faults>>
  BY DEF Reload
<1>2. \A d \in {[c EXCEPT !.tab = Nobody] : c \in orphans} : d.tab = Nobody
  BY <1>1, OrphanTyped DEF TypeInv
<1>3. t # Nobody /\ s # Nobody /\ Mount(s).tab = s
  BY DashboardAssumption, MountTyped
<1>4. CASE t # s
  <2>1. view'[t] = view[t] /\ excuse'[t] = excuse[t]
    BY <1>1, <1>4 DEF TypeInv
  <2>2. \A d : d.tab = t => (d \in calls' <=> d \in calls)
    BY <1>1, <1>2, <1>3, <1>4
  <2> QED
    BY <1>1, <2>1, <2>2, SameLoading, StillHolds
<1>5. CASE t = s
  <2>1. \A d \in calls' : d.tab = t => d = Mount(t)
    BY <1>1, <1>2, <1>3, <1>5
  <2>2. Mount(t).op = "GET" /\ Mount(t).id = NoId /\ Mount(t).answer = Waiting
    BY DEF Mount, Call
  <2>3. Mount(t) \in Of(t, "GET", NoId)'
    BY <1>1, <1>3, <1>5, <2>2 DEF Of
  <2>4. ListHolds(t)'
    BY <2>1, <2>2 DEF ListHolds, Yes, Succeeded
  <2> QED
    BY <2>3, <2>4 DEF AgreeInv, Loading
<1> QED
  BY <1>4, <1>5

LEMMA BreakAgrees ==
  ASSUME TypeInv, NEW t \in Tabs, AgreeInv(t), NEW c \in calls, Break(c)
  PROVE  AgreeInv(t)'
<1>1. c.tab \in Tabs /\ calls' = calls \ {c} /\ UNCHANGED <<store, view>>
  BY DEF Break, Hiccup, TypeInv, CallTypeOK
<1>2. CASE c.tab = t /\ (c.op = "GET" \/ Succeeded(c))
  <2>1. "lost" \in excuse'[t]
    BY <1>1, <1>2 DEF Break, TypeInv
  <2> QED
    BY <2>1 DEF AgreeInv
<1>3. CASE c.tab # t
  <2>1. excuse'[t] = excuse[t]
    BY <1>1, <1>3 DEF Break, TypeInv
  <2>2. \A d : d.tab = t => (d \in calls' <=> d \in calls)
    BY <1>1, <1>3
  <2> QED
    BY <1>1, <2>1, <2>2, SameLoading, StillHolds
<1>4. CASE c.tab = t /\ c.op # "GET" /\ ~ Succeeded(c)
  <2>1. excuse' = excuse
    BY <1>4 DEF Break
  <2>2. Loading(t)' <=> Loading(t)
    BY <1>1, <1>4 DEF Loading, Of
  <2> QED
    BY <1>1, <1>4, <2>1, <2>2, StillHolds
<1> QED
  BY <1>2, <1>3, <1>4

\* What a change that is served does to the cycles of the file.
LEMMA ChangedFile ==
  ASSUME StoreInv, NEW c, CallTypeOK(c), c.op # "GET", ServeChange(c)
  PROVE  /\ config'.counter = IF c.op = "POST" THEN config.counter + 1 ELSE config.counter
         /\ c.op = "POST" => \A x : x \in Range(config'.cycles) <=>
              x \in Range(config.cycles) \/ x = Reply(c)[1]
         /\ c.op = "PUT" =>
              /\ \A x : x \in Range(config'.cycles) <=>
                   (x \in Range(config.cycles) /\ x.id # c.id) \/ x = Reply(c)[1]
              /\ ~ Gone(config.cycles, c.id)
         /\ c.op = "DELETE" => \A x : x \in Range(config'.cycles) <=>
              x \in Range(config.cycles) /\ x.id # c.id
<1>1. /\ Possible(c) /\ Readable(Owner) /\ WellFormed(config) /\ config \in Documents
      /\ config.counter \in Nat /\ config.cycles \in Seq(Cycle)
  BY DEF ServeChange, Possible, StoreInv, Readable, config, Documents
<1>2. ASSUME NEW doc, store' = [store EXCEPT ![Owner] = doc]
      PROVE  config' = doc
  BY <1>2, DashboardAssumption DEF StoreInv, config
<1>3. CASE c.op = "POST" /\ Create(Owner, c.body)
  <2>1. config' = Added(config, c.body)
    BY <1>2, <1>3 DEF Create, config
  <2>2. Reply(c)[1] \in Cycle /\ Reply(c)[1] = [id |-> config.counter + 1, body |-> c.body]
    BY <1>1, <1>3, ReplyTyped
  <2>3. config'.counter = config.counter + 1 /\ config'.cycles = Append(config.cycles, Reply(c)[1])
    BY <2>1, <2>2 DEF Added
  <2>4. \A x : x \in Range(config'.cycles) <=> x \in Range(config.cycles) \/ x = Reply(c)[1]
    BY <1>1, <2>2, <2>3, AppendRange
  <2> QED
    BY <1>3, <2>3, <2>4
<1>4. CASE c.op = "PUT" /\ Update(Owner, c.id, c.body)
  <2>1. config' = Updated(config, c.id, c.body) /\ c.id \in IdsOf(config) /\ c.body \in Bodies
    BY <1>2, <1>4 DEF Update, config, CallTypeOK
  <2>2. Reply(c)[1] \in Cycle /\ Reply(c)[1] = [id |-> c.id, body |-> c.body]
    BY <1>1, <1>4, ReplyTyped
  <2>3. /\ config'.counter = config.counter /\ Sane(config.cycles)
        /\ config'.cycles = UpdateShown(config.cycles, Reply(c)[1])
    BY <1>1, <2>1, <2>2, UpdatedSound, EditsAlike
  <2>4. ~ Gone(config.cycles, c.id)
    BY <2>1 DEF Gone, IdsOf, Range
  <2>5. Reply(c)[1].id = c.id
    BY <2>2
  <2>6. \A x : x \in Range(UpdateShown(config.cycles, Reply(c)[1])) <=>
                 \/ x \in Range(config.cycles) /\ x.id # Reply(c)[1].id
                 \/ x = Reply(c)[1] /\ ~ Gone(config.cycles, Reply(c)[1].id)
    BY <1>1, <2>2, <2>3, UpdateRange
  <2>7. \A x : x \in Range(config'.cycles) <=>
                 (x \in Range(config.cycles) /\ x.id # c.id) \/ x = Reply(c)[1]
    BY <2>3, <2>4, <2>5, <2>6
  <2> QED
    BY <1>4, <2>3, <2>4, <2>7
<1>5. CASE c.op = "DELETE" /\ Delete(Owner, c.id)
  <2>1. config' = Removed(config, c.id) /\ c.id \in IdsOf(config)
    BY <1>2, <1>5 DEF Delete, config
  <2>2. /\ config'.counter = config.counter /\ Sane(config.cycles)
        /\ config'.cycles = DeleteShown(config.cycles, c.id)
    BY <1>1, <2>1, RemovedSound, EditsAlike
  <2>3. \A x : x \in Range(config'.cycles) <=> x \in Range(config.cycles) /\ x.id # c.id
    BY <1>1, <2>2, DeleteRange
  <2> QED
    BY <1>5, <2>2, <2>3
<1> QED
  BY <1>3, <1>4, <1>5 DEF ServeChange

\* The tab's own change is served: the answer says what is new in the file.
LEMMA OwnChange ==
  ASSUME StoreInv, TypeInv, NEW t \in Tabs, TabInv(t), "raced" \notin excuse[t],
         Agrees(t), NEW c \in calls, c.tab = t, ~ Answered(c), ServeChange(c)
  PROVE  Agrees(t)'
<1> DEFINE e == [c EXCEPT !.answer = Reply(c)]
           n == config.counter
<1>1. /\ c.op \in {"POST", "PUT", "DELETE"} /\ Possible(c) /\ Answer(c, Reply(c))
      /\ UNCHANGED view /\ CallTypeOK(c) /\ t # Nobody
  BY DashboardAssumption DEF ServeChange, Possible, TypeInv
<1>2. /\ Reply(c) \in Seq(Cycle) /\ Reply(c) \notin {Waiting, Refused}
      /\ c.op \in {"POST", "PUT"} => Reply(c)[1] \in Cycle
      /\ c.op = "POST" => Reply(c)[1].id = n + 1
      /\ c.op = "PUT" => Reply(c)[1].id = c.id
      /\ c.op \in {"POST", "PUT"} => Len(Reply(c)) = 1
  <2>1. c.op # "GET"
    BY <1>1
  <2>2. /\ Reply(c) \in Seq(Cycle)
        /\ c.op \in {"POST", "PUT"} => Len(Reply(c)) = 1 /\ Reply(c)[1] \in Cycle
        /\ c.op = "POST" => Reply(c)[1] = [id |-> n + 1, body |-> c.body]
        /\ c.op = "PUT" => Reply(c)[1] = [id |-> c.id, body |-> c.body]
    BY <1>1, <2>1, ReplyTyped
  <2>3. Reply(c) \notin {Waiting, Refused}
    BY <2>2, DashboardAssumption
  <2> QED
    BY <2>2, <2>3
<1>3. calls' = (calls \ {c}) \cup {e}
  BY <1>1 DEF Answer
<1>4. e.tab = t /\ e.op = c.op /\ e.id = c.id /\ e.answer = Reply(c) /\ Succeeded(e)
  <2>1. e.tab = t /\ e.op = c.op /\ e.id = c.id /\ e.answer = Reply(c)
    BY <1>1, <1>2, AnsweredTyped DEF TypeInv
  <2> HIDE DEF e
  <2> QED
    BY <1>2, <2>1 DEF Succeeded
<1> HIDE DEF e, n
<1>5. ASSUME NEW d, NEW op
      PROVE  /\ Yes(d, t, op)' <=> Yes(d, t, op)
             /\ d \in calls /\ Yes(d, t, op) => d \in calls' /\ d # c
             /\ d \in calls' /\ Yes(d, t, op) => d = e \/ d \in calls
  BY <1>3 DEF Yes, Succeeded, Answered
<1>6. Yes(e, t, c.op) /\ e \in calls'
  BY <1>3, <1>4 DEF Yes
<1>7. /\ n \in Nat /\ n = config.counter
      /\ \A x \in Range(view[t]) : x.id \in Nat /\ x.id <= n
  <2>1. Readable(Owner) /\ config \in Documents
    BY <1>1 DEF Possible, Readable, config
  <2>2. view[t] \in Seq(Cycle) /\ Below(view[t]) /\ Sane(view[t])
    BY DEF TypeInv, TabInv
  <2>3. \A x \in Range(view[t]) : x.id \in Nat
    BY <2>2, SaneIds
  <2>4. \A x \in Range(view[t]) : x.id <= n
    BY <2>1, <2>2 DEF Below, Range, n
  <2> QED
    BY <2>1, <2>3, <2>4 DEF Documents, n
<1>8. /\ config'.counter = IF c.op = "POST" THEN n + 1 ELSE n
      /\ c.op = "POST" => \A x : x \in Range(config'.cycles) <=>
           x \in Range(config.cycles) \/ x = Reply(c)[1]
      /\ c.op = "PUT" =>
           /\ \A x : x \in Range(config'.cycles) <=>
                (x \in Range(config.cycles) /\ x.id # c.id) \/ x = Reply(c)[1]
           /\ ~ Gone(config.cycles, c.id)
      /\ c.op = "DELETE" => \A x : x \in Range(config'.cycles) <=>
           x \in Range(config.cycles) /\ x.id # c.id
  <2>1. c.op # "GET"
    BY <1>1
  <2> QED
    BY <1>1, <2>1, ChangedFile DEF n
<1>9. /\ ShowsTooMuch(t) /\ ShowsTooLittle(t) /\ ShowsOtherwise(t) /\ AnswersHold(t)
      /\ \A d \in calls : d.tab = t => Fits(d, t)
  BY DEF Agrees
<1>10. \A d \in calls : d.op \in {"PUT", "DELETE"} => d.id \in Nat
  BY DEF TypeInv, CallTypeOK
<1>11. CASE c.op = "POST"
  <2>1. \A x : x \in Range(config'.cycles) <=> x \in Range(config.cycles) \/ x = Reply(c)[1]
    BY <1>8, <1>11
  <2>2. \A i : Gone(config'.cycles, i) => Gone(config.cycles, i)
    BY <2>1 DEF Gone
  <2>3. ShowsTooMuch(t)'
    BY <1>1, <1>5, <1>9, <2>2 DEF ShowsTooMuch, Gone
  <2>4. ShowsTooLittle(t)'
    <3> SUFFICES ASSUME NEW y \in Range(config'.cycles), Gone(view[t], y.id)
                 PROVE  \E d \in calls' : Yes(d, t, "POST")' /\ d.answer[1] = y
      BY <1>1 DEF ShowsTooLittle, Gone
    <3>1. CASE y = Reply(c)[1]
      BY <1>4, <1>5, <1>6, <1>11, <3>1
    <3>2. CASE y \in Range(config.cycles)
      BY <1>5, <1>9, <3>2 DEF ShowsTooLittle
    <3> QED
      BY <2>1, <3>1, <3>2
  <2>5. ShowsOtherwise(t)'
    <3> SUFFICES ASSUME NEW x \in Range(view[t]), NEW y \in Range(config'.cycles),
                        x.id = y.id, x # y
                 PROVE  \E d \in calls' : Yes(d, t, "PUT")' /\ d.id = x.id
      BY <1>1 DEF ShowsOtherwise
    <3>1. y # Reply(c)[1]
      BY <1>2, <1>7, <1>11
    <3>2. y \in Range(config.cycles)
      BY <2>1, <3>1
    <3> QED
      BY <1>5, <1>9, <3>2 DEF ShowsOtherwise
  <2>6. AnswersHold(t)'
    <3> SUFFICES ASSUME NEW d \in calls'
                 PROVE  /\ Yes(d, t, "DELETE") => Gone(config'.cycles, d.id)
                        /\ Yes(d, t, "POST") => d.answer[1] \in Range(config'.cycles)
                        /\ Yes(d, t, "PUT") =>
                             /\ d.answer[1].id = d.id
                             /\ \A y \in Range(config'.cycles) : y.id = d.id => y = d.answer[1]
      BY <1>5 DEF AnswersHold, Gone
    <3>1. CASE d = e
      BY <1>4, <1>11, <2>1, <3>1 DEF Yes
    <3>2. CASE d \in calls
      <4>1. d.tab = t /\ d.op \in {"PUT", "DELETE"} => Reply(c)[1].id # d.id
        BY <1>2, <1>7, <1>9, <1>10, <1>11, <3>2 DEF Fits
      <4>2. Yes(d, t, "DELETE") => Gone(config'.cycles, d.id)
        BY <1>9, <2>1, <3>2, <4>1 DEF AnswersHold, Gone, Yes
      <4>3. Yes(d, t, "PUT") => \A y \in Range(config'.cycles) : y.id = d.id => y = d.answer[1]
        BY <1>9, <2>1, <3>2, <4>1 DEF AnswersHold, Yes
      <4> QED
        BY <1>9, <2>1, <3>2, <4>2, <4>3 DEF AnswersHold
    <3> QED
      BY <1>3, <3>1, <3>2
  <2>7. ASSUME NEW d \in calls', d.tab = t
        PROVE  Fits(d, t)'
    <3> SUFFICES ASSUME d.op \in {"PUT", "DELETE"}
                 PROVE  /\ d.id <= config'.counter
                        /\ \A b \in calls' : Yes(b, t, "POST") => b.answer[1].id # d.id
      BY <1>5 DEF Fits
    <3>1. d \in calls /\ d # e
      BY <1>3, <1>4, <1>11
    <3>2. /\ d.id \in Nat /\ d.id <= n
          /\ \A b \in calls : Yes(b, t, "POST") => b.answer[1].id # d.id
      BY <1>7, <1>9, <1>10, <2>7, <3>1 DEF Fits
    <3>3. d.id <= config'.counter /\ e.answer[1].id # d.id
      BY <1>2, <1>4, <1>7, <1>8, <1>11, <3>2
    <3> QED
      BY <1>5, <3>2, <3>3
  <2> QED
    BY <2>3, <2>4, <2>5, <2>6, <2>7 DEF Agrees
<1>12. CASE c.op \in {"PUT", "DELETE"}
  <2>1. /\ Fits(c, t) /\ config'.counter = n
        /\ \A d \in calls : Yes(d, t, "POST") => d.answer[1].id # c.id
    BY <1>8, <1>9, <1>12 DEF Fits
  <2>2. \A y \in Range(config'.cycles) : y \in Range(config.cycles) \/ (c.op = "PUT" /\ y = Reply(c)[1])
    BY <1>8, <1>12
  <2>3. \A y \in Range(config.cycles) : y.id # c.id => y \in Range(config'.cycles)
    BY <1>8, <1>12
  <2>4. \A y \in Range(config'.cycles) : y.id = c.id => c.op = "PUT" /\ y = Reply(c)[1]
    BY <1>8, <1>12
  <2>5. \A i : i # c.id => (Gone(config'.cycles, i) <=> Gone(config.cycles, i))
    BY <1>2, <1>12, <2>2, <2>3 DEF Gone
  <2>6. c.op = "PUT" => Reply(c)[1] \in Range(config'.cycles) /\ ~ Gone(config'.cycles, c.id)
    BY <1>2, <1>8 DEF Gone
  <2>7. ShowsTooMuch(t)'
    <3> SUFFICES ASSUME NEW x \in Range(view[t]), Gone(config'.cycles, x.id)
                 PROVE  \E d \in calls' : Yes(d, t, "DELETE")' /\ d.id = x.id
      BY <1>1 DEF ShowsTooMuch, Gone
    <3>1. CASE x.id = c.id
      BY <1>4, <1>5, <1>6, <1>12, <2>6, <3>1
    <3>2. CASE x.id # c.id
      BY <1>5, <1>9, <2>5, <3>2 DEF ShowsTooMuch
    <3> QED
      BY <3>1, <3>2
  <2>8. ShowsTooLittle(t)'
    <3> SUFFICES ASSUME NEW y \in Range(config'.cycles), Gone(view[t], y.id)
                 PROVE  \E d \in calls' : Yes(d, t, "POST")' /\ d.answer[1] = y
      BY <1>1 DEF ShowsTooLittle, Gone
    <3>1. y.id # c.id
      <4> SUFFICES ASSUME y.id = c.id PROVE FALSE
        OBVIOUS
      <4>1. ~ Gone(config.cycles, c.id)
        BY <1>8, <2>4
      <4>2. PICK z \in Range(config.cycles) : z.id = c.id
        BY <4>1 DEF Gone
      <4>3. PICK d \in calls : Yes(d, t, "POST") /\ d.answer[1] = z
        BY <1>9, <4>2 DEF ShowsTooLittle
      <4> QED
        BY <2>1, <4>2, <4>3
    <3>2. y \in Range(config.cycles)
      BY <1>2, <2>2, <3>1
    <3> QED
      BY <1>5, <1>9, <3>2 DEF ShowsTooLittle
  <2>9. ShowsOtherwise(t)'
    <3> SUFFICES ASSUME NEW x \in Range(view[t]), NEW y \in Range(config'.cycles),
                        x.id = y.id, x # y
                 PROVE  \E d \in calls' : Yes(d, t, "PUT")' /\ d.id = x.id
      BY <1>1 DEF ShowsOtherwise
    <3>1. CASE y.id = c.id
      BY <1>4, <1>5, <1>6, <2>4, <3>1
    <3>2. CASE y.id # c.id
      <4>1. y \in Range(config.cycles)
        BY <1>2, <2>2, <3>2
      <4> QED
        BY <1>5, <1>9, <4>1 DEF ShowsOtherwise
    <3> QED
      BY <3>1, <3>2
  <2>10. AnswersHold(t)'
    <3> SUFFICES ASSUME NEW d \in calls'
                 PROVE  /\ Yes(d, t, "DELETE") => Gone(config'.cycles, d.id)
                        /\ Yes(d, t, "POST") => d.answer[1] \in Range(config'.cycles)
                        /\ Yes(d, t, "PUT") =>
                             /\ d.answer[1].id = d.id
                             /\ \A y \in Range(config'.cycles) : y.id = d.id => y = d.answer[1]
      BY <1>5 DEF AnswersHold, Gone
    <3>1. CASE d = e
      <4>1. c.op = "DELETE" => Gone(config'.cycles, c.id)
        BY <2>4 DEF Gone
      <4> QED
        BY <1>2, <1>4, <1>12, <2>4, <3>1, <4>1 DEF Yes
    <3>2. CASE d \in calls /\ d # e
      <4>1. Yes(d, t, "DELETE") => Gone(config'.cycles, d.id)
        <5> SUFFICES ASSUME Yes(d, t, "DELETE") PROVE Gone(config'.cycles, d.id)
          OBVIOUS
        <5>1. Gone(config.cycles, d.id)
          BY <1>9, <3>2 DEF AnswersHold
        <5>2. CASE d.id = c.id
          BY <1>8, <1>12, <5>1, <5>2 DEF Gone
        <5>3. CASE d.id # c.id
          BY <2>5, <5>1, <5>3
        <5> QED
          BY <5>2, <5>3
      <4>2. Yes(d, t, "POST") => d.answer[1] \in Range(config'.cycles)
        BY <1>9, <2>1, <2>3, <3>2 DEF AnswersHold
      <4>3. Yes(d, t, "PUT") => d.answer[1].id = d.id
        BY <1>9, <3>2 DEF AnswersHold
      <4>4. ASSUME Yes(d, t, "PUT"), NEW y \in Range(config'.cycles), y.id = d.id
            PROVE  y = d.answer[1]
        <5>1. d # c /\ d.tab = t /\ d.op = "PUT"
          BY <1>5, <3>2, <4>4 DEF Yes
        <5>2. ~ (y.id = c.id)
          BY <1>1, <2>4, <3>2, <4>4, <5>1 DEF TypeInv, Distinct
        <5>3. y \in Range(config.cycles)
          BY <1>2, <2>2, <5>2
        <5> QED
          BY <1>9, <3>2, <4>4, <5>3 DEF AnswersHold
      <4> QED
        BY <4>1, <4>2, <4>3, <4>4
    <3> QED
      BY <1>3, <3>1, <3>2
  <2>11. ASSUME NEW d \in calls', d.tab = t
        PROVE  Fits(d, t)'
    <3> SUFFICES ASSUME d.op \in {"PUT", "DELETE"}
                 PROVE  /\ d.id <= config'.counter
                        /\ \A b \in calls' : Yes(b, t, "POST") => b.answer[1].id # d.id
      BY <1>5 DEF Fits
    <3>1. \E b \in calls : b.tab = t /\ b.op = d.op /\ b.id = d.id
      BY <1>3, <1>4, <2>11
    <3>2. /\ d.id <= n
          /\ \A b \in calls : Yes(b, t, "POST") => b.answer[1].id # d.id
      BY <1>7, <1>9, <3>1 DEF Fits
    <3>3. \A b \in calls' : Yes(b, t, "POST") => b \in calls
      BY <1>4, <1>5, <1>12 DEF Yes
    <3> QED
      BY <2>1, <3>2, <3>3
  <2> QED
    BY <2>7, <2>8, <2>9, <2>10, <2>11 DEF Agrees
<1> QED
  BY <1>1, <1>11, <1>12

\* The server: another page's change excuses this one, unless its list is still to be
\* read from the file.
LEMMA ServeAgrees ==
  ASSUME StoreInv, TypeInv, NEW t \in Tabs, TabInv(t), AgreeInv(t), NEW c \in calls, Serve(c)
  PROVE  AgreeInv(t)'
<1>1. CallTypeOK(c) /\ IsCall(c) /\ ~ Answered(c) /\ ~ Succeeded(c) /\ t # Nobody
  BY DashboardAssumption DEF TypeInv, Serve, Answered, Succeeded
<1>2. ASSUME NEW answer, Answer(c, answer), c.tab # t
      PROVE  \A d : d.tab = t => (d \in calls' <=> d \in calls)
  <2>1. [c EXCEPT !.answer = answer].tab = c.tab
    BY <1>1 DEF IsCall
  <2> QED
    BY <1>2, <2>1 DEF Answer
<1>3. CASE ServeList(c)
  <2>1. PICK answer : answer = IF Readable(Owner) THEN config.cycles ELSE Refused
    OBVIOUS
  <2>2. c.op = "GET" /\ Answer(c, answer) /\ UNCHANGED <<store, view, excuse>>
    BY <1>3, <2>1 DEF ServeList
  <2>3. CASE c.tab # t
    BY <1>2, <2>2, <2>3, SameLoading, StillHolds
  <2>4. CASE c.tab = t
    <3> DEFINE e == [c EXCEPT !.answer = answer]
    <3>1. calls' = (calls \ {c}) \cup {e}
      BY <1>1, <2>2, <2>4 DEF Answer
    <3>2. e.tab = t /\ e.op = "GET" /\ e.id = c.id /\ e.answer = answer
      BY <1>1, <2>2, <2>4 DEF IsCall
    <3> HIDE DEF e
    <3>3. c.id = NoId
      BY <1>1, <2>2 DEF CallTypeOK
    <3>4. Loading(t) /\ Loading(t)'
      BY <2>2, <2>4, <3>1, <3>2, <3>3 DEF Loading, Of
    <3>5. (Readable(Owner)' <=> Readable(Owner)) /\ config' = config
      BY <2>2 DEF Readable, config
    <3> SUFFICES ASSUME excuse[t] = {}, Readable(Owner) PROVE ListHolds(t)'
      BY <2>2, <3>4, <3>5 DEF AgreeInv
    <3>6. ListHolds(t) /\ answer = config.cycles
      BY <2>1, <3>4 DEF AgreeInv
    <3> QED
      BY <3>1, <3>2, <3>5, <3>6 DEF ListHolds, Yes, Succeeded
  <2> QED
    BY <2>3, <2>4
<1>4. CASE ServeChange(c)
  <2>1. c.op # "GET" /\ Readable(Owner) /\ Answer(c, Reply(c)) /\ UNCHANGED view
    BY <1>4 DEF ServeChange, Possible
  <2>2. excuse' = Excused(c)
    BY <1>4 DEF ServeChange
  <2>3. CASE c.tab = t
    <3>1. excuse'[t] = excuse[t]
      BY <2>2, <2>3 DEF Excused
    <3> SUFFICES ASSUME excuse[t] = {} PROVE AgreeInv(t)'
      BY <3>1 DEF AgreeInv
    <3>2. "raced" \notin excuse[t]
      OBVIOUS
    <3>3. ~ Loading(t)
      BY <2>1, <2>3, <3>2 DEF TabInv, CallInv
    <3>4. Agrees(t)
      BY <2>1, <3>3 DEF AgreeInv
    <3>5. Agrees(t)'
      BY <1>1, <1>4, <2>3, <3>2, <3>4, OwnChange
    <3>6. ~ Loading(t)'
      <4>1. [c EXCEPT !.answer = Reply(c)].op = c.op
        BY <1>1 DEF IsCall
      <4>2. \A d \in calls' : d \in calls \/ d.op # "GET"
        BY <1>1, <2>1, <2>3, <4>1 DEF Answer
      <4> QED
        BY <3>3, <4>2 DEF Loading, Of
    <3> QED
      BY <3>5, <3>6 DEF AgreeInv
  <2>4. CASE c.tab # t
    <3> SUFFICES ASSUME excuse'[t] = {} PROVE AgreeInv(t)'
      BY DEF AgreeInv
    <3>1. \E get \in Of(t, "GET", NoId) : ~ Answered(get)
      BY <2>2, <2>4 DEF Excused
    <3>2. PICK get \in Of(t, "GET", NoId) : ~ Answered(get)
      BY <3>1
    <3>3. \A d : d.tab = t => (d \in calls' <=> d \in calls)
      BY <1>2, <2>1, <2>4
    <3>4. Loading(t)'
      BY <3>2, <3>3, SameLoading DEF Loading
    <3>5. ASSUME NEW d \in calls', d.tab = t, d.op = "GET"
          PROVE  ~ Succeeded(d)
      <4>1. d \in calls /\ d.id = NoId
        BY <3>3, <3>5 DEF TypeInv, CallTypeOK
      <4>2. d = get
        BY <1>1, <3>2, <3>5, <4>1 DEF TypeInv, Distinct, Of
      <4> QED
        BY <3>2, <4>2 DEF Answered, Succeeded
    <3>6. ListHolds(t)'
      BY <3>5 DEF ListHolds, Yes, Succeeded
    <3> QED
      BY <3>4, <3>6 DEF AgreeInv
  <2> QED
    BY <2>3, <2>4
<1>5. CASE TearChange(c)
  <2>1. store'[Owner] = Torn
    BY <1>5, DashboardAssumption DEF TearChange, Lose, StoreInv
  <2>2. ~ Readable(Owner)'
    BY <2>1, StoreAssumption DEF Readable
  <2> QED
    BY <2>2 DEF AgreeInv
<1>6. CASE RefuseChange(c)
  <2>1. c.op # "GET" /\ Answer(c, Refused) /\ UNCHANGED <<store, view, excuse>>
    BY <1>6 DEF RefuseChange
  <2>2. CASE c.tab # t
    BY <1>2, <2>1, <2>2, SameLoading, StillHolds
  <2>3. CASE c.tab = t
    <3> DEFINE e == [c EXCEPT !.answer = Refused]
    <3>1. calls' = (calls \ {c}) \cup {e}
      BY <1>1, <2>1, <2>3 DEF Answer
    <3>2. e.tab = t /\ e.op = c.op /\ e.id = c.id /\ ~ Succeeded(e)
      BY <1>1, <2>3 DEF IsCall, Succeeded
    <3> HIDE DEF e
    <3>3. Readable(Owner)' <=> Readable(Owner)
      BY <2>1 DEF Readable
    <3> SUFFICES ASSUME excuse[t] = {}, Readable(Owner) PROVE AgreeInv(t)'
      BY <2>1, <3>3 DEF AgreeInv
    <3>4. ~ Loading(t)
      BY <2>1, <2>3 DEF TabInv, CallInv
    <3>5. Fits(e, t)
      BY <2>3, <3>2, <3>4 DEF AgreeInv, Agrees, Fits
    <3>6. ~ Loading(t)'
      BY <2>1, <3>1, <3>2, <3>4 DEF Loading, Of
    <3>7. \A d \in calls' : d.tab = t => d \in calls \/ (~ Succeeded(d) /\ Fits(d, t))
      BY <3>1, <3>2, <3>5
    <3>8. \A d \in calls : d.tab = t /\ Succeeded(d) => d \in calls'
      BY <1>1, <3>1
    <3> QED
      BY <2>1, <3>4, <3>6, <3>7, <3>8, StillHolds
  <2> QED
    BY <2>2, <2>3
<1> QED
  BY <1>3, <1>4, <1>5, <1>6 DEF Serve

\* The page takes in the answer to a change of its own: what the answer was to set
\* right is right.
LEMMA OwnAnswer ==
  ASSUME StoreInv, TypeInv, Readable(Owner), NEW t \in Tabs, TabInv(t), "raced" \notin excuse[t],
         Agrees(t), NEW c \in calls, c.tab = t, c.op # "GET", Succeeded(c), Deliver(c)
  PROVE  Agrees(t)'
<1>1. /\ view'[t] = storeReducer(view[t], c) /\ calls' = calls \ {c} /\ config' = config
      /\ view[t] \in Seq(Cycle) /\ CallTypeOK(c)
  BY DEF Deliver, TypeInv, config
<1>2. Sane(view[t])
  BY DEF TabInv
<1>3. \A x, y \in Range(config.cycles) : x.id = y.id => x = y
  <2>1. config.cycles \in Seq(Cycle) /\ Sane(config.cycles)
    BY DEF StoreInv, WellFormed, Sane, Readable, config, Documents
  <2> QED
    BY <2>1, SaneIds
<1>4. /\ c.op \in {"POST", "PUT", "DELETE"} /\ Yes(c, t, c.op)
      /\ c.op \in {"POST", "PUT"} => c.answer[1] \in Cycle
  BY <1>1 DEF CallTypeOK, Yes, Succeeded
<1>5. /\ ShowsTooMuch(t) /\ ShowsTooLittle(t) /\ ShowsOtherwise(t) /\ AnswersHold(t)
      /\ \A d \in calls : d.tab = t => Fits(d, t)
  BY DEF Agrees
<1>6. ASSUME NEW d, NEW op
      PROVE  /\ Yes(d, t, op)' <=> Yes(d, t, op)
             /\ d \in calls /\ Yes(d, t, op) /\ d # c => d \in calls'
             /\ d \in calls' => d \in calls
             /\ Yes(d, t, op) /\ op # c.op => d # c
  BY <1>1 DEF Yes, Succeeded
<1>7. AnswersHold(t)'
  BY <1>1, <1>5, <1>6 DEF AnswersHold, Gone
<1>8. ASSUME NEW d \in calls', d.tab = t
      PROVE  Fits(d, t)'
  BY <1>1, <1>5, <1>6, <1>8 DEF Fits
<1>9. CASE c.op = "POST"
  <2>1. view'[t] = Append(view[t], c.answer[1])
    BY <1>1, <1>9 DEF storeReducer
  <2>2. \A x : x \in Range(view'[t]) <=> x \in Range(view[t]) \/ x = c.answer[1]
    BY <1>1, <1>4, <1>9, <2>1, AppendRange
  <2>3. c.answer[1] \in Range(config.cycles)
    BY <1>4, <1>5, <1>9 DEF AnswersHold
  <2>4. ShowsTooMuch(t)'
    <3> SUFFICES ASSUME NEW x \in Range(view'[t]), Gone(config.cycles, x.id)
                 PROVE  \E d \in calls' : Yes(d, t, "DELETE")' /\ d.id = x.id
      BY <1>1 DEF ShowsTooMuch, Gone
    <3>1. x # c.answer[1]
      BY <2>3 DEF Gone
    <3>2. x \in Range(view[t])
      BY <2>2, <3>1
    <3>3. PICK d \in calls : Yes(d, t, "DELETE") /\ d.id = x.id
      BY <1>5, <3>2 DEF ShowsTooMuch
    <3> QED
      BY <1>6, <1>9, <3>3
  <2>5. ShowsTooLittle(t)'
    <3> SUFFICES ASSUME NEW y \in Range(config.cycles), Gone(view'[t], y.id)
                 PROVE  \E d \in calls' : Yes(d, t, "POST")' /\ d.answer[1] = y
      BY <1>1 DEF ShowsTooLittle, Gone
    <3>1. Gone(view[t], y.id) /\ y # c.answer[1]
      BY <2>2 DEF Gone
    <3>2. PICK d \in calls : Yes(d, t, "POST") /\ d.answer[1] = y
      BY <1>5, <3>1 DEF ShowsTooLittle
    <3> QED
      BY <1>6, <3>1, <3>2
  <2>6. ShowsOtherwise(t)'
    <3> SUFFICES ASSUME NEW x \in Range(view'[t]), NEW y \in Range(config.cycles),
                        x.id = y.id, x # y
                 PROVE  \E d \in calls' : Yes(d, t, "PUT")' /\ d.id = x.id
      BY <1>1 DEF ShowsOtherwise
    <3>1. x # c.answer[1]
      BY <1>3, <2>3
    <3>2. x \in Range(view[t])
      BY <2>2, <3>1
    <3>3. PICK d \in calls : Yes(d, t, "PUT") /\ d.id = x.id
      BY <1>5, <3>2 DEF ShowsOtherwise
    <3> QED
      BY <1>6, <1>9, <3>3
  <2> QED
    BY <1>7, <1>8, <2>4, <2>5, <2>6 DEF Agrees
<1>10. CASE c.op = "PUT"
  <2>1. view'[t] = UpdateShown(view[t], c.answer[1])
    BY <1>1, <1>10 DEF storeReducer
  <2>2. /\ c.answer[1].id = c.id
        /\ \A y \in Range(config.cycles) : y.id = c.id => y = c.answer[1]
    BY <1>4, <1>5, <1>10 DEF AnswersHold
  <2>3. \A x : x \in Range(view'[t]) <=>
                 \/ x \in Range(view[t]) /\ x.id # c.answer[1].id
                 \/ x = c.answer[1] /\ ~ Gone(view[t], c.answer[1].id)
    BY <1>1, <1>2, <1>4, <1>10, <2>1, UpdateRange
  <2>4. \A i : Gone(view'[t], i) <=> Gone(view[t], i)
    BY <2>2, <2>3 DEF Gone
  <2>5. ShowsTooMuch(t)'
    <3> SUFFICES ASSUME NEW x \in Range(view'[t]), Gone(config.cycles, x.id)
                 PROVE  \E d \in calls' : Yes(d, t, "DELETE")' /\ d.id = x.id
      BY <1>1 DEF ShowsTooMuch, Gone
    <3>1. PICK z \in Range(view[t]) : z.id = x.id
      BY <2>4 DEF Gone
    <3>2. PICK d \in calls : Yes(d, t, "DELETE") /\ d.id = x.id
      BY <1>5, <3>1 DEF ShowsTooMuch
    <3> QED
      BY <1>6, <1>10, <3>2
  <2>6. ShowsTooLittle(t)'
    <3> SUFFICES ASSUME NEW y \in Range(config.cycles), Gone(view'[t], y.id)
                 PROVE  \E d \in calls' : Yes(d, t, "POST")' /\ d.answer[1] = y
      BY <1>1 DEF ShowsTooLittle, Gone
    <3>1. PICK d \in calls : Yes(d, t, "POST") /\ d.answer[1] = y
      BY <1>5, <2>4 DEF ShowsTooLittle
    <3> QED
      BY <1>6, <1>10, <3>1
  <2>7. ShowsOtherwise(t)'
    <3> SUFFICES ASSUME NEW x \in Range(view'[t]), NEW y \in Range(config.cycles),
                        x.id = y.id, x # y
                 PROVE  \E d \in calls' : Yes(d, t, "PUT")' /\ d.id = x.id
      BY <1>1 DEF ShowsOtherwise
    <3>1. x \in Range(view[t]) /\ x.id # c.id
      BY <2>2, <2>3
    <3>2. PICK d \in calls : Yes(d, t, "PUT") /\ d.id = x.id
      BY <1>5, <3>1 DEF ShowsOtherwise
    <3> QED
      BY <1>6, <3>1, <3>2
  <2> QED
    BY <1>7, <1>8, <2>5, <2>6, <2>7 DEF Agrees
<1>11. CASE c.op = "DELETE"
  <2>1. view'[t] = DeleteShown(view[t], c.id)
    BY <1>1, <1>11 DEF storeReducer
  <2>2. \A x : x \in Range(view'[t]) <=> x \in Range(view[t]) /\ x.id # c.id
    BY <1>1, <1>2, <2>1, DeleteRange
  <2>3. \A y \in Range(config.cycles) : y.id # c.id
    BY <1>4, <1>5, <1>11 DEF AnswersHold, Gone
  <2>4. ShowsTooMuch(t)'
    <3> SUFFICES ASSUME NEW x \in Range(view'[t]), Gone(config.cycles, x.id)
                 PROVE  \E d \in calls' : Yes(d, t, "DELETE")' /\ d.id = x.id
      BY <1>1 DEF ShowsTooMuch, Gone
    <3>1. x \in Range(view[t]) /\ x.id # c.id
      BY <2>2
    <3>2. PICK d \in calls : Yes(d, t, "DELETE") /\ d.id = x.id
      BY <1>5, <3>1 DEF ShowsTooMuch
    <3> QED
      BY <1>6, <3>1, <3>2
  <2>5. ShowsTooLittle(t)'
    <3> SUFFICES ASSUME NEW y \in Range(config.cycles), Gone(view'[t], y.id)
                 PROVE  \E d \in calls' : Yes(d, t, "POST")' /\ d.answer[1] = y
      BY <1>1 DEF ShowsTooLittle, Gone
    <3>1. Gone(view[t], y.id)
      BY <2>2, <2>3 DEF Gone
    <3>2. PICK d \in calls : Yes(d, t, "POST") /\ d.answer[1] = y
      BY <1>5, <3>1 DEF ShowsTooLittle
    <3> QED
      BY <1>6, <1>11, <3>2
  <2>6. ShowsOtherwise(t)'
    <3> SUFFICES ASSUME NEW x \in Range(view'[t]), NEW y \in Range(config.cycles),
                        x.id = y.id, x # y
                 PROVE  \E d \in calls' : Yes(d, t, "PUT")' /\ d.id = x.id
      BY <1>1 DEF ShowsOtherwise
    <3>1. x \in Range(view[t])
      BY <2>2
    <3>2. PICK d \in calls : Yes(d, t, "PUT") /\ d.id = x.id
      BY <1>5, <3>1 DEF ShowsOtherwise
    <3> QED
      BY <1>6, <1>11, <3>2
  <2> QED
    BY <1>7, <1>8, <2>4, <2>5, <2>6 DEF Agrees
<1> QED
  BY <1>4, <1>9, <1>10, <1>11

LEMMA DeliverAgrees ==
  ASSUME StoreInv, TypeInv, NEW t \in Tabs, TabInv(t), AgreeInv(t), NEW c \in calls, Deliver(c)
  PROVE  AgreeInv(t)'
<1>1. /\ c.tab \in Tabs /\ calls' = calls \ {c} /\ UNCHANGED store /\ CallTypeOK(c)
      /\ t # Nobody /\ Answered(c)
  BY DashboardAssumption DEF Deliver, TypeInv, CallTypeOK
<1>2. (Readable(Owner)' <=> Readable(Owner)) /\ config' = config
  BY <1>1 DEF Readable, config
<1>3. CASE c.tab # t
  <2>1. excuse'[t] = excuse[t] /\ view'[t] = view[t]
    BY <1>1, <1>3 DEF Deliver, TypeInv
  <2>2. \A d : d.tab = t => (d \in calls' <=> d \in calls)
    BY <1>1, <1>3
  <2> QED
    BY <1>1, <2>1, <2>2, SameLoading, StillHolds
<1>4. CASE c.tab = t /\ c.op = "GET" /\ ~ Succeeded(c)
  <2>1. "lost" \in excuse'[t]
    BY <1>1, <1>4 DEF Deliver, Succeeded, Answered, TypeInv
  <2> QED
    BY <2>1 DEF AgreeInv
<1>5. CASE c.tab = t /\ c.op # "GET" /\ ~ Succeeded(c)
  <2>1. excuse' = excuse /\ view' = view
    BY <1>5 DEF Deliver
  <2>2. Loading(t)' <=> Loading(t)
    BY <1>1, <1>5 DEF Loading, Of
  <2> QED
    BY <1>1, <1>5, <2>1, <2>2, StillHolds
<1>6. CASE c.tab = t /\ Succeeded(c)
  <2>1. excuse' = excuse
    BY <1>6 DEF Deliver, Succeeded
  <2> SUFFICES ASSUME excuse[t] = {}, Readable(Owner) PROVE AgreeInv(t)'
    BY <1>2, <2>1 DEF AgreeInv
  <2>2. "raced" \notin excuse[t]
    OBVIOUS
  <2>3. \A d \in calls : d.tab = t => CallInv(d, t) /\ CallTypeOK(d)
    BY <2>2 DEF TabInv, TypeInv
  <2>4. CASE c.op = "GET"
    <3>1. c.id = NoId /\ Loading(t)
      BY <1>1, <1>6, <2>4 DEF CallTypeOK, Loading, Of
    <3>2. c.answer = config.cycles
      BY <1>6, <2>4, <3>1 DEF AgreeInv, ListHolds, Yes
    <3>3. view'[t] = config.cycles
      BY <1>6, <2>4, <3>2 DEF Deliver, TypeInv, storeReducer
    <3>4. ASSUME NEW d \in calls', d.tab = t
          PROVE  FALSE
      <4>1. d \in calls /\ d # c /\ CallTypeOK(d) /\ CallInv(d, t)
        BY <1>1, <2>3, <3>4
      <4>2. d.op = "GET" /\ d.id = NoId
        BY <3>1, <4>1 DEF CallInv, CallTypeOK
      <4> QED
        BY <1>1, <1>6, <2>4, <3>1, <3>4, <4>1, <4>2 DEF TypeInv, Distinct
    <3>5. ~ Loading(t)'
      BY <3>4 DEF Loading, Of
    <3>6. ShowsTooMuch(t)' /\ ShowsTooLittle(t)'
      BY <1>2, <3>3 DEF ShowsTooMuch, ShowsTooLittle, Gone
    <3>7. ShowsOtherwise(t)'
      <4>1. config.cycles \in Seq(Cycle) /\ Sane(config.cycles)
        BY DEF StoreInv, WellFormed, Sane, Readable, config, Documents
      <4>2. \A x, y \in Range(config.cycles) : x.id = y.id => x = y
        BY <4>1, SaneIds
      <4> QED
        BY <1>2, <3>3, <4>2 DEF ShowsOtherwise
    <3>8. AnswersHold(t)'
      BY <3>4 DEF AnswersHold, Yes
    <3> QED
      BY <3>4, <3>5, <3>6, <3>7, <3>8 DEF AgreeInv, Agrees
  <2>5. CASE c.op # "GET"
    <3>1. ~ Loading(t)
      BY <1>6, <2>3, <2>5 DEF CallInv
    <3>2. ~ Loading(t)'
      BY <1>1, <3>1 DEF Loading, Of
    <3>3. Agrees(t)
      BY <3>1 DEF AgreeInv
    <3>4. Agrees(t)'
      BY <1>6, <2>2, <2>5, <3>3, OwnAnswer
    <3> QED
      BY <3>2, <3>4 DEF AgreeInv
  <2> QED
    BY <2>4, <2>5
<1> QED
  BY <1>3, <1>4, <1>5, <1>6

LEMMA StepAgrees ==
  ASSUME StoreInv, TypeInv, NEW t \in Tabs, TabInv(t), AgreeInv(t), [Next]_vars
  PROVE  AgreeInv(t)'
<1>1. CASE UNCHANGED vars
  <2>1. UNCHANGED <<store, view, calls, excuse>>
    BY <1>1 DEF vars
  <2>2. \A d : d.tab = t => (d \in calls' <=> d \in calls)
    BY <2>1
  <2> QED
    BY <2>1, <2>2, SameLoading, StillHolds
<1>2. CASE Next
  BY <1>2, SubmitAgrees, ReloadAgrees, ServeAgrees, BreakAgrees, DeliverAgrees DEF Next
<1> QED
  BY <1>1, <1>2

LEMMA InitAgrees ==
  ASSUME Init, NEW t \in Tabs
  PROVE  AgreeInv(t)
<1>1. Mount(t) \in calls /\ \A c \in calls : c.answer = Waiting
  BY DEF Init, Mount, Call
<1>2. Mount(t).tab = t /\ Mount(t).op = "GET" /\ Mount(t).id = NoId
  BY DEF Mount, Call
<1>3. Loading(t)
  BY <1>1, <1>2 DEF Loading, Of
<1>4. ListHolds(t)
  BY <1>1 DEF ListHolds, Yes, Succeeded
<1> QED
  BY <1>3, <1>4 DEF AgreeInv

\* What the invariant leaves open is what the calls in flight are about.
LEMMA AgreeingShown ==
  ASSUME SaneInv, NEW t \in Tabs, AgreeInv(t), excuse[t] = {}, ~ Loading(t), Readable(Owner)
  PROVE  /\ Settled(view[t], t) = Settled(config.cycles, t)
         /\ SameOrder(view[t], config.cycles)
<1>1. /\ view[t] \in Seq(Cycle) /\ Sane(view[t])
      /\ \A c \in calls : CallTypeOK(c)
  BY DEF SaneInv, Base, TypeInv, TabInv
<1>2. config.cycles \in Seq(Cycle) /\ Sane(config.cycles)
  BY DEF SaneInv, Base, StoreInv, WellFormed, Sane, Readable, config, Documents
<1>3. ShowsTooMuch(t) /\ ShowsTooLittle(t) /\ ShowsOtherwise(t)
  BY DEF AgreeInv, Agrees
<1>4. ASSUME NEW c \in calls, Yes(c, t, "PUT") \/ Yes(c, t, "DELETE")
      PROVE  c.id \in Touched(t)
  BY <1>4 DEF Yes, Touched
<1>5. ASSUME NEW c \in calls, Yes(c, t, "POST")
      PROVE  c.answer[1].id \in Touched(t)
  <2>1. c \in Of(t, "POST", NoId) /\ Succeeded(c)
    BY <1>1, <1>5 DEF Yes, Of, CallTypeOK
  <2> QED
    BY <2>1 DEF Touched
<1>6. ASSUME NEW x \in Range(view[t]), x.id \notin Touched(t)
      PROVE  x \in Range(config.cycles)
  <2>1. ~ Gone(config.cycles, x.id)
    BY <1>3, <1>4, <1>6 DEF ShowsTooMuch
  <2>2. PICK y \in Range(config.cycles) : y.id = x.id
    BY <2>1 DEF Gone
  <2>3. x = y
    BY <1>3, <1>4, <1>6, <2>2 DEF ShowsOtherwise
  <2> QED
    BY <2>2, <2>3
<1>7. ASSUME NEW y \in Range(config.cycles), y.id \notin Touched(t)
      PROVE  y \in Range(view[t])
  <2>1. ~ Gone(view[t], y.id)
    BY <1>3, <1>5, <1>7 DEF ShowsTooLittle
  <2>2. PICK x \in Range(view[t]) : x.id = y.id
    BY <2>1 DEF Gone
  <2>3. x = y
    BY <1>3, <1>4, <1>7, <2>2 DEF ShowsOtherwise
  <2> QED
    BY <2>2, <2>3
<1>8. Settled(view[t], t) = Settled(config.cycles, t)
  BY <1>6, <1>7 DEF Settled
<1>9. SameOrder(view[t], config.cycles)
  <2> DEFINE shown == view[t]
             filed == config.cycles
  <2>1. ASSUME NEW i \in DOMAIN shown, NEW j \in DOMAIN shown
        PROVE  i < j <=> shown[i].id < shown[j].id
    <3>1. shown[i] \in Cycle /\ shown[j] \in Cycle /\ i \in Nat /\ j \in Nat
      BY <1>1
    <3>2. shown[i].id \in Nat /\ shown[j].id \in Nat
      BY <3>1 DEF Cycle
    <3>3. i < j \/ i = j \/ j < i
      BY <3>1
    <3> QED
      BY <1>1, <3>2, <3>3 DEF Sane
  <2>2. ASSUME NEW k \in DOMAIN filed, NEW l \in DOMAIN filed
        PROVE  k < l <=> filed[k].id < filed[l].id
    <3>1. filed[k] \in Cycle /\ filed[l] \in Cycle /\ k \in Nat /\ l \in Nat
      BY <1>2
    <3>2. filed[k].id \in Nat /\ filed[l].id \in Nat
      BY <3>1 DEF Cycle
    <3>3. k < l \/ k = l \/ l < k
      BY <3>1
    <3> QED
      BY <1>2, <3>2, <3>3 DEF Sane
  <2> HIDE DEF shown, filed
  <2>3. SameOrder(shown, filed)
    BY <2>1, <2>2 DEF SameOrder
  <2> QED
    BY <2>3 DEF shown, filed
<1> QED
  BY <1>8, <1>9

\* A page with no excuse shows the card: apart from the cycles its own calls in flight
\* are about it lists the very cycles of the file, with the same schedules and in the
\* same order, for any number of pages and whatever the order of the answers
\* (storeReducer.js:4-27, cycles.jsx:19, SD_Lite.ino:337-389).
THEOREM PagesShowTheCard == Spec => []ShownAgrees
<1> DEFINE Inv == SaneInv /\ \A t \in Tabs : AgreeInv(t)
<1>1. Init => Inv
  BY InitSane, InitAgrees
<1>2. Inv /\ [Next]_vars => Inv'
  <2> SUFFICES ASSUME Inv, [Next]_vars PROVE Inv'
    OBVIOUS
  <2>1. SaneInv' /\ StoreInv /\ TypeInv /\ \A t \in Tabs : TabInv(t)
    BY SaneStep DEF SaneInv, Base
  <2>2. \A t \in Tabs : AgreeInv(t)'
    BY <2>1, StepAgrees
  <2> QED
    BY <2>1, <2>2
<1>3. Inv => ShownAgrees
  BY AgreeingShown DEF ShownAgrees
<1> QED
  BY <1>1, <1>2, <1>3, PTL DEF Spec

=============================================================================
