---------------------------- MODULE AsyncTcpProofs ----------------------------
(***************************************************************************)
(* Theorems about AsyncTcp, for any number of addresses, connections and   *)
(* packets, and any length of the queue.                                   *)
(***************************************************************************)
EXTENDS AsyncTcp, SequenceTheorems, TLAPS

-----------------------------------------------------------------------------
(* Where an event may be: in the queue, in the hands of the sweep, or in those of LwIP's *)
(* thread, which cannot put it into the full queue.                                      *)

Places == 1 .. Len(queue)

Here(e) ==
  \/ \E i \in Places : queue[i] = e
  \/ service.held = e
  \/ waiting = e

Urgent(e) == e.kind \in {"ACCEPT", "CLEAR"}
Ends(e) == e.kind \in {"FIN", "ERROR"}
ToClient(e) == e.kind \in {"RECV", "FIN", "ERROR"}

\* No event is in two places.
Distinct ==
  /\ \A i, j \in Places : queue[i] = queue[j] => i = j
  /\ \A i \in Places : queue[i] # service.held /\ queue[i] # waiting
  /\ service.held # NoEvent => service.held # waiting

\* The sweep holds nothing of the client it sweeps; a CLEAR is in the queue or nowhere,
\* and only connections that were accepted since come before it.
Held ==
  /\ service.held # NoEvent =>
       /\ service.at = "sweep"
       /\ service.held.arg # service.arg /\ service.held.kind # "CLEAR"
  /\ waiting # NoEvent => waiting.kind # "CLEAR"

ClearFirst ==
  /\ \A i, j \in Places : i < j /\ queue[j].kind = "CLEAR" => queue[i].kind = "ACCEPT"
  /\ service.at \in {"finish", "data", "ack", "release", "close", "sweep"} =>
       \A i \in Places : queue[i].kind # "CLEAR"

\* The events of an address are about to be taken out.
Clearing(a) ==
  \/ service.at = "sweep" /\ service.arg = a
  \/ \E i \in Places : queue[i].kind = "CLEAR" /\ queue[i].arg = a

\* A sweep has been through the queue from the first event it put back.
Seam(m) ==
  \/ service.first = NoEvent /\ m = Len(queue)
  \/ service.first # NoEvent /\ m < Len(queue) /\ queue[m + 1] = service.first

Swept ==
  service.at = "sweep" =>
    /\ service.first # NoEvent => \E i \in Places : queue[i] = service.first
    /\ \A m \in 0 .. Len(queue) : Seam(m) =>
         \A i \in Places : i > m /\ queue[i].arg = service.arg
                           => object[queue[i].arg] = queue[i].conn

-----------------------------------------------------------------------------
(* Clients, connections, and the events that name them. *)

Standing ==
  /\ \A a, b \in Objects : object[a] \in Conns /\ object[a] = object[b] => a = b
  /\ \A a \in Objects : object[a] \in Conns => link[object[a]] # "new"
  /\ \A k \in Conns : link[k] = "up" => \E a \in Objects : object[a] = k
  /\ \A k \in Conns : link[k] = "new" => sent[k] = 0 /\ read[k] = 0

Sound(e) ==
  /\ e.kind = "ACCEPT" => e.arg = Server /\ link[e.conn] # "new"
  /\ e.kind = "CLEAR" => e.arg \in Objects
  /\ ToClient(e) =>
       /\ e.arg \in Objects /\ link[e.conn] # "new"
       /\ \A a \in Objects : object[a] = e.conn => e.arg = a
  /\ e.kind = "RECV" => e.n \in 1 .. sent[e.conn]
  /\ Ends(e) => link[e.conn] # "up"

\* A connection ends once.
EndsOnce ==
  \A e, f \in Events : Here(e) /\ Here(f) /\ Ends(e) /\ Ends(f) /\ e.conn = f.conn => e = f

\* The end of a connection finds its own client, or is about to be taken out.
EndsMeet ==
  \A e \in Events : Here(e) /\ Ends(e) => object[e.arg] = e.conn \/ Clearing(e.arg)

\* The event that LwIP's thread waits with is of a client that stands; if that is a
\* packet, its connection has not ended.
Waiting ==
  waiting # NoEvent =>
    /\ ToClient(waiting) => object[waiting.arg] = waiting.conn
    /\ waiting.kind = "RECV" =>
         /\ \A e \in Events : Here(e) /\ Ends(e) => e.conn # waiting.conn
         /\ service.at = "finish" => service.conn # waiting.conn

Serving ==
  /\ service.at \in {"finish", "release", "close", "closing"} =>
       /\ service.arg \in Objects /\ service.conn \in Conns
       /\ object[service.arg] = service.conn
  /\ service.at \in {"data", "ack"} =>
       /\ service.arg \in Objects
       /\ service.conn # NoConn => object[service.arg] = service.conn
  /\ service.at = "sweep" => service.arg \in Objects
  /\ service.at = "finish" =>
       /\ link[service.conn] # "up"
       /\ \A e \in Events : Here(e) /\ Ends(e) => e.conn # service.conn
  /\ service.at = "closing" =>
       /\ link[service.conn] = "closed"
       /\ \E i \in Places : queue[i].kind = "CLEAR" /\ queue[i].arg = service.arg

TcpInv ==
  /\ TypeOK
  /\ Distinct /\ Held /\ ClearFirst /\ Swept
  /\ Standing /\ (\A e \in Events : Here(e) => Sound(e))
  /\ EndsOnce /\ EndsMeet /\ Waiting /\ Serving

\* What service and history are made of.
Services ==
  [at : {"idle", "sweep", "finish", "data", "ack", "release", "close", "closing"},
   arg : Objects \cup {Server}, conn : Conns \cup {NoConn},
   held : Events \cup {NoEvent}, first : Events \cup {NoEvent}]

Histories ==
  [accepted : SUBSET Conns, reused : SUBSET Conns, leaked : SUBSET Conns,
   overlap : BOOLEAN, stray : BOOLEAN]

-----------------------------------------------------------------------------
(* Sequences. *)

LEMMA Prepended ==
  ASSUME NEW S, NEW s \in Seq(S), NEW e \in S
  PROVE  LET r == <<e>> \o s
         IN  /\ r \in Seq(S) /\ Len(r) = Len(s) + 1 /\ r[1] = e
             /\ \A i \in 1 .. Len(s) : r[i + 1] = s[i]
             /\ \A i \in 2 .. Len(s) + 1 : r[i] = s[i - 1]
<1> DEFINE r == <<e>> \o s
<1>1. <<e>> \in Seq(S) /\ Len(<<e>>) = 1 /\ <<e>>[1] = e
  OBVIOUS
<1>2. /\ r \in Seq(S) /\ Len(r) = Len(<<e>>) + Len(s)
      /\ \A i \in 1 .. Len(<<e>>) + Len(s) :
           r[i] = IF i <= Len(<<e>>) THEN <<e>>[i] ELSE s[i - Len(<<e>>)]
  BY <1>1, ConcatProperties
<1>3. Len(s) \in Nat
  OBVIOUS
<1> HIDE DEF r
<1>4. \A i \in 2 .. Len(s) + 1 : r[i] = s[i - 1]
  BY <1>1, <1>2, <1>3
<1>5. r[1] = e
  BY <1>1, <1>2, <1>3
<1>6. \A i \in 1 .. Len(s) : r[i + 1] = s[i]
  <2> TAKE i \in 1 .. Len(s)
  <2>1. i + 1 \in 2 .. Len(s) + 1 /\ (i + 1) - 1 = i
    BY <1>3
  <2> QED
    BY <1>4, <2>1
<1> QED
  BY <1>1, <1>2, <1>4, <1>5, <1>6 DEF r

LEMMA Appended ==
  ASSUME NEW S, NEW s \in Seq(S), NEW e \in S
  PROVE  LET r == Append(s, e)
         IN  /\ r \in Seq(S) /\ Len(r) = Len(s) + 1 /\ r[Len(s) + 1] = e
             /\ \A i \in 1 .. Len(s) : r[i] = s[i]
BY AppendProperties

LEMMA Shortened ==
  ASSUME NEW S, NEW s \in Seq(S), s # <<>>
  PROVE  /\ Tail(s) \in Seq(S) /\ Len(Tail(s)) = Len(s) - 1 /\ Len(s) >= 1
         /\ Head(s) = s[1] /\ s[1] \in S
         /\ \A i \in 1 .. Len(s) - 1 : Tail(s)[i] = s[i + 1]
BY HeadTailProperties

-----------------------------------------------------------------------------
(* What a step does to the queue. *)

CameLast(e) ==
  /\ queue' \in Seq(Events) /\ Len(queue') = Len(queue) + 1
  /\ queue'[Len(queue) + 1] = e
  /\ \A i \in Places : queue'[i] = queue[i]

CameFirst(e) ==
  /\ queue' \in Seq(Events) /\ Len(queue') = Len(queue) + 1
  /\ queue'[1] = e
  /\ \A i \in Places : queue'[i + 1] = queue[i]
  /\ \A i \in 2 .. Len(queue) + 1 : queue'[i] = queue[i - 1]

FirstWent ==
  /\ queue' \in Seq(Events) /\ Len(queue') = Len(queue) - 1 /\ Len(queue) >= 1
  /\ Head(queue) = queue[1] /\ queue[1] \in Events
  /\ \A i \in 1 .. Len(queue) - 1 : queue'[i] = queue[i + 1]

LEMMA EnqueuedIs ==
  ASSUME queue \in Seq(Events), NEW e \in Events, queue' = Enqueued(e)
  PROVE  /\ Urgent(e) => CameFirst(e)
         /\ ~ Urgent(e) => CameLast(e)
<1>1. CASE Urgent(e)
  <2>1. queue' = <<e>> \o queue
    BY <1>1 DEF Urgent, Enqueued
  <2> QED
    BY <1>1, <2>1, Prepended DEF CameFirst, Places
<1>2. CASE ~ Urgent(e)
  <2>1. queue' = Append(queue, e)
    BY <1>2 DEF Urgent, Enqueued
  <2> QED
    BY <1>2, <2>1, Appended DEF CameLast, Places
<1> QED
  BY <1>1, <1>2

LEMMA TailIs ==
  ASSUME queue \in Seq(Events), queue # <<>>, queue' = Tail(queue)
  PROVE  FirstWent
BY Shortened DEF FirstWent

\* Put leaves the event in the queue or with LwIP's thread.
LEMMA PutIs ==
  ASSUME queue \in Seq(Events), Len(queue) <= MaxEvents, NEW e \in Events, Put(e)
  PROVE  \/ queue' = queue /\ waiting' = e
         \/ /\ waiting' = waiting /\ Len(queue') <= MaxEvents
            /\ (Urgent(e) /\ CameFirst(e)) \/ (~ Urgent(e) /\ CameLast(e))
<1>1. CASE Full
  BY <1>1 DEF Put
<1>2. CASE ~ Full
  <2>1. queue' = Enqueued(e) /\ waiting' = waiting
    BY <1>2 DEF Put
  <2>2. Len(queue) + 1 <= MaxEvents
    BY <1>2, TcpAssumption DEF Full
  <2> QED
    BY <2>1, <2>2, EnqueuedIs DEF CameFirst, CameLast
<1> QED
  BY <1>1, <1>2

-----------------------------------------------------------------------------
(* An event comes. *)

LEMMA HereEnters ==
  ASSUME queue \in Seq(Events), NEW e \in Events, queue' = Enqueued(e), waiting' = NoEvent,
         service'.held = service.held
  PROVE  \A d \in Events : Here(d)' <=> \/ \E i \in Places : queue[i] = d
                                        \/ service.held = d
                                        \/ d = e
<1> TAKE d \in Events
<1>0. Len(queue) \in Nat /\ d # NoEvent
  BY NoEventAssumption
<1>1. CASE CameFirst(e)
  <2>1. ASSUME NEW i \in Places PROVE i + 1 \in 1 .. Len(queue') /\ queue'[i + 1] = queue[i]
    BY <1>0, <1>1 DEF Places, CameFirst
  <2>2. 1 \in 1 .. Len(queue') /\ queue'[1] = e
    BY <1>0, <1>1 DEF CameFirst
  <2>3. ASSUME NEW i \in 1 .. Len(queue'), i # 1
        PROVE  i - 1 \in Places /\ queue'[i] = queue[i - 1]
    BY <1>0, <1>1, <2>3 DEF Places, CameFirst
  <2>4. (\E i \in 1 .. Len(queue') : queue'[i] = d) <=> (\E i \in Places : queue[i] = d) \/ d = e
    <3>1. ASSUME NEW i \in 1 .. Len(queue'), queue'[i] = d
          PROVE  (\E j \in Places : queue[j] = d) \/ d = e
      BY <2>2, <2>3, <3>1
    <3> QED
      BY <2>1, <2>2, <3>1
  <2> QED
    BY <1>0, <2>4 DEF Here, Places
<1>2. CASE CameLast(e)
  <2>1. ASSUME NEW i \in Places PROVE i \in 1 .. Len(queue') /\ queue'[i] = queue[i]
    BY <1>0, <1>2 DEF Places, CameLast
  <2>2. Len(queue) + 1 \in 1 .. Len(queue') /\ queue'[Len(queue) + 1] = e
    BY <1>0, <1>2 DEF CameLast
  <2>3. ASSUME NEW i \in 1 .. Len(queue'), i # Len(queue) + 1
        PROVE  i \in Places /\ queue'[i] = queue[i]
    BY <1>0, <1>2, <2>3 DEF Places, CameLast
  <2> QED
    BY <1>0, <2>1, <2>2, <2>3 DEF Here, Places
<1> QED
  BY <1>1, <1>2, EnqueuedIs

LEMMA HereComes ==
  ASSUME TypeOK, NEW e \in Events, waiting = NoEvent, service' = service, Put(e)
  PROVE  \A d \in Events : Here(d)' <=> Here(d) \/ d = e
<1> TAKE d \in Events
<1>1. queue \in Seq(Events) /\ d # NoEvent
  BY NoEventAssumption DEF TypeOK
<1>2. CASE queue' = queue /\ waiting' = e
  BY <1>1, <1>2 DEF Here, Places
<1>3. CASE queue' = Enqueued(e) /\ waiting' = waiting
  BY <1>1, <1>3, HereEnters DEF Here
<1> QED
  BY <1>2, <1>3 DEF Put

\* An event enters the queue: it was with LwIP's thread, or comes.
LEMMA PlacesEnters ==
  ASSUME queue \in Seq(Events), NEW e \in Events, e.kind # "CLEAR", Distinct, Held, ClearFirst,
         \A i \in Places : queue[i] # e, service.held # e,
         queue' = Enqueued(e), waiting' = NoEvent, service' = service
  PROVE  /\ Distinct' /\ Held' /\ ClearFirst'
         /\ \A a : Clearing(a)' <=> Clearing(a)
<1>0. /\ Len(queue) \in Nat /\ e # NoEvent
      /\ \A i \in Places : queue[i] # NoEvent
  BY NoEventAssumption DEF Places
<1>2. CASE Urgent(e) /\ CameFirst(e)
  <2>1. ASSUME NEW i \in Places PROVE i + 1 \in 1 .. Len(queue') /\ queue'[i + 1] = queue[i]
    BY <1>0, <1>2 DEF Places, CameFirst
  <2>2. 1 \in 1 .. Len(queue') /\ queue'[1] = e
    BY <1>0, <1>2 DEF CameFirst
  <2>3. ASSUME NEW i \in 1 .. Len(queue'), i # 1
        PROVE  i - 1 \in Places /\ queue'[i] = queue[i - 1]
    BY <1>0, <1>2, <2>3 DEF Places, CameFirst
  <2>4. Distinct'
    <3>1. ASSUME NEW i \in 1 .. Len(queue'), NEW j \in 1 .. Len(queue'), queue'[i] = queue'[j]
          PROVE  i = j
      <4>1. CASE i # 1 /\ j # 1
        <5>1. i - 1 = j - 1
          BY <2>3, <3>1, <4>1 DEF Distinct
        <5> QED
          BY <5>1
      <4>2. CASE i = 1 \/ j = 1
        BY <2>2, <2>3, <3>1, <4>2
      <4> QED
        BY <4>1, <4>2
    <3>2. ASSUME NEW i \in 1 .. Len(queue')
          PROVE  queue'[i] # service.held /\ queue'[i] # NoEvent
      BY <1>0, <2>2, <2>3 DEF Distinct
    <3> QED
      BY <1>2, <3>1, <3>2 DEF Distinct, Places
  <2>5. ClearFirst'
    <3>1. ASSUME NEW i \in 1 .. Len(queue'), NEW j \in 1 .. Len(queue'), i < j,
                 queue'[j].kind = "CLEAR"
          PROVE  queue'[i].kind = "ACCEPT"
      <4>1. j # 1 /\ j - 1 \in Places /\ queue[j - 1].kind = "CLEAR"
        BY <1>0, <2>2, <2>3, <3>1
      <4>2. CASE i = 1
        BY <1>2, <2>2, <4>2 DEF Urgent
      <4>3. CASE i # 1
        <5>1. i - 1 \in Places /\ queue'[i] = queue[i - 1] /\ i - 1 < j - 1
          BY <2>3, <3>1, <4>3
        <5> QED
          BY <4>1, <5>1 DEF ClearFirst
      <4> QED
        BY <4>2, <4>3
    <3>2. ASSUME NEW i \in 1 .. Len(queue'),
                 service.at \in {"finish", "data", "ack", "release", "close", "sweep"}
          PROVE  queue'[i].kind # "CLEAR"
      BY <1>2, <2>2, <2>3, <3>2 DEF ClearFirst
    <3> QED
      BY <3>1, <3>2 DEF ClearFirst, Places
  <2>6. ASSUME NEW a PROVE Clearing(a)' <=> Clearing(a)
    <3>1. (\E i \in 1 .. Len(queue') : queue'[i].kind = "CLEAR" /\ queue'[i].arg = a)
          <=> \E i \in Places : queue[i].kind = "CLEAR" /\ queue[i].arg = a
      <4>1. ASSUME NEW i \in 1 .. Len(queue'), queue'[i].kind = "CLEAR", queue'[i].arg = a
            PROVE  \E j \in Places : queue[j].kind = "CLEAR" /\ queue[j].arg = a
        BY <2>2, <2>3, <4>1
      <4> QED
        BY <2>1, <4>1
    <3> QED
      BY <3>1 DEF Clearing, Places
  <2> QED
    BY <1>2, <2>4, <2>5, <2>6 DEF Held, CameFirst
<1>3. CASE ~ Urgent(e) /\ CameLast(e)
  <2>1. ASSUME NEW i \in Places PROVE i \in 1 .. Len(queue') /\ queue'[i] = queue[i]
    BY <1>0, <1>3 DEF Places, CameLast
  <2>2. Len(queue) + 1 \in 1 .. Len(queue') /\ queue'[Len(queue) + 1] = e
    BY <1>0, <1>3 DEF CameLast
  <2>3. ASSUME NEW i \in 1 .. Len(queue'), i # Len(queue) + 1
        PROVE  i \in Places /\ queue'[i] = queue[i]
    BY <1>0, <1>3, <2>3 DEF Places, CameLast
  <2>4. Distinct'
    <3>1. ASSUME NEW i \in 1 .. Len(queue'), NEW j \in 1 .. Len(queue'), queue'[i] = queue'[j]
          PROVE  i = j
      BY <1>0, <2>2, <2>3, <3>1 DEF Distinct
    <3>2. ASSUME NEW i \in 1 .. Len(queue')
          PROVE  queue'[i] # service.held /\ queue'[i] # NoEvent
      BY <1>0, <2>2, <2>3 DEF Distinct
    <3> QED
      BY <1>3, <3>1, <3>2 DEF Distinct, Places
  <2>5. ClearFirst'
    BY <1>0, <1>3, <2>2, <2>3 DEF ClearFirst, Places
  <2>6. ASSUME NEW a PROVE Clearing(a)' <=> Clearing(a)
    BY <2>1, <2>2, <2>3 DEF Clearing, Places
  <2> QED
    BY <1>3, <2>4, <2>5, <2>6 DEF Held, CameLast
<1> QED
  BY <1>2, <1>3, EnqueuedIs

LEMMA PlacesComes ==
  ASSUME TypeOK, Distinct, Held, ClearFirst, NEW e \in Events, ~ Here(e), e.kind # "CLEAR",
         waiting = NoEvent, service' = service, Put(e)
  PROVE  /\ queue' \in Seq(Events) /\ Len(queue') <= MaxEvents
         /\ waiting' \in Events \cup {NoEvent}
         /\ Distinct' /\ Held' /\ ClearFirst'
         /\ \A a : Clearing(a)' <=> Clearing(a)
<1>0. queue \in Seq(Events) /\ Len(queue) <= MaxEvents /\ Len(queue) \in Nat /\ e # NoEvent
  BY NoEventAssumption DEF TypeOK
<1>1. CASE queue' = queue /\ waiting' = e
  <2>1. Distinct' /\ Held' /\ ClearFirst'
    BY <1>0, <1>1 DEF Distinct, Held, ClearFirst, Places, Here
  <2>2. ASSUME NEW a PROVE Clearing(a)' <=> Clearing(a)
    BY <1>1 DEF Clearing, Places
  <2> QED
    BY <1>0, <1>1, <2>1, <2>2
<1>2. CASE queue' = Enqueued(e) /\ waiting' = waiting
  <2>1. /\ Distinct' /\ Held' /\ ClearFirst'
        /\ \A a : Clearing(a)' <=> Clearing(a)
    BY <1>0, <1>2, PlacesEnters DEF Here
  <2>2. queue' \in Seq(Events) /\ Len(queue') <= MaxEvents
    BY <1>0, <1>2, PutIs, NoEventAssumption DEF CameFirst, CameLast
  <2> QED
    BY <1>2, <2>1, <2>2
<1> QED
  BY <1>1, <1>2 DEF Put

LEMMA SweptEnters ==
  ASSUME TypeOK, Swept, Serving, NEW e \in Events, e.kind # "CLEAR",
         \A i \in Places : queue[i] # e,
         queue' = Enqueued(e), service' = service,
         e.kind = "ACCEPT" => e.arg = Server,
         \A a \in Objects : object[a] # NoConn => object'[a] = object[a],
         ToClient(e) => object'[e.arg] = e.conn
  PROVE  Swept'
<1>0. /\ queue \in Seq(Events) /\ Len(queue) <= MaxEvents /\ Len(queue) \in Nat
      /\ \A i \in Places : queue[i] \in Events
      /\ \A i \in Places : queue[i].conn # NoConn
  <2>1. /\ queue \in Seq(Events) /\ Len(queue) <= MaxEvents /\ Len(queue) \in Nat
        /\ \A i \in Places : queue[i] \in Events
    BY DEF TypeOK, Places
  <2>2. \A d \in Events : d.conn # NoConn
    BY TcpAssumption DEF Events
  <2> QED
    BY <2>1, <2>2
<1> SUFFICES ASSUME service.at = "sweep"
             PROVE  /\ service.first # NoEvent =>
                         \E i \in 1 .. Len(queue') : queue'[i] = service.first
                    /\ \A m \in 0 .. Len(queue') : Seam(m)' =>
                         \A i \in 1 .. Len(queue') : i > m /\ queue'[i].arg = service.arg
                                          => object'[queue'[i].arg] = queue'[i].conn
  BY DEF Swept, Places
<1>1. /\ service.arg \in Objects
      /\ service.first # NoEvent => \E i \in Places : queue[i] = service.first
  BY DEF Serving, Swept
<1>2. ASSUME NEW m \in 0 .. Len(queue), Seam(m), NEW i \in Places, i > m,
             queue[i].arg = service.arg
      PROVE  object'[queue[i].arg] = queue[i].conn
  <2>1. object[queue[i].arg] = queue[i].conn
    BY <1>2 DEF Swept
  <2> QED
    BY <1>0, <1>1, <1>2, <2>1
<1>4. CASE Urgent(e) /\ CameFirst(e)
  <2>1. e.arg # service.arg
    BY <1>1, <1>4, TcpAssumption DEF Urgent
  <2>2. 1 \in 1 .. Len(queue') /\ queue'[1] = e /\ Len(queue') = Len(queue) + 1
    BY <1>0, <1>4 DEF CameFirst
  <2>3. ASSUME NEW i \in Places PROVE i + 1 \in 1 .. Len(queue') /\ queue'[i + 1] = queue[i]
    BY <1>0, <1>4 DEF Places, CameFirst
  <2>4. ASSUME NEW i \in 1 .. Len(queue'), i # 1
        PROVE  i - 1 \in Places /\ queue'[i] = queue[i - 1]
    BY <1>0, <1>4, <2>4 DEF Places, CameFirst
  <2>5. ASSUME NEW m \in 0 .. Len(queue'), Seam(m)', NEW i \in 1 .. Len(queue'), i > m,
               queue'[i].arg = service.arg
        PROVE  object'[queue'[i].arg] = queue'[i].conn
    <3>1. service.first # NoEvent /\ m + 1 \in 1 .. Len(queue') /\ queue'[m + 1] = service.first
      BY <2>2, <2>5 DEF Seam
    <3>2. m # 0
      BY <1>1, <2>2, <3>1
    <3>3. m - 1 \in 0 .. Len(queue) /\ m - 1 < Len(queue) /\ queue[m] = service.first
      BY <2>2, <2>4, <3>1, <3>2
    <3>4. Seam(m - 1)
      BY <3>1, <3>3 DEF Seam
    <3>5. i # 1 /\ i - 1 \in Places /\ i - 1 > m - 1 /\ queue'[i] = queue[i - 1]
      BY <2>4, <2>5, <3>2
    <3> QED
      BY <1>2, <2>5, <3>3, <3>4, <3>5
  <2> QED
    BY <1>1, <2>3, <2>5
<1>5. CASE ~ Urgent(e) /\ CameLast(e)
  <2>1. ToClient(e)
    BY <1>5 DEF ToClient, Urgent, Events
  <2>2. /\ Len(queue) + 1 \in 1 .. Len(queue') /\ queue'[Len(queue) + 1] = e
        /\ Len(queue') = Len(queue) + 1
    BY <1>0, <1>5 DEF CameLast
  <2>3. ASSUME NEW i \in Places PROVE i \in 1 .. Len(queue') /\ queue'[i] = queue[i]
    BY <1>0, <1>5 DEF Places, CameLast
  <2>4. ASSUME NEW i \in 1 .. Len(queue'), i # Len(queue) + 1
        PROVE  i \in Places /\ queue'[i] = queue[i]
    BY <1>0, <1>5, <2>4 DEF Places, CameLast
  <2>5. ASSUME NEW m \in 0 .. Len(queue'), Seam(m)', NEW i \in 1 .. Len(queue'), i > m,
               queue'[i].arg = service.arg
        PROVE  object'[queue'[i].arg] = queue'[i].conn
    <3>1. service.first # NoEvent /\ m + 1 \in 1 .. Len(queue') /\ queue'[m + 1] = service.first
      BY <2>2, <2>5 DEF Seam
    <3>2. m + 1 \in Places /\ queue[m + 1] = service.first
      BY <1>1, <2>2, <2>4, <3>1
    <3>3. m \in 0 .. Len(queue) /\ Seam(m)
      BY <1>0, <3>1, <3>2 DEF Seam, Places
    <3>4. CASE i = Len(queue) + 1
      BY <2>1, <2>2, <3>4
    <3>5. CASE i # Len(queue) + 1
      BY <1>2, <2>4, <2>5, <3>3, <3>5
    <3> QED
      BY <3>4, <3>5
  <2> QED
    BY <1>1, <2>3, <2>5
<1> QED
  BY <1>0, <1>4, <1>5, EnqueuedIs

LEMMA SweptComes ==
  ASSUME TypeOK, Swept, Serving, NEW e \in Events, ~ Here(e), e.kind # "CLEAR",
         waiting = NoEvent, service' = service, Put(e),
         e.kind = "ACCEPT" => e.arg = Server,
         \A a \in Objects : object[a] # NoConn => object'[a] = object[a],
         ToClient(e) => object'[e.arg] = e.conn
  PROVE  Swept'
<1>1. CASE queue' = queue
  <2>1. ASSUME NEW m PROVE Seam(m)' <=> Seam(m)
    BY <1>1 DEF Seam
  <2>2. ASSUME service.at = "sweep", NEW m \in 0 .. Len(queue), Seam(m), NEW i \in Places, i > m,
               queue[i].arg = service.arg
        PROVE  object'[queue[i].arg] = queue[i].conn
    <3>1. object[queue[i].arg] = queue[i].conn /\ service.arg \in Objects
      BY <2>2 DEF Swept, Serving
    <3>2. queue[i].conn # NoConn
      <4>1. queue[i] \in Events
        BY <2>2 DEF TypeOK, Places
      <4> QED
        BY <4>1, TcpAssumption DEF Events
    <3> QED
      BY <2>2, <3>1, <3>2
  <2> QED
    BY <1>1, <2>1, <2>2 DEF Swept, Places
<1>2. CASE queue' = Enqueued(e)
  BY <1>2, SweptEnters DEF Here
<1> QED
  BY <1>1, <1>2 DEF Put

\* What LwIP's callbacks have in common: an event of a standing client, or of a new one,
\* comes, and nothing that stands or ended changes.
LEMMA ComesKeeps ==
  ASSUME TcpInv, NEW e \in Events, ~ Here(e), e.kind # "CLEAR", waiting = NoEvent,
         service' = service, Put(e),
         object' \in [Objects -> Conns \cup {NoConn}],
         link' \in [Conns -> {"new", "up", "reset", "closed"}],
         sent' \in [Conns -> 0 .. MaxData], read' \in [Conns -> 0 .. MaxData],
         history' \in Histories,
         Standing', Sound(e)',
         \A a \in Objects : object[a] # NoConn => object'[a] = object[a],
         \A a \in Objects : object'[a] = object[a] \/ link[object'[a]] = "new",
         \A k \in Conns : /\ link[k] \notin {"new", "up"} => link'[k] = link[k]
                          /\ link[k] = "up" => link'[k] # "new",
         \A k \in Conns : sent[k] <= sent'[k],
         ToClient(e) => object'[e.arg] = e.conn /\ link[e.conn] = "up"
  PROVE  TcpInv'
<1>0. /\ TypeOK /\ Distinct /\ Held /\ ClearFirst /\ Swept /\ Serving /\ EndsOnce /\ EndsMeet
      /\ Standing /\ \A d \in Events : Here(d) => Sound(d)
  BY DEF TcpInv
<1>1. /\ queue' \in Seq(Events) /\ Len(queue') <= MaxEvents
      /\ waiting' \in Events \cup {NoEvent} /\ Distinct' /\ Held' /\ ClearFirst'
      /\ \A a : Clearing(a)' <=> Clearing(a)
  BY <1>0, PlacesComes
<1>2. \A d \in Events : Here(d)' <=> Here(d) \/ d = e
  BY <1>0, HereComes
<1>3. TypeOK'
  BY <1>0, <1>1 DEF TypeOK, Histories
<1>4. Swept'
  <2>1. e.kind = "ACCEPT" => e.arg = Server
    BY DEF Sound
  <2> QED
    BY <1>0, <1>1, <2>1, SweptComes
<1>5. ASSUME NEW d \in Events, Here(d)' PROVE Sound(d)'
  <2>1. CASE d = e
    BY <2>1
  <2>2. CASE d # e
    <3>1. Sound(d) /\ d.conn \in Conns /\ d.n \in Nat
      BY <1>0, <1>2, <1>5, <2>2, TcpAssumption DEF Events
    <3>2. sent[d.conn] \in Nat /\ sent'[d.conn] \in Nat /\ sent[d.conn] <= sent'[d.conn]
      BY <1>0, <3>1, TcpAssumption DEF TypeOK
    <3>3. link[d.conn] # "new" => link'[d.conn] # "new"
      BY <3>1
    <3>4. ASSUME ToClient(d), NEW a \in Objects, object'[a] = d.conn PROVE d.arg = a
      BY <3>1, <3>4 DEF Sound
    <3>5. Ends(d) => link'[d.conn] # "up"
      BY <3>1 DEF Sound, Ends, ToClient
    <3>6. d.kind = "RECV" => d.n \in 1 .. sent'[d.conn]
      BY <3>1, <3>2 DEF Sound
    <3> QED
      BY <3>1, <3>3, <3>4, <3>5, <3>6 DEF Sound, Ends, ToClient
  <2> QED
    BY <2>1, <2>2
<1>6. EndsOnce'
  <2> SUFFICES ASSUME NEW d \in Events, NEW f \in Events, Here(d)', Here(f)', Ends(d), Ends(f),
                      d.conn = f.conn
               PROVE  d = f
    BY DEF EndsOnce, Ends
  <2>1. ASSUME NEW g \in Events, Here(g), Ends(g), Ends(e) PROVE g.conn # e.conn
    BY <1>0, <2>1 DEF Sound, Ends, ToClient
  <2> QED
    BY <1>0, <1>2, <2>1 DEF EndsOnce
<1>7. EndsMeet'
  <2>1. ASSUME NEW d \in Events, Here(d), Ends(d), object[d.arg] = d.conn
        PROVE  object'[d.arg] = d.conn
    <3>1. d.arg \in Objects /\ d.conn # NoConn
      BY <1>0, <2>1, TcpAssumption DEF Sound, Ends, ToClient, Events
    <3> QED
      BY <2>1, <3>1
  <2>2. Ends(e) => object'[e.arg] = e.conn
    BY DEF Ends, ToClient
  <2>3. ASSUME NEW d \in Events, Here(d)', Ends(d)
        PROVE  object'[d.arg] = d.conn \/ Clearing(d.arg)'
    BY <1>0, <1>1, <1>2, <2>1, <2>2, <2>3 DEF EndsMeet
  <2> QED
    BY <2>3 DEF EndsMeet, Ends
<1>8. Serving'
  <2>1. ASSUME service.at \in {"finish", "release", "close", "closing"}
        PROVE  /\ service.arg \in Objects /\ service.conn \in Conns
               /\ object[service.arg] = service.conn /\ object'[service.arg] = service.conn
               /\ link[service.conn] # "new"
    BY <1>0, <2>1, TcpAssumption DEF Serving, Standing
  <2>2. ASSUME service.at = "finish"
        PROVE  /\ link'[service.conn] # "up"
               /\ \A d \in Events : Here(d)' /\ Ends(d) => d.conn # service.conn
    BY <1>0, <1>2, <2>1, <2>2 DEF Serving, Ends, ToClient
  <2>3. ASSUME service.at = "closing"
        PROVE  /\ link'[service.conn] = "closed"
               /\ \E i \in 1 .. Len(queue') :
                    queue'[i].kind = "CLEAR" /\ queue'[i].arg = service.arg
    <3>1. Clearing(service.arg)
      BY <1>0, <2>3 DEF Serving, Clearing
    <3>2. Clearing(service.arg)'
      BY <1>1, <3>1
    <3> QED
      BY <1>0, <2>1, <2>3, <3>2 DEF Serving, Clearing, Places
  <2>4. service.at = "sweep" => service.arg \in Objects
    BY <1>0 DEF Serving
  <2>5. ASSUME service.at \in {"data", "ack"}
        PROVE  /\ service.arg \in Objects
               /\ service.conn # NoConn => object'[service.arg] = service.conn
    BY <1>0, <2>5 DEF Serving
  <2> QED
    BY <2>1, <2>2, <2>3, <2>4, <2>5 DEF Serving, Places, Ends
<1>9. Waiting'
  <2>1. waiting' # NoEvent => waiting' = e
    BY DEF Put
  <2>2. ASSUME e.kind = "RECV", NEW d \in Events, Here(d)', Ends(d) PROVE d.conn # e.conn
    BY <1>0, <1>2, <2>2 DEF Sound, Ends, ToClient
  <2>3. e.kind = "RECV" /\ service.at = "finish" => service.conn # e.conn
    BY <1>0 DEF Serving, ToClient
  <2> QED
    BY <2>1, <2>2, <2>3 DEF Waiting, ToClient, Ends
<1> QED
  BY <1>1, <1>3, <1>4, <1>5, <1>6, <1>7, <1>8, <1>9 DEF TcpInv

LEMMA OverlappedIs ==
  ASSUME history \in Histories
  PROVE  /\ Overlapped \in Histories
         /\ Overlapped.accepted = history.accepted /\ Overlapped.reused = history.reused
         /\ Overlapped.stray = history.stray /\ Overlapped.leaked = history.leaked
         /\ Overlapped.overlap <=> history.overlap \/ service.at = "sweep"
BY DEF Overlapped, Histories

LEMMA AddressIs ==
  ASSUME Standing, NEW k \in Conns, link[k] = "up"
  PROVE  AddressOf(k) \in Objects /\ object[AddressOf(k)] = k
<1>1. \E a \in Objects : object[a] = k
  BY DEF Standing
<1> QED
  BY <1>1 DEF AddressOf

LEMMA AcceptKeeps ==
  ASSUME TcpInv, NEW k \in Conns, NEW a \in Objects, Accept(k, a)
  PROVE  TcpInv'
<1> DEFINE e == Event("ACCEPT", Server, k, 0)
<1>0. /\ TypeOK /\ Standing /\ \A d \in Events : Here(d) => Sound(d)
      /\ waiting = NoEvent /\ service' = service /\ sent' = sent /\ read' = read
      /\ link[k] = "new" /\ object[a] = NoConn
      /\ link' = [link EXCEPT ![k] = "up"] /\ object' = [object EXCEPT ![a] = k] /\ Put(e)
  BY DEF TcpInv, Accept
<1>1. /\ e \in Events /\ e.kind = "ACCEPT" /\ e.arg = Server /\ e.conn = k
  BY TcpAssumption DEF Event, Events
<1>2. /\ object \in [Objects -> Conns \cup {NoConn}] /\ history \in Histories
      /\ link \in [Conns -> {"new", "up", "reset", "closed"}]
      /\ sent \in [Conns -> 0 .. MaxData] /\ read \in [Conns -> 0 .. MaxData]
  BY <1>0 DEF TypeOK, Histories
<1> HIDE DEF e
<1>3. /\ object' \in [Objects -> Conns \cup {NoConn}]
      /\ link' \in [Conns -> {"new", "up", "reset", "closed"}]
      /\ object'[a] = k /\ \A b \in Objects : b # a => object'[b] = object[b]
      /\ link'[k] = "up" /\ \A c \in Conns : c # k => link'[c] = link[c]
  BY <1>0, <1>2
<1>4. history' \in Histories
  <2> DEFINE reused == IF \/ \E i \in DOMAIN queue : queue[i].arg = a
                          \/ service.at = "sweep" /\ service.arg = a
                       THEN Overlapped.reused \cup {k} ELSE Overlapped.reused
  <2>1. Overlapped \in Histories /\ history' = [Overlapped EXCEPT !.reused = reused]
    BY <1>2, OverlappedIs DEF Accept
  <2>2. reused \in SUBSET Conns
    BY <2>1 DEF Histories
  <2> HIDE DEF reused
  <2> QED
    BY <2>1, <2>2 DEF Histories
<1>5. ~ Here(e)
  BY <1>0, <1>1 DEF Sound
<1>6. \A b \in Objects : object[b] # k
  BY <1>0 DEF Standing
<1>7. Standing'
  <2>1. ASSUME NEW b \in Objects, NEW c \in Objects, object'[b] \in Conns,
               object'[b] = object'[c]
        PROVE  b = c
    BY <1>0, <1>3, <1>6, <2>1 DEF Standing
  <2>2. ASSUME NEW b \in Objects, object'[b] \in Conns PROVE link'[object'[b]] # "new"
    BY <1>0, <1>3, <1>6, <2>2 DEF Standing
  <2>3. ASSUME NEW c \in Conns, link'[c] = "up" PROVE \E b \in Objects : object'[b] = c
    <3>1. CASE c = k
      BY <1>3, <3>1
    <3>2. CASE c # k
      <4>1. PICK b \in Objects : object[b] = c
        BY <1>0, <1>3, <2>3, <3>2 DEF Standing
      <4>2. b # a
        BY <1>0, <4>1, TcpAssumption
      <4> QED
        BY <1>3, <4>1, <4>2
    <3> QED
      BY <3>1, <3>2
  <2>4. ASSUME NEW c \in Conns, link'[c] = "new" PROVE sent'[c] = 0 /\ read'[c] = 0
    BY <1>0, <1>3, <2>4 DEF Standing
  <2> QED
    BY <2>1, <2>2, <2>3, <2>4 DEF Standing
<1>8. Sound(e)'
  BY <1>1, <1>3 DEF Sound, ToClient, Ends
<1>9. ~ ToClient(e)
  BY <1>1 DEF ToClient
<1>10. \A c \in Conns : sent[c] <= sent'[c]
  BY <1>0, <1>2, TcpAssumption
<1>11. \A c \in Conns : /\ link[c] \notin {"new", "up"} => link'[c] = link[c]
                        /\ link[c] = "up" => link'[c] # "new"
  BY <1>0, <1>3
<1>12. /\ \A b \in Objects : object[b] # NoConn => object'[b] = object[b]
       /\ \A b \in Objects : object'[b] = object[b] \/ link[object'[b]] = "new"
  BY <1>0, <1>3
<1> QED
  BY <1>0, <1>1, <1>2, <1>3, <1>4, <1>5, <1>7, <1>8, <1>9, <1>10, <1>11, <1>12, ComesKeeps
     DEF Histories

\* An event of a client that stands.
LEMMA CallbackKeeps ==
  ASSUME TcpInv, NEW k \in Conns, link[k] = "up", waiting = NoEvent,
         NEW e \in Events, ~ Here(e), ToClient(e), e.conn = k, e.arg = AddressOf(k), Put(e),
         object' = object, service' = service, read' = read, history' = Overlapped,
         sent' \in [Conns -> 0 .. MaxData], link' \in [Conns -> {"new", "up", "reset", "closed"}],
         \A c \in Conns : /\ c # k => link'[c] = link[c] /\ sent'[c] = sent[c]
                          /\ sent[c] <= sent'[c],
         link'[k] # "new",
         e.kind = "RECV" => e.n \in 1 .. sent'[k],
         Ends(e) => link'[k] # "up"
  PROVE  TcpInv'
<1>1. /\ TypeOK /\ Standing /\ object \in [Objects -> Conns \cup {NoConn}]
      /\ history \in Histories /\ read \in [Conns -> 0 .. MaxData]
  BY DEF TcpInv, TypeOK, Histories
<1>2. AddressOf(k) \in Objects /\ object[AddressOf(k)] = k
  BY <1>1, AddressIs
<1>3. history' \in Histories
  BY <1>1, OverlappedIs
<1>4. Standing'
  <2>1. /\ \A a, b \in Objects : object'[a] \in Conns /\ object'[a] = object'[b] => a = b
        /\ \A a \in Objects : object'[a] \in Conns => link'[object'[a]] # "new"
        /\ \A c \in Conns : link'[c] = "up" => \E a \in Objects : object'[a] = c
    BY <1>1 DEF Standing
  <2>2. \A c \in Conns : link'[c] = "new" => sent'[c] = 0 /\ read'[c] = 0
    BY <1>1 DEF Standing
  <2> QED
    BY <2>1, <2>2 DEF Standing
<1>5. Sound(e)'
  <2>1. \A a \in Objects : object[a] = k => a = AddressOf(k)
    BY <1>1, <1>2 DEF Standing
  <2> QED
    BY <1>2, <2>1 DEF Sound, ToClient, Ends
<1>6. e.kind # "CLEAR" /\ e.kind # "ACCEPT"
  BY DEF ToClient
<1>7. \A c \in Conns : /\ link[c] \notin {"new", "up"} => link'[c] = link[c]
                       /\ link[c] = "up" => link'[c] # "new"
  OBVIOUS
<1> QED
  BY <1>1, <1>2, <1>3, <1>4, <1>5, <1>6, <1>7, ComesKeeps DEF Histories

LEMMA ReceiveKeeps ==
  ASSUME TcpInv, NEW k \in Conns, Receive(k)
  PROVE  TcpInv'
<1> DEFINE e == Event("RECV", AddressOf(k), k, sent[k] + 1)
<1>1. /\ TypeOK /\ Standing /\ link[k] = "up" /\ waiting = NoEvent /\ sent[k] < MaxData
      /\ sent' = [sent EXCEPT ![k] = sent[k] + 1] /\ Put(e) /\ history' = Overlapped
      /\ service' = service /\ object' = object /\ link' = link /\ read' = read
      /\ \A d \in Events : Here(d) => Sound(d)
  BY DEF TcpInv, Receive
<1>2. AddressOf(k) \in Objects
  BY <1>1, AddressIs
<1>3. /\ sent \in [Conns -> 0 .. MaxData] /\ sent[k] \in 0 .. MaxData /\ MaxData \in Nat
      /\ link \in [Conns -> {"new", "up", "reset", "closed"}]
  BY <1>1, TcpAssumption DEF TypeOK
<1>4. /\ e \in Events /\ e.kind = "RECV" /\ e.conn = k /\ e.arg = AddressOf(k)
      /\ e.n = sent[k] + 1
  BY <1>1, <1>2, <1>3 DEF Event, Events
<1> HIDE DEF e
<1>5. /\ sent' \in [Conns -> 0 .. MaxData] /\ sent'[k] = sent[k] + 1
      /\ \A c \in Conns : c # k => sent'[c] = sent[c]
      /\ \A c \in Conns : sent[c] <= sent'[c]
  BY <1>1, <1>3
<1>6. ~ Here(e)
  <2> SUFFICES ASSUME Sound(e) PROVE FALSE
    BY <1>1, <1>4
  <2>1. e.n \in 1 .. sent[k]
    BY <1>4 DEF Sound
  <2> QED
    BY <1>3, <1>4, <2>1
<1>7. e.n \in 1 .. sent'[k] /\ ToClient(e) /\ ~ Ends(e)
  BY <1>3, <1>4, <1>5 DEF ToClient, Ends
<1> QED
  BY <1>1, <1>3, <1>4, <1>5, <1>6, <1>7, CallbackKeeps

\* FIN and ERROR.
LEMMA EndKeeps ==
  ASSUME TcpInv, NEW k \in Conns, NEW kind \in {"FIN", "ERROR"}, NEW l \in {"closed", "reset"},
         waiting = NoEvent, link[k] = "up", link' = [link EXCEPT ![k] = l],
         Put(Event(kind, AddressOf(k), k, 0)), history' = Overlapped,
         UNCHANGED <<service, object, sent, read>>
  PROVE  TcpInv'
<1> DEFINE e == Event(kind, AddressOf(k), k, 0)
<1>1. /\ TypeOK /\ Standing /\ \A d \in Events : Here(d) => Sound(d)
  BY DEF TcpInv
<1>2. AddressOf(k) \in Objects
  BY <1>1, AddressIs
<1>3. /\ sent \in [Conns -> 0 .. MaxData] /\ MaxData \in Nat
      /\ link \in [Conns -> {"new", "up", "reset", "closed"}]
  BY <1>1, TcpAssumption DEF TypeOK
<1>4. /\ e \in Events /\ e.kind = kind /\ e.conn = k /\ e.arg = AddressOf(k)
  BY <1>2, <1>3 DEF Event, Events
<1>5. Put(e)
  OBVIOUS
<1> HIDE DEF e
<1>6. /\ link' \in [Conns -> {"new", "up", "reset", "closed"}]
      /\ link'[k] = l /\ \A c \in Conns : c # k => link'[c] = link[c]
  BY <1>3
<1>7. ToClient(e) /\ Ends(e) /\ e.kind # "RECV"
  BY <1>4 DEF ToClient, Ends
<1>8. ~ Here(e)
  BY <1>1, <1>4, <1>7 DEF Sound
<1>9. \A c \in Conns : sent'[c] = sent[c] /\ sent[c] <= sent'[c]
  BY <1>3
<1> QED
  BY <1>3, <1>4, <1>5, <1>6, <1>7, <1>8, <1>9, CallbackKeeps

LEMMA ResumeKeeps ==
  ASSUME TcpInv, Resume
  PROVE  TcpInv'
<1> DEFINE e == waiting
<1>0. /\ TypeOK /\ Distinct /\ Held /\ ClearFirst /\ Swept /\ Serving /\ EndsOnce /\ EndsMeet
      /\ Standing /\ Waiting /\ \A d \in Events : Here(d) => Sound(d)
  BY DEF TcpInv
<1>1. /\ e # NoEvent /\ queue' = Enqueued(e) /\ waiting' = NoEvent /\ ~ Full
      /\ history' = Overlapped /\ service' = service /\ object' = object /\ link' = link
      /\ sent' = sent /\ read' = read
  BY DEF Resume
<1>2. /\ e \in Events /\ queue \in Seq(Events) /\ Len(queue) \in Nat /\ Len(queue) + 1 <= MaxEvents
      /\ history \in Histories
  BY <1>0, <1>1, TcpAssumption DEF TypeOK, Full, Histories
<1>3. Here(e) /\ Sound(e) /\ e.kind # "CLEAR"
  BY <1>0, <1>1, <1>2 DEF Here, Held
<1>4. (\A i \in Places : queue[i] # e) /\ service.held # e
  BY <1>0, <1>1 DEF Distinct
<1>5. ToClient(e) => object[e.arg] = e.conn
  BY <1>0, <1>1 DEF Waiting
<1>6. /\ Distinct' /\ Held' /\ ClearFirst' /\ \A a : Clearing(a)' <=> Clearing(a)
  BY <1>0, <1>1, <1>2, <1>3, <1>4, PlacesEnters
<1>7. \A d \in Events : Here(d)' <=> Here(d)
  <2>1. \A d \in Events : Here(d)' <=> (\E i \in Places : queue[i] = d) \/ service.held = d \/ d = e
    BY <1>1, <1>2, HereEnters
  <2> QED
    BY <2>1 DEF Here
<1>8. TypeOK'
  <2>1. queue' \in Seq(Events) /\ Len(queue') <= MaxEvents
    BY <1>1, <1>2, EnqueuedIs DEF CameFirst, CameLast
  <2>2. history' \in Histories
    BY <1>1, <1>2, OverlappedIs
  <2> QED
    BY <1>0, <1>1, <2>1, <2>2 DEF TypeOK, Histories
<1>9. Swept'
  <2>1. e.kind = "ACCEPT" => e.arg = Server
    BY <1>3 DEF Sound
  <2> HIDE DEF e
  <2> QED
    BY <1>0, <1>1, <1>2, <1>3, <1>4, <1>5, <2>1, SweptEnters
<1>10. Standing' /\ \A d \in Events : Here(d)' => Sound(d)'
  BY <1>0, <1>1, <1>7 DEF Standing, Sound, ToClient, Ends
<1>11. EndsOnce' /\ EndsMeet' /\ Waiting'
  BY <1>0, <1>1, <1>6, <1>7 DEF EndsOnce, EndsMeet, Waiting, Ends
<1>12. Serving'
  <2>1. ASSUME service.at = "closing"
        PROVE  \E i \in 1 .. Len(queue') : queue'[i].kind = "CLEAR" /\ queue'[i].arg = service.arg
    <3>1. Clearing(service.arg)
      BY <1>0, <2>1 DEF Serving, Clearing
    <3>2. Clearing(service.arg)'
      BY <1>1, <1>6, <3>1
    <3> QED
      BY <1>1, <2>1, <3>2 DEF Clearing, Places
  <2> QED
    BY <1>0, <1>1, <1>7, <2>1 DEF Serving, Places, Ends
<1> QED
  BY <1>6, <1>8, <1>9, <1>10, <1>11, <1>12 DEF TcpInv

-----------------------------------------------------------------------------
(* The service task takes an event from the front. *)

LEMMA Served ==
  ASSUME TypeOK, Distinct, Held, ClearFirst, service.at = "idle", queue # <<>>,
         queue' = Tail(queue), waiting' = waiting, service'.held = NoEvent
  PROVE  /\ FirstWent /\ Here(queue[1]) /\ queue[1] # waiting
         /\ Len(queue') <= MaxEvents /\ Distinct' /\ Held'
         /\ \A d \in Events : Here(d)' <=> Here(d) /\ d # queue[1]
         /\ \A i, j \in 1 .. Len(queue') :
              i < j /\ queue'[j].kind = "CLEAR" => queue'[i].kind = "ACCEPT"
         /\ queue[1].kind # "ACCEPT" => \A i \in 1 .. Len(queue') : queue'[i].kind # "CLEAR"
         /\ \A i \in 1 .. Len(queue') : i + 1 \in Places /\ queue'[i] = queue[i + 1]
<1>0. /\ queue \in Seq(Events) /\ Len(queue) \in Nat /\ Len(queue) <= MaxEvents
      /\ MaxEvents \in Nat /\ service.held = NoEvent
  BY TcpAssumption DEF TypeOK, Held
<1>1. FirstWent
  BY <1>0, TailIs
<1>2. 1 \in Places /\ queue[1] \in Events
  BY <1>0, <1>1 DEF FirstWent, Places
<1>3. \A i \in 1 .. Len(queue') : i + 1 \in Places /\ queue'[i] = queue[i + 1]
  BY <1>0, <1>1 DEF FirstWent, Places
<1>4. ASSUME NEW i \in Places, i # 1
      PROVE  i - 1 \in 1 .. Len(queue') /\ queue'[i - 1] = queue[i]
  BY <1>0, <1>1, <1>4 DEF FirstWent, Places
<1>5. Distinct'
  <2>1. ASSUME NEW i \in 1 .. Len(queue'), NEW j \in 1 .. Len(queue'), queue'[i] = queue'[j]
        PROVE  i = j
    <3>1. i + 1 = j + 1
      BY <1>3, <2>1 DEF Distinct
    <3> QED
      BY <3>1
  <2>2. ASSUME NEW i \in 1 .. Len(queue') PROVE queue'[i] # NoEvent /\ queue'[i] # waiting
    BY <1>0, <1>3 DEF Distinct
  <2> QED
    BY <2>1, <2>2 DEF Distinct, Places
<1>6. \A d \in Events : Here(d)' <=> Here(d) /\ d # queue[1]
  <2> TAKE d \in Events
  <2>1. (\E i \in 1 .. Len(queue') : queue'[i] = d) <=> (\E i \in Places : queue[i] = d) /\ d # queue[1]
    <3>1. ASSUME NEW i \in 1 .. Len(queue'), queue'[i] = d
          PROVE  (\E j \in Places : queue[j] = d) /\ d # queue[1]
      <4>1. i + 1 \in Places /\ queue[i + 1] = d /\ i + 1 # 1
        BY <1>3, <3>1
      <4> QED
        BY <1>2, <4>1 DEF Distinct
    <3>2. ASSUME NEW i \in Places, queue[i] = d, d # queue[1]
          PROVE  \E j \in 1 .. Len(queue') : queue'[j] = d
      BY <1>4, <3>2
    <3> QED
      BY <3>1, <3>2
  <2>2. waiting = d => d # queue[1]
    BY <1>2 DEF Distinct
  <2>3. d # NoEvent
    BY NoEventAssumption
  <2> QED
    BY <1>0, <2>1, <2>2, <2>3 DEF Here, Places
<1>7. ASSUME NEW i \in 1 .. Len(queue'), NEW j \in 1 .. Len(queue'), i < j,
             queue'[j].kind = "CLEAR"
      PROVE  queue'[i].kind = "ACCEPT"
  <2>1. i + 1 < j + 1
    BY <1>7
  <2> QED
    BY <1>3, <1>7, <2>1 DEF ClearFirst
<1>8. ASSUME queue[1].kind # "ACCEPT", NEW i \in 1 .. Len(queue')
      PROVE  queue'[i].kind # "CLEAR"
  <2>1. i + 1 \in Places /\ 1 < i + 1 /\ queue'[i] = queue[i + 1]
    BY <1>3
  <2> QED
    BY <1>2, <1>8, <2>1 DEF ClearFirst
<1>9. Here(queue[1]) /\ queue[1] # waiting
  BY <1>2 DEF Here, Distinct
<1>10. Len(queue') <= MaxEvents
  BY <1>0, <1>1 DEF FirstWent
<1>11. Held'
  BY <1>0 DEF Held
<1> QED
  BY <1>1, <1>3, <1>5, <1>6, <1>7, <1>8, <1>9, <1>10, <1>11

\* What the queue has when an event for a client, or a CLEAR, is at the front.
LEMMA NothingToClear ==
  ASSUME TcpInv, service.at = "idle", queue # <<>>, Head(queue).kind \notin {"ACCEPT", "CLEAR"}
  PROVE  \A a : ~ Clearing(a)
<1>1. queue \in Seq(Events) /\ Len(queue) \in Nat /\ ClearFirst
  BY DEF TcpInv, TypeOK
<1>2. Head(queue) = queue[1] /\ 1 \in Places
  BY <1>1 DEF Places
<1>3. ASSUME NEW i \in Places PROVE queue[i].kind # "CLEAR"
  <2>1. i = 1 \/ 1 < i
    BY DEF Places
  <2> QED
    BY <1>1, <1>2, <2>1 DEF ClearFirst
<1> QED
  BY <1>3 DEF Clearing

\* What each of them starts from.
LEMMA ServesIs ==
  ASSUME TcpInv, NEW kind, Serves(kind), waiting' = waiting, service'.held = NoEvent
  PROVE  /\ TypeOK /\ Distinct /\ Held /\ ClearFirst /\ Swept /\ Serving /\ EndsOnce /\ EndsMeet
         /\ Standing /\ Waiting /\ \A d \in Events : Here(d) => Sound(d)
         /\ service.at = "idle" /\ queue # <<>> /\ Head(queue) = queue[1]
         /\ queue[1] \in Events /\ queue[1].kind = kind /\ Sound(queue[1]) /\ Here(queue[1])
         /\ queue[1] # waiting
         /\ queue' \in Seq(Events) /\ Len(queue') <= MaxEvents /\ Distinct' /\ Held'
         /\ \A d \in Events : Here(d)' <=> Here(d) /\ d # queue[1]
         /\ \A i, j \in 1 .. Len(queue') :
              i < j /\ queue'[j].kind = "CLEAR" => queue'[i].kind = "ACCEPT"
         /\ kind # "ACCEPT" => \A i \in 1 .. Len(queue') : queue'[i].kind # "CLEAR"
<1>1. /\ TypeOK /\ Distinct /\ Held /\ ClearFirst /\ Swept /\ Serving /\ EndsOnce /\ EndsMeet
      /\ Standing /\ Waiting /\ \A d \in Events : Here(d) => Sound(d)
  BY DEF TcpInv
<1>2. service.at = "idle" /\ queue # <<>> /\ Head(queue).kind = kind /\ queue' = Tail(queue)
  BY DEF Serves
<1>3. /\ FirstWent /\ Here(queue[1]) /\ queue[1] # waiting
      /\ Len(queue') <= MaxEvents /\ Distinct' /\ Held'
      /\ \A d \in Events : Here(d)' <=> Here(d) /\ d # queue[1]
      /\ \A i, j \in 1 .. Len(queue') :
           i < j /\ queue'[j].kind = "CLEAR" => queue'[i].kind = "ACCEPT"
      /\ queue[1].kind # "ACCEPT" => \A i \in 1 .. Len(queue') : queue'[i].kind # "CLEAR"
  BY <1>1, <1>2, Served
<1>4. Head(queue) = queue[1] /\ queue[1] \in Events /\ queue' \in Seq(Events)
  BY <1>3 DEF FirstWent
<1> QED
  BY <1>1, <1>2, <1>3, <1>4

\* Events go, and no client and no connection changes.
LEMMA Fewer ==
  ASSUME Standing, \A d \in Events : Here(d) => Sound(d), EndsOnce,
         \A d \in Events : Here(d)' => Here(d),
         UNCHANGED <<object, link, sent>>,
         \A k \in Conns : link[k] = "new" => read'[k] = read[k]
  PROVE  /\ Standing' /\ (\A d \in Events : Here(d)' => Sound(d)') /\ EndsOnce'
<1>1. Standing'
  BY DEF Standing
<1>2. ASSUME NEW d \in Events, Here(d)' PROVE Sound(d)'
  BY <1>2 DEF Sound, ToClient, Ends
<1>3. EndsOnce'
  BY DEF EndsOnce, Ends
<1> QED
  BY <1>1, <1>2, <1>3

\* Serving the CLEAR of an address is taking its events out.
LEMMA ClearingServed ==
  ASSUME TypeOK, ClearFirst, service.at = "idle", queue # <<>>, queue' = Tail(queue),
         \/ Head(queue).kind # "CLEAR"
         \/ service'.at = "sweep" /\ service'.arg = Head(queue).arg,
         NEW a, Clearing(a)
  PROVE  Clearing(a)'
<1>1. PICK i \in Places : queue[i].kind = "CLEAR" /\ queue[i].arg = a
  BY DEF Clearing
<1>2. FirstWent /\ Len(queue) \in Nat /\ Head(queue) = queue[1] /\ 1 \in Places
  BY TailIs DEF TypeOK, FirstWent, Places
<1>3. CASE i = 1
  BY <1>1, <1>2, <1>3 DEF Clearing
<1>4. CASE i # 1
  <2>1. i - 1 \in 1 .. Len(queue') /\ queue'[i - 1] = queue[i]
    BY <1>2, <1>4 DEF FirstWent, Places
  <2> QED
    BY <1>1, <2>1 DEF Clearing, Places
<1> QED
  BY <1>3, <1>4

LEMMA ServeAcceptKeeps ==
  ASSUME TcpInv, ServeAccept
  PROVE  TcpInv'
<1> DEFINE e == queue[1]
<1>1. /\ Serves("ACCEPT") /\ waiting' = waiting /\ service' = service
      /\ UNCHANGED <<object, link, sent, read>>
      /\ history' = [history EXCEPT !.accepted = history.accepted \cup {Head(queue).conn}]
  BY DEF ServeAccept
<1>2. service'.held = NoEvent
  BY <1>1 DEF TcpInv, Held, Serves
<1>3. /\ TypeOK /\ Distinct /\ Held /\ ClearFirst /\ Swept /\ Serving /\ EndsOnce /\ EndsMeet
      /\ Standing /\ Waiting /\ \A d \in Events : Here(d) => Sound(d)
      /\ service.at = "idle" /\ queue # <<>> /\ Head(queue) = e
      /\ e \in Events /\ e.kind = "ACCEPT"
      /\ queue' \in Seq(Events) /\ Len(queue') <= MaxEvents /\ Distinct' /\ Held'
      /\ \A d \in Events : Here(d)' <=> Here(d) /\ d # e
      /\ \A i, j \in 1 .. Len(queue') :
           i < j /\ queue'[j].kind = "CLEAR" => queue'[i].kind = "ACCEPT"
  BY <1>1, <1>2, ServesIs
<1>4. ASSUME NEW a, Clearing(a) PROVE Clearing(a)'
  BY <1>1, <1>3, <1>4, ClearingServed DEF Serves
<1>5. TypeOK'
  <2>1. history' \in Histories
    BY <1>1, <1>3 DEF TypeOK, Histories, Events
  <2> QED
    BY <1>1, <1>3, <2>1 DEF TypeOK, Histories
<1>6. ClearFirst' /\ Swept' /\ Serving'
  BY <1>1, <1>3 DEF ClearFirst, Swept, Serving, Places
<1>7. Standing' /\ (\A d \in Events : Here(d)' => Sound(d)') /\ EndsOnce'
  BY <1>1, <1>3, Fewer
<1>8. EndsMeet' /\ Waiting'
  BY <1>1, <1>3, <1>4 DEF EndsMeet, Waiting, Ends
<1> QED
  BY <1>3, <1>5, <1>6, <1>7, <1>8 DEF TcpInv

LEMMA ServeRecvKeeps ==
  ASSUME TcpInv, ServeRecv
  PROVE  TcpInv'
<1> DEFINE e == queue[1]
<1>0. service.held = NoEvent /\ Head(queue) = e
  BY DEF TcpInv, Held, ServeRecv, Serves, TypeOK
<1>1. /\ Serves("RECV") /\ waiting' = waiting /\ UNCHANGED <<object, link, sent>>
      /\ history' = [history EXCEPT !.stray = history.stray \/ Stray(e)]
      /\ read' = IF Stray(e) \/ e.conn \notin history.accepted THEN read
                 ELSE [read EXCEPT ![e.conn] = e.n]
      /\ service' = At("data", e.arg, object[e.arg])
  BY <1>0 DEF ServeRecv
<1>2. service'.held = NoEvent
  BY <1>1 DEF At
<1>3. /\ TypeOK /\ Distinct /\ Held /\ ClearFirst /\ Swept /\ Serving /\ EndsOnce /\ EndsMeet
      /\ Standing /\ Waiting /\ \A d \in Events : Here(d) => Sound(d)
      /\ service.at = "idle" /\ queue # <<>> /\ Head(queue) = e
      /\ e \in Events /\ e.kind = "RECV" /\ Sound(e)
      /\ queue' \in Seq(Events) /\ Len(queue') <= MaxEvents /\ Distinct' /\ Held'
      /\ \A d \in Events : Here(d)' <=> Here(d) /\ d # e
      /\ \A i, j \in 1 .. Len(queue') :
           i < j /\ queue'[j].kind = "CLEAR" => queue'[i].kind = "ACCEPT"
      /\ \A i \in 1 .. Len(queue') : queue'[i].kind # "CLEAR"
  BY <1>1, <1>2, ServesIs
<1>4. \A a : ~ Clearing(a)
  BY <1>3, NothingToClear
<1>5. /\ e.arg \in Objects /\ e.conn \in Conns /\ e.n \in 0 .. MaxData /\ link[e.conn] # "new"
  BY <1>3 DEF Sound, ToClient, Events
<1> HIDE DEF e
<1>6. /\ service'.at = "data" /\ service'.held = NoEvent
      /\ service'.arg = e.arg /\ service'.conn = object[e.arg]
  BY <1>1 DEF At
<1>7. TypeOK'
  <2>1. history' \in Histories
    BY <1>1, <1>3 DEF TypeOK, Histories, Stray
  <2>2. read' \in [Conns -> 0 .. MaxData]
    BY <1>1, <1>3, <1>5 DEF TypeOK
  <2>3. service' \in Services
    BY <1>1, <1>3, <1>5 DEF TypeOK, At, Services
  <2> QED
    BY <1>1, <1>3, <2>1, <2>2, <2>3 DEF TypeOK, Histories, Services
<1>8. ClearFirst' /\ Swept'
  BY <1>3, <1>6 DEF ClearFirst, Swept, Places
<1>9. Serving'
  BY <1>1, <1>5, <1>6 DEF Serving
<1>10. Standing' /\ (\A d \in Events : Here(d)' => Sound(d)') /\ EndsOnce'
  <2>1. \A k \in Conns : link[k] = "new" => read'[k] = read[k]
    BY <1>1, <1>3, <1>5 DEF TypeOK
  <2> QED
    BY <1>1, <1>3, <2>1, Fewer
<1>11. EndsMeet' /\ Waiting'
  <2>1. EndsMeet'
    BY <1>1, <1>3, <1>4 DEF EndsMeet, Ends
  <2>2. Waiting'
    BY <1>1, <1>3, <1>6 DEF Waiting, Ends
  <2> QED
    BY <2>1, <2>2
<1> QED
  BY <1>3, <1>7, <1>8, <1>9, <1>10, <1>11 DEF TcpInv

\* The handler of a packet is done, and LwIP is told that it was taken.
LEMMA HandledKeeps ==
  ASSUME TcpInv, Handle \/ Recved
  PROVE  TcpInv'
<1>0. /\ TypeOK /\ Distinct /\ Held /\ ClearFirst /\ Swept /\ Serving /\ EndsOnce /\ EndsMeet
      /\ Standing /\ Waiting /\ \A d \in Events : Here(d) => Sound(d)
  BY DEF TcpInv
<1>1. UNCHANGED <<queue, waiting, object, link, sent, read, history>>
  BY DEF Handle, Recved
<1>2. /\ service.at \in {"data", "ack", "release"} /\ service.held = NoEvent
      /\ service.arg \in Objects
      /\ service.at = "release" => service.conn \in Conns
      /\ service.conn # NoConn => object[service.arg] = service.conn
  BY <1>0, TcpAssumption DEF Handle, Recved, Held, Serving
<1>3. \/ service' = Idle
      \/ service' = [service EXCEPT !.at = "ack"]
      \/ service' = [service EXCEPT !.at = "release"] /\ service.conn \in Conns
      \/ service' = [service EXCEPT !.at = "close"] /\ service.conn \in Conns
  BY <1>2 DEF Handle, Recved, HasPcb
<1>4. /\ service' \in Services /\ service'.held = NoEvent
      /\ \/ service'.at = "idle"
         \/ /\ service'.at \in {"ack", "release", "close"}
            /\ service'.arg = service.arg /\ service'.conn = service.conn
            /\ service'.at \in {"release", "close"} => service.conn \in Conns
  <2>1. service \in Services /\ Idle \in Services /\ Idle.at = "idle" /\ Idle.held = NoEvent
    BY <1>0 DEF TypeOK, Services, Idle, At
  <2>2. ASSUME NEW at \in {"ack", "release", "close"}, service' = [service EXCEPT !.at = at]
        PROVE  /\ service' \in Services /\ service'.held = NoEvent /\ service'.at = at
               /\ service'.arg = service.arg /\ service'.conn = service.conn
    BY <1>2, <2>1, <2>2 DEF Services
  <2> QED
    BY <1>3, <2>1, <2>2
<1>5. \A d : Here(d)' <=> Here(d)
  BY <1>1, <1>2, <1>4 DEF Here, Places
<1>6. \A b : Clearing(b)' <=> Clearing(b)
  BY <1>1, <1>2, <1>4 DEF Clearing, Places
<1>7. TypeOK'
  BY <1>0, <1>1, <1>4 DEF TypeOK, Services
<1>8. Distinct' /\ Held' /\ ClearFirst' /\ Swept'
  BY <1>0, <1>1, <1>2, <1>4 DEF Distinct, Held, ClearFirst, Swept, Places
<1>9. Serving'
  BY <1>1, <1>2, <1>4, TcpAssumption DEF Serving
<1>10. Standing' /\ (\A d \in Events : Here(d)' => Sound(d)') /\ EndsOnce'
  BY <1>0, <1>1, <1>5, Fewer
<1>11. EndsMeet' /\ Waiting'
  BY <1>0, <1>1, <1>4, <1>5, <1>6 DEF EndsMeet, Waiting, Ends
<1> QED
  BY <1>7, <1>8, <1>9, <1>10, <1>11 DEF TcpInv

LEMMA ServeFinKeeps ==
  ASSUME TcpInv, ServeFin
  PROVE  TcpInv' /\ object[Head(queue).arg] = Head(queue).conn
<1> DEFINE e == queue[1]
<1>0. Head(queue) = e
  BY DEF TcpInv, ServeFin, Serves, TypeOK
<1>1. /\ Serves("FIN") /\ waiting' = waiting /\ UNCHANGED <<object, link, sent, read>>
      /\ history' = [history EXCEPT !.stray = history.stray \/ Stray(e)]
      /\ service' = At("finish", e.arg, e.conn)
  BY <1>0 DEF ServeFin
<1>2. /\ service'.held = NoEvent /\ service'.at = "finish" /\ service'.arg = e.arg
      /\ service'.conn = e.conn
  BY <1>1 DEF At
<1>3. /\ TypeOK /\ Distinct /\ Held /\ ClearFirst /\ Swept /\ Serving /\ EndsOnce /\ EndsMeet
      /\ Standing /\ Waiting /\ \A d \in Events : Here(d) => Sound(d)
      /\ service.at = "idle" /\ queue # <<>> /\ Head(queue) = e
      /\ e \in Events /\ e.kind = "FIN" /\ Sound(e) /\ Here(e)
      /\ queue' \in Seq(Events) /\ Len(queue') <= MaxEvents /\ Distinct' /\ Held'
      /\ \A d \in Events : Here(d)' <=> Here(d) /\ d # e
      /\ \A i, j \in 1 .. Len(queue') :
           i < j /\ queue'[j].kind = "CLEAR" => queue'[i].kind = "ACCEPT"
      /\ \A i \in 1 .. Len(queue') : queue'[i].kind # "CLEAR"
  BY <1>1, <1>2, ServesIs
<1>4. \A a : ~ Clearing(a)
  BY <1>3, NothingToClear
<1>5. /\ e.arg \in Objects /\ e.conn \in Conns /\ Ends(e) /\ link[e.conn] # "up"
  BY <1>3 DEF Sound, ToClient, Ends, Events
<1> HIDE DEF e
<1>6. object[e.arg] = e.conn
  BY <1>3, <1>4, <1>5 DEF EndsMeet
<1>7. TypeOK'
  <2>1. history' \in Histories
    BY <1>1, <1>3 DEF TypeOK, Histories, Stray
  <2>2. service' \in Services
    BY <1>1, <1>3, <1>5 DEF TypeOK, At, Services
  <2> QED
    BY <1>1, <1>3, <2>1, <2>2 DEF TypeOK, Histories, Services
<1>8. ClearFirst' /\ Swept'
  BY <1>2, <1>3 DEF ClearFirst, Swept, Places
<1>9. ASSUME NEW d \in Events, Here(d)', Ends(d) PROVE d.conn # e.conn
  BY <1>3, <1>5, <1>9 DEF EndsOnce
<1>10. Serving'
  BY <1>1, <1>2, <1>5, <1>6, <1>9 DEF Serving, Ends
<1>11. Standing' /\ (\A d \in Events : Here(d)' => Sound(d)') /\ EndsOnce'
  BY <1>1, <1>3, Fewer
<1>12. EndsMeet'
  BY <1>1, <1>3, <1>4 DEF EndsMeet, Ends
<1>13. Waiting'
  BY <1>1, <1>2, <1>3, <1>5 DEF Waiting, Ends, ToClient
<1> QED
  BY <1>3, <1>6, <1>7, <1>8, <1>10, <1>11, <1>12, <1>13 DEF TcpInv

\* The end of a client: _error, _fin and _close.  It goes, unless nobody deletes it.
LEMMA GoneStanding ==
  ASSUME TypeOK, Standing, NEW a \in Objects, NEW k \in Conns, object[a] = k, link[k] # "up",
         object' = object \/ object' = [object EXCEPT ![a] = NoConn],
         link' = link \/ link' = [link EXCEPT ![k] = "closed"], UNCHANGED <<sent, read>>
  PROVE  /\ object' \in [Objects -> Conns \cup {NoConn}]
         /\ link' \in [Conns -> {"new", "up", "reset", "closed"}] /\ Standing'
         /\ \A b \in Objects : b # a => object'[b] = object[b]
         /\ \A b \in Objects : object'[b] \in Conns => object'[b] = object[b]
         /\ \A c \in Conns : link'[c] = link[c] \/ link'[c] = "closed"
<1>1. /\ object \in [Objects -> Conns \cup {NoConn}] /\ NoConn \notin Conns
      /\ object'[a] \in {object[a], NoConn} /\ \A b \in Objects : b # a => object'[b] = object[b]
  BY TcpAssumption DEF TypeOK
<1>2. object' \in [Objects -> Conns \cup {NoConn}]
  BY <1>1
<1>3. /\ link' \in [Conns -> {"new", "up", "reset", "closed"}]
      /\ \A c \in Conns : link'[c] = link[c] \/ link'[c] = "closed"
  BY DEF TypeOK
<1>4. \A b \in Objects : object'[b] \in Conns => object'[b] = object[b]
  BY <1>1
<1>5. ASSUME NEW b \in Objects, NEW c \in Objects, object'[b] \in Conns, object'[b] = object'[c]
      PROVE  b = c
  BY <1>4, <1>5 DEF Standing
<1>6. ASSUME NEW b \in Objects, object'[b] \in Conns PROVE link'[object'[b]] # "new"
  BY <1>3, <1>4, <1>6 DEF Standing
<1>7. ASSUME NEW c \in Conns, link'[c] = "up" PROVE \E b \in Objects : object'[b] = c
  <2>1. link[c] = "up"
    BY <1>3, <1>7
  <2>2. PICK b \in Objects : object[b] = c
    BY <2>1 DEF Standing
  <2> QED
    BY <1>1, <2>1, <2>2
<1>8. ASSUME NEW c \in Conns, link'[c] = "new" PROVE sent'[c] = 0 /\ read'[c] = 0
  BY <1>3, <1>8 DEF Standing
<1> QED
  BY <1>1, <1>2, <1>3, <1>4, <1>5, <1>6, <1>7, <1>8 DEF Standing

\* What is deleted is the client of an event, or nothing is.
LEMMA DiscardedIs ==
  ASSUME NEW a
  PROVE  /\ Discarded(a) = object \/ Discarded(a) = [object EXCEPT ![a] = NoConn]
         /\ Undiscarded(a) \subseteq Conns
         /\ object[a] \in history.accepted => /\ Discarded(a) = [object EXCEPT ![a] = NoConn]
                                              /\ Undiscarded(a) = {}
BY DEF Discarded, Undiscarded

LEMMA ServeErrorKeeps ==
  ASSUME TcpInv, ServeError
  PROVE  TcpInv' /\ object[Head(queue).arg] = Head(queue).conn
<1> DEFINE e == queue[1]
<1>0. Head(queue) = e /\ service.held = NoEvent
  BY DEF TcpInv, ServeError, Serves, TypeOK, Held
<1>1. /\ Serves("ERROR") /\ waiting' = waiting /\ UNCHANGED <<service, sent, read>>
      /\ history' = [history EXCEPT !.stray = history.stray \/ Stray(e),
                                   !.leaked = history.leaked \cup Undiscarded(e.arg)]
      /\ link' = [link EXCEPT ![object[e.arg]] = "closed"] /\ object' = Discarded(e.arg)
  BY <1>0 DEF ServeError
<1>2. service'.held = NoEvent
  BY <1>0, <1>1
<1>3. /\ TypeOK /\ Distinct /\ Held /\ ClearFirst /\ Swept /\ Serving /\ EndsOnce /\ EndsMeet
      /\ Standing /\ Waiting /\ \A d \in Events : Here(d) => Sound(d)
      /\ service.at = "idle" /\ queue # <<>> /\ Head(queue) = e
      /\ e \in Events /\ e.kind = "ERROR" /\ Sound(e) /\ Here(e) /\ e # waiting
      /\ queue' \in Seq(Events) /\ Len(queue') <= MaxEvents /\ Distinct' /\ Held'
      /\ \A d \in Events : Here(d)' <=> Here(d) /\ d # e
      /\ \A i, j \in 1 .. Len(queue') :
           i < j /\ queue'[j].kind = "CLEAR" => queue'[i].kind = "ACCEPT"
  BY <1>1, <1>2, ServesIs
<1>4. \A a : ~ Clearing(a)
  BY <1>3, NothingToClear
<1>5. /\ e.arg \in Objects /\ e.conn \in Conns /\ Ends(e) /\ link[e.conn] # "up"
  BY <1>3 DEF Sound, ToClient, Ends, Events
<1> HIDE DEF e
<1>6. object[e.arg] = e.conn
  BY <1>3, <1>4, <1>5 DEF EndsMeet
<1>7. /\ object' \in [Objects -> Conns \cup {NoConn}] /\ Standing'
      /\ link' \in [Conns -> {"new", "up", "reset", "closed"}]
      /\ \A b \in Objects : b # e.arg => object'[b] = object[b]
      /\ \A b \in Objects : object'[b] \in Conns => object'[b] = object[b]
      /\ \A c \in Conns : link'[c] = link[c] \/ link'[c] = "closed"
  BY <1>1, <1>3, <1>5, <1>6, GoneStanding, DiscardedIs
<1>8. TypeOK'
  <2>1. history' \in Histories
    BY <1>1, <1>3, DiscardedIs DEF TypeOK, Histories, Stray
  <2> QED
    BY <1>1, <1>3, <1>7, <2>1 DEF TypeOK, Histories
<1>9. ClearFirst' /\ Swept' /\ Serving'
  BY <1>1, <1>3 DEF ClearFirst, Swept, Serving, Places
<1>10. ASSUME NEW d \in Events, Here(d)' PROVE Sound(d)'
  <2>1. Sound(d) /\ d.conn \in Conns
    BY <1>3, <1>10 DEF Events
  <2> QED
    BY <1>1, <1>7, <2>1 DEF Sound, ToClient, Ends
<1>11. EndsOnce'
  BY <1>3 DEF EndsOnce, Ends
<1>12. ASSUME NEW d \in Events, Here(d), d # e, ToClient(d), object[d.arg] = d.conn,
              d.conn # e.conn
       PROVE  object'[d.arg] = d.conn
  <2>1. d.arg \in Objects /\ d.arg # e.arg
    BY <1>3, <1>6, <1>12 DEF Sound
  <2> QED
    BY <1>7, <1>12, <2>1
<1>13. EndsMeet'
  <2>1. ASSUME NEW d \in Events, Here(d)', Ends(d) PROVE object'[d.arg] = d.conn
    <3>1. Here(d) /\ d # e /\ ToClient(d) /\ d.conn # e.conn
      BY <1>3, <1>5, <2>1 DEF EndsOnce, Ends, ToClient
    <3>2. object[d.arg] = d.conn
      BY <1>3, <1>4, <2>1, <3>1 DEF EndsMeet
    <3> QED
      BY <1>12, <3>1, <3>2
  <2> QED
    BY <2>1 DEF EndsMeet, Ends
<1>14. Waiting'
  <2>1. ASSUME waiting # NoEvent, ToClient(waiting) PROVE object'[waiting.arg] = waiting.conn
    <3>1. waiting \in Events /\ Here(waiting) /\ waiting # e /\ object[waiting.arg] = waiting.conn
      BY <1>3, <2>1 DEF TypeOK, Here, Waiting
    <3>2. waiting.conn # e.conn
      BY <1>3, <1>5, <2>1, <3>1 DEF Waiting, EndsOnce, ToClient, Ends
    <3> QED
      BY <1>12, <2>1, <3>1, <3>2
  <2>2. ASSUME waiting # NoEvent, waiting.kind = "RECV", NEW d \in Events, Here(d)', Ends(d)
        PROVE  d.conn # waiting.conn
    BY <1>3, <2>2 DEF Waiting
  <2> QED
    BY <1>1, <1>3, <2>1, <2>2 DEF Waiting, ToClient, Ends
<1> QED
  BY <1>3, <1>6, <1>8, <1>9, <1>7, <1>10, <1>11, <1>13, <1>14 DEF TcpInv

LEMMA ServeClearKeeps ==
  ASSUME TcpInv, ServeClear
  PROVE  TcpInv'
<1> DEFINE e == queue[1]
<1>0. Head(queue) = e
  BY DEF TcpInv, ServeClear, Serves, TypeOK
<1>1. /\ Serves("CLEAR") /\ UNCHANGED <<waiting, object, link, sent, read, history>>
      /\ service' = At("sweep", e.arg, e.conn)
  BY <1>0 DEF ServeClear
<1>2. /\ service'.held = NoEvent /\ service'.at = "sweep" /\ service'.arg = e.arg
      /\ service'.first = NoEvent
  BY <1>1 DEF At
<1>3. /\ TypeOK /\ Distinct /\ Held /\ ClearFirst /\ Swept /\ Serving /\ EndsOnce /\ EndsMeet
      /\ Standing /\ Waiting /\ \A d \in Events : Here(d) => Sound(d)
      /\ service.at = "idle" /\ queue # <<>> /\ Head(queue) = e
      /\ e \in Events /\ e.kind = "CLEAR" /\ Sound(e)
      /\ queue' \in Seq(Events) /\ Len(queue') <= MaxEvents /\ Distinct' /\ Held'
      /\ \A d \in Events : Here(d)' <=> Here(d) /\ d # e
      /\ \A i, j \in 1 .. Len(queue') :
           i < j /\ queue'[j].kind = "CLEAR" => queue'[i].kind = "ACCEPT"
      /\ \A i \in 1 .. Len(queue') : queue'[i].kind # "CLEAR"
  BY <1>1, <1>2, ServesIs
<1>4. e.arg \in Objects /\ e.conn \in Conns
  BY <1>3 DEF Sound, Events
<1>5. ASSUME NEW a, Clearing(a) PROVE Clearing(a)'
  BY <1>1, <1>2, <1>3, <1>5, ClearingServed DEF Serves
<1> HIDE DEF e
<1>6. TypeOK'
  <2>1. service' \in Services
    BY <1>1, <1>3, <1>4 DEF TypeOK, At, Services
  <2> QED
    BY <1>1, <1>3, <2>1 DEF TypeOK, Services
<1>7. ClearFirst' /\ Serving'
  BY <1>2, <1>3, <1>4 DEF ClearFirst, Serving, Places
<1>8. Swept'
  <2>1. \A m \in 0 .. Len(queue') : Seam(m)' => m = Len(queue')
    BY <1>2 DEF Seam
  <2> QED
    BY <1>2, <2>1 DEF Swept, Places
<1>9. Standing' /\ (\A d \in Events : Here(d)' => Sound(d)') /\ EndsOnce'
  BY <1>1, <1>3, Fewer
<1>10. EndsMeet'
  BY <1>1, <1>3, <1>5 DEF EndsMeet, Ends
<1>11. Waiting'
  BY <1>1, <1>2, <1>3 DEF Waiting, Ends, ToClient
<1> QED
  BY <1>3, <1>6, <1>7, <1>8, <1>9, <1>10, <1>11 DEF TcpInv

-----------------------------------------------------------------------------
(* A client goes, and CLEAR goes first. *)

LEMMA ClearEnters ==
  ASSUME TypeOK, Distinct, Held, ClearFirst, service.at \in {"finish", "close"}, ~ Full,
         NEW e \in Events, e.kind = "CLEAR", queue' = Enqueued(e), waiting' = waiting,
         service'.held = NoEvent,
         service'.at \notin {"finish", "data", "ack", "release", "close", "sweep"}
  PROVE  /\ queue' \in Seq(Events) /\ Len(queue') <= MaxEvents
         /\ Distinct' /\ Held' /\ ClearFirst'
         /\ \A d \in Events : Here(d)' <=> Here(d) \/ d = e
         /\ Clearing(e.arg)' /\ \A b : ~ Clearing(b)
         /\ \E i \in 1 .. Len(queue') : queue'[i].kind = "CLEAR" /\ queue'[i].arg = e.arg
<1>0. /\ queue \in Seq(Events) /\ Len(queue) \in Nat /\ Len(queue) + 1 <= MaxEvents
      /\ MaxEvents \in Nat /\ service.held = NoEvent /\ e # NoEvent
      /\ \A i \in Places : queue[i] \in Events /\ queue[i] # NoEvent /\ queue[i].kind # "CLEAR"
      /\ waiting # e
  <2>1. queue \in Seq(Events) /\ Len(queue) \in Nat /\ \A i \in Places : queue[i] \in Events
    BY DEF TypeOK, Places
  <2>2. Len(queue) + 1 <= MaxEvents /\ MaxEvents \in Nat
    BY <2>1, TcpAssumption DEF Full
  <2>3. service.held = NoEvent /\ e # NoEvent /\ waiting # e
    BY NoEventAssumption DEF Held
  <2>4. \A i \in Places : queue[i] # NoEvent /\ queue[i].kind # "CLEAR"
    BY <2>1, NoEventAssumption DEF ClearFirst
  <2> QED
    BY <2>1, <2>2, <2>3, <2>4
<1>1. CameFirst(e)
  BY <1>0, EnqueuedIs DEF Urgent
<1>2. ASSUME NEW i \in Places PROVE i + 1 \in 1 .. Len(queue') /\ queue'[i + 1] = queue[i]
  BY <1>0, <1>1 DEF Places, CameFirst
<1>3. 1 \in 1 .. Len(queue') /\ queue'[1] = e
  BY <1>0, <1>1 DEF CameFirst
<1>4. ASSUME NEW i \in 1 .. Len(queue'), i # 1
      PROVE  i - 1 \in Places /\ queue'[i] = queue[i - 1]
  BY <1>0, <1>1, <1>4 DEF Places, CameFirst
<1>5. Distinct'
  <2>1. ASSUME NEW i \in 1 .. Len(queue'), NEW j \in 1 .. Len(queue'), queue'[i] = queue'[j]
        PROVE  i = j
    <3>1. CASE i # 1 /\ j # 1
      <4>1. i - 1 = j - 1
        BY <1>4, <2>1, <3>1 DEF Distinct
      <4> QED
        BY <4>1
    <3>2. CASE i = 1 \/ j = 1
      <4>1. ASSUME NEW l \in 1 .. Len(queue'), l # 1 PROVE queue'[l] # queue'[1]
        BY <1>0, <1>3, <1>4, <4>1
      <4> QED
        BY <1>3, <2>1, <3>2, <4>1
    <3> QED
      BY <3>1, <3>2
  <2>2. ASSUME NEW i \in 1 .. Len(queue') PROVE queue'[i] # NoEvent /\ queue'[i] # waiting
    BY <1>0, <1>3, <1>4 DEF Distinct
  <2> QED
    BY <2>1, <2>2 DEF Distinct, Places
<1>6. ClearFirst'
  <2>1. ASSUME NEW j \in 1 .. Len(queue'), queue'[j].kind = "CLEAR" PROVE j = 1
    BY <1>0, <1>4, <2>1
  <2> QED
    BY <2>1 DEF ClearFirst, Places
<1>7. \A d \in Events : Here(d)' <=> Here(d) \/ d = e
  <2> TAKE d \in Events
  <2>1. (\E i \in 1 .. Len(queue') : queue'[i] = d) <=> (\E i \in Places : queue[i] = d) \/ d = e
    <3>1. ASSUME NEW i \in 1 .. Len(queue'), queue'[i] = d
          PROVE  (\E j \in Places : queue[j] = d) \/ d = e
      BY <1>3, <1>4, <3>1
    <3> QED
      BY <1>2, <1>3, <3>1
  <2>2. d # NoEvent
    BY NoEventAssumption
  <2> QED
    BY <1>0, <2>1, <2>2 DEF Here, Places
<1>8. \A b : ~ Clearing(b)
  BY <1>0 DEF Clearing
<1>9. \E i \in 1 .. Len(queue') : queue'[i].kind = "CLEAR" /\ queue'[i].arg = e.arg
  BY <1>3
<1>10. Clearing(e.arg)'
  BY <1>9 DEF Clearing, Places
<1>11. queue' \in Seq(Events) /\ Len(queue') <= MaxEvents /\ Held'
  BY <1>0, <1>1 DEF CameFirst, Held
<1> QED
  BY <1>5, <1>6, <1>7, <1>8, <1>9, <1>10, <1>11

LEMMA FinishKeeps ==
  ASSUME TcpInv, Finish
  PROVE  TcpInv'
<1> DEFINE a == service.arg
           k == service.conn
           e == Event("CLEAR", a, k, 0)
<1>0. /\ TypeOK /\ Distinct /\ Held /\ ClearFirst /\ Swept /\ Serving /\ EndsOnce /\ EndsMeet
      /\ Standing /\ Waiting /\ \A d \in Events : Here(d) => Sound(d)
  BY DEF TcpInv
<1>1. /\ service.at = "finish" /\ ~ Full /\ queue' = Enqueued(e) /\ service' = Idle
      /\ object' = Discarded(a)
      /\ history' = [history EXCEPT !.leaked = history.leaked \cup Undiscarded(a)]
      /\ UNCHANGED <<waiting, link, sent, read>>
  BY DEF Finish
<1>2. /\ a \in Objects /\ k \in Conns /\ object[a] = k /\ link[k] # "up"
      /\ \A d \in Events : Here(d) /\ Ends(d) => d.conn # k
  BY <1>0, <1>1 DEF Serving
<1>3. service'.at = "idle" /\ service'.held = NoEvent
  BY <1>1 DEF Idle, At
<1>4. e \in Events /\ e.kind = "CLEAR" /\ e.arg = a
  BY <1>2, TcpAssumption DEF Event, Events
<1> HIDE DEF e
<1>5. /\ queue' \in Seq(Events) /\ Len(queue') <= MaxEvents
      /\ Distinct' /\ Held' /\ ClearFirst'
      /\ \A d \in Events : Here(d)' <=> Here(d) \/ d = e
      /\ \A b : ~ Clearing(b)
  BY <1>0, <1>1, <1>3, <1>4, ClearEnters
<1>6. /\ object' \in [Objects -> Conns \cup {NoConn}] /\ Standing'
      /\ \A b \in Objects : b # a => object'[b] = object[b]
      /\ \A b \in Objects : object'[b] \in Conns => object'[b] = object[b]
  BY <1>0, <1>1, <1>2, GoneStanding, DiscardedIs
<1>7. TypeOK'
  <2>1. service' \in Services
    BY <1>1 DEF Idle, At, Services
  <2>2. history' \in Histories
    BY <1>0, <1>1, DiscardedIs DEF TypeOK, Histories
  <2> QED
    BY <1>0, <1>1, <1>5, <1>6, <2>1, <2>2 DEF TypeOK, Services, Histories
<1>8. Swept' /\ Serving'
  BY <1>3 DEF Swept, Serving
<1>9. ASSUME NEW d \in Events, Here(d)' PROVE Sound(d)'
  <2>1. CASE d = e
    BY <1>2, <1>4, <2>1 DEF Sound, ToClient, Ends
  <2>2. CASE d # e
    <3>1. Sound(d) /\ d.conn \in Conns
      BY <1>0, <1>5, <1>9, <2>2 DEF Events
    <3> QED
      BY <1>1, <1>6, <3>1 DEF Sound, ToClient, Ends
  <2> QED
    BY <2>1, <2>2
<1>10. EndsOnce'
  BY <1>0, <1>4, <1>5 DEF EndsOnce, Ends
<1>11. ASSUME NEW d \in Events, Here(d), ToClient(d), object[d.arg] = d.conn, d.conn # k
       PROVE  object'[d.arg] = d.conn
  <2>1. d.arg \in Objects /\ d.arg # a
    BY <1>0, <1>2, <1>11 DEF Sound
  <2> QED
    BY <1>6, <1>11, <2>1
<1>12. EndsMeet'
  <2>1. ASSUME NEW d \in Events, Here(d)', Ends(d) PROVE object'[d.arg] = d.conn
    <3>1. Here(d) /\ ToClient(d) /\ d.conn # k
      BY <1>2, <1>4, <1>5, <2>1 DEF Ends, ToClient
    <3>2. object[d.arg] = d.conn
      BY <1>0, <1>5, <2>1, <3>1 DEF EndsMeet
    <3> QED
      BY <1>11, <3>1, <3>2
  <2> QED
    BY <2>1 DEF EndsMeet, Ends
<1>13. Waiting'
  <2>1. ASSUME waiting # NoEvent, ToClient(waiting) PROVE object'[waiting.arg] = waiting.conn
    <3>1. waiting \in Events /\ Here(waiting) /\ object[waiting.arg] = waiting.conn
      BY <1>0, <2>1 DEF TypeOK, Here, Waiting
    <3>2. waiting.conn # k
      BY <1>0, <1>1, <1>2, <2>1, <3>1 DEF Waiting, ToClient, Ends
    <3> QED
      BY <1>11, <2>1, <3>1, <3>2
  <2>2. ASSUME waiting # NoEvent, waiting.kind = "RECV", NEW d \in Events, Here(d)', Ends(d)
        PROVE  d.conn # waiting.conn
    BY <1>0, <1>4, <1>5, <2>2 DEF Waiting, Ends
  <2> QED
    BY <1>1, <1>3, <2>1, <2>2 DEF Waiting, ToClient, Ends
<1> QED
  BY <1>5, <1>6, <1>7, <1>8, <1>9, <1>10, <1>12, <1>13 DEF TcpInv

LEMMA CloseKeeps ==
  ASSUME TcpInv, Close
  PROVE  TcpInv'
<1> DEFINE a == service.arg
           k == service.conn
           e == Event("CLEAR", a, k, 0)
<1>0. /\ TypeOK /\ Distinct /\ Held /\ ClearFirst /\ Swept /\ Serving /\ EndsOnce /\ EndsMeet
      /\ Standing /\ Waiting /\ \A d \in Events : Here(d) => Sound(d)
  BY DEF TcpInv
<1>1. /\ service.at = "close" /\ ~ Full /\ UNCHANGED <<waiting, object, sent, read, history>>
  BY DEF Close
<1>2. /\ a \in Objects /\ k \in Conns /\ object[a] = k /\ link[k] # "new"
  BY <1>0, <1>1 DEF Serving, Standing
<1>3. CASE link[k] \notin {"up", "reset"}
  <2>1. service' = Idle /\ UNCHANGED <<link, queue>>
    BY <1>3 DEF Close
  <2>2. service'.at = "idle" /\ service'.held = NoEvent
    BY <2>1 DEF Idle, At
  <2>3. service.held = NoEvent
    BY <1>0, <1>1 DEF Held
  <2>4. \A d : Here(d)' <=> Here(d)
    BY <1>1, <2>1, <2>2, <2>3 DEF Here, Places
  <2>5. \A b : Clearing(b)' <=> Clearing(b)
    BY <1>1, <2>1, <2>2 DEF Clearing, Places
  <2>6. service' \in Services
    BY <2>1 DEF Idle, At, Services
  <2>7. TypeOK'
    BY <1>0, <1>1, <2>1, <2>6 DEF TypeOK, Services
  <2>8. Distinct' /\ Held' /\ ClearFirst' /\ Swept' /\ Serving'
    BY <1>0, <1>1, <2>1, <2>2, <2>3 DEF Distinct, Held, ClearFirst, Swept, Serving, Places
  <2>9. Standing' /\ (\A d \in Events : Here(d)' => Sound(d)') /\ EndsOnce'
    BY <1>0, <1>1, <2>1, <2>4, Fewer
  <2>10. EndsMeet' /\ Waiting'
    BY <1>0, <1>1, <2>2, <2>4, <2>5 DEF EndsMeet, Waiting, Ends
  <2> QED
    BY <2>7, <2>8, <2>9, <2>10 DEF TcpInv
<1>4. CASE link[k] \in {"up", "reset"}
  <2>1. /\ link' = [link EXCEPT ![k] = "closed"] /\ queue' = Enqueued(e)
        /\ service' = [service EXCEPT !.at = "closing"]
    BY <1>4 DEF Close
  <2>2. /\ service'.at = "closing" /\ service'.held = NoEvent /\ service'.arg = a
        /\ service'.conn = k
        /\ service' \in Services
    BY <1>0, <1>1, <2>1 DEF Held, TypeOK, Services
  <2>3. e \in Events /\ e.kind = "CLEAR" /\ e.arg = a
    BY <1>2, TcpAssumption DEF Event, Events
  <2> HIDE DEF e
  <2>4. /\ queue' \in Seq(Events) /\ Len(queue') <= MaxEvents
        /\ Distinct' /\ Held' /\ ClearFirst'
        /\ \A d \in Events : Here(d)' <=> Here(d) \/ d = e
        /\ \A b : ~ Clearing(b)
        /\ \E i \in 1 .. Len(queue') : queue'[i].kind = "CLEAR" /\ queue'[i].arg = a
    BY <1>0, <1>1, <2>1, <2>2, <2>3, ClearEnters
  <2>5. /\ link' \in [Conns -> {"new", "up", "reset", "closed"}]
        /\ link'[k] = "closed" /\ \A c \in Conns : c # k => link'[c] = link[c]
    BY <1>0, <1>2, <2>1 DEF TypeOK
  <2>6. TypeOK'
    BY <1>0, <1>1, <2>2, <2>4, <2>5 DEF TypeOK, Services
  <2>7. Swept'
    BY <2>2 DEF Swept
  <2>8. Serving'
    BY <1>1, <1>2, <2>2, <2>4, <2>5 DEF Serving, Places
  <2>9. Standing'
    <3>1. \A b \in Objects : object'[b] \in Conns => link'[object'[b]] # "new"
      BY <1>0, <1>1, <2>5 DEF Standing
    <3>2. \A c \in Conns : link'[c] = "up" => link[c] = "up"
      BY <2>5
    <3>3. \A c \in Conns : link'[c] = "new" => link[c] = "new"
      BY <2>5
    <3> QED
      BY <1>0, <1>1, <3>1, <3>2, <3>3 DEF Standing
  <2>10. ASSUME NEW d \in Events, Here(d)' PROVE Sound(d)'
    <3>1. CASE d = e
      BY <1>2, <2>3, <3>1 DEF Sound, ToClient, Ends
    <3>2. CASE d # e
      <4>1. Sound(d) /\ d.conn \in Conns
        BY <1>0, <2>4, <2>10, <3>2 DEF Events
      <4>2. link[d.conn] # "new" => link'[d.conn] # "new"
        BY <2>5, <4>1
      <4>3. link[d.conn] # "up" => link'[d.conn] # "up"
        BY <2>5, <4>1
      <4> QED
        BY <1>1, <4>1, <4>2, <4>3 DEF Sound, ToClient, Ends
    <3> QED
      BY <3>1, <3>2
  <2>11. EndsOnce' /\ EndsMeet'
    BY <1>0, <1>1, <2>3, <2>4 DEF EndsOnce, EndsMeet, Ends
  <2>12. Waiting'
    BY <1>0, <1>1, <2>2, <2>3, <2>4 DEF Waiting, Ends, ToClient
  <2> QED
    BY <2>4, <2>6, <2>7, <2>8, <2>9, <2>10, <2>11, <2>12 DEF TcpInv
<1> QED
  BY <1>3, <1>4

LEMMA ClosedKeeps ==
  ASSUME TcpInv, Closed
  PROVE  TcpInv'
<1> DEFINE a == service.arg
           k == service.conn
<1>0. /\ TypeOK /\ Distinct /\ Held /\ ClearFirst /\ Swept /\ Serving /\ EndsOnce /\ EndsMeet
      /\ Standing /\ Waiting /\ \A d \in Events : Here(d) => Sound(d)
  BY DEF TcpInv
<1>1. /\ service.at = "closing" /\ waiting = NoEvent /\ service' = Idle
      /\ object' = [object EXCEPT ![a] = NoConn]
      /\ UNCHANGED <<queue, waiting, link, sent, read, history>>
  BY DEF Closed
<1>2. /\ a \in Objects /\ k \in Conns /\ object[a] = k /\ link[k] # "up" /\ Clearing(a)
  BY <1>0, <1>1 DEF Serving, Clearing
<1>3. service'.at = "idle" /\ service'.held = NoEvent /\ service.held = NoEvent
  BY <1>0, <1>1 DEF Idle, At, Held
<1>4. /\ object' \in [Objects -> Conns \cup {NoConn}] /\ Standing'
      /\ \A b \in Objects : b # a => object'[b] = object[b]
      /\ \A b \in Objects : object'[b] \in Conns => object'[b] = object[b]
  BY <1>0, <1>1, <1>2, GoneStanding
<1>5. \A d : Here(d)' <=> Here(d)
  BY <1>1, <1>3 DEF Here, Places
<1>6. \A b : Clearing(b)' <=> Clearing(b)
  BY <1>1, <1>3 DEF Clearing, Places
<1>7. TypeOK'
  <2>1. service' \in Services
    BY <1>1 DEF Idle, At, Services
  <2> QED
    BY <1>0, <1>1, <1>4, <2>1 DEF TypeOK, Services
<1>8. Distinct' /\ Held' /\ ClearFirst' /\ Swept' /\ Serving'
  BY <1>0, <1>1, <1>3 DEF Distinct, Held, ClearFirst, Swept, Serving, Places
<1>9. ASSUME NEW d \in Events, Here(d)' PROVE Sound(d)'
  <2>1. Sound(d) /\ d.conn \in Conns
    BY <1>0, <1>5, <1>9 DEF Events
  <2> QED
    BY <1>1, <1>4, <2>1 DEF Sound, ToClient, Ends
<1>10. EndsOnce' /\ Waiting'
  BY <1>0, <1>1, <1>5 DEF EndsOnce, Waiting, Ends
<1>11. EndsMeet'
  <2>1. ASSUME NEW d \in Events, Here(d), Ends(d)
        PROVE  object'[d.arg] = d.conn \/ Clearing(d.arg)
    <3>1. d.arg \in Objects /\ (object[d.arg] = d.conn \/ Clearing(d.arg))
      BY <1>0, <2>1 DEF EndsMeet, Sound, ToClient, Ends
    <3> QED
      BY <1>2, <1>4, <3>1
  <2> QED
    BY <1>5, <1>6, <2>1 DEF EndsMeet, Ends
<1> QED
  BY <1>4, <1>7, <1>8, <1>9, <1>10, <1>11 DEF TcpInv

-----------------------------------------------------------------------------
(* The sweep. *)

\* Nothing of the swept address is left behind the seam, so nothing at the end.
LEMMA SweepEndKeeps ==
  ASSUME TcpInv, service.at = "sweep", service.held = NoEvent,
         queue = <<>> \/ Head(queue) = service.first, service' = Idle,
         UNCHANGED <<queue, waiting, object, link, sent, read, history>>
  PROVE  /\ TcpInv'
         /\ \A d \in Events : Here(d) /\ ToClient(d) /\ d.arg = service.arg
                              => object[d.arg] = d.conn
<1>0. /\ TypeOK /\ Distinct /\ Held /\ ClearFirst /\ Swept /\ Serving /\ EndsOnce /\ EndsMeet
      /\ Standing /\ Waiting /\ \A d \in Events : Here(d) => Sound(d)
  BY DEF TcpInv
<1>1. service'.at = "idle" /\ service'.held = NoEvent
  BY DEF Idle, At
<1>2. \A d : Here(d)' <=> Here(d)
  BY <1>1 DEF Here, Places
<1>3. queue \in Seq(Events) /\ Len(queue) \in Nat
  BY <1>0 DEF TypeOK
<1>4. ASSUME NEW i \in Places, queue[i].arg = service.arg
      PROVE  object[queue[i].arg] = queue[i].conn
  <2>1. 0 < Len(queue) /\ i > 0 /\ queue # <<>> /\ Head(queue) = queue[1] /\ queue[1] \in Events
    BY <1>3, <1>4 DEF Places
  <2>2. Seam(0)
    BY <2>1, NoEventAssumption DEF Seam
  <2> QED
    BY <1>0, <1>3, <1>4, <2>1, <2>2 DEF Swept
<1>5. ASSUME NEW d \in Events, Here(d), ToClient(d), d.arg = service.arg
      PROVE  object[d.arg] = d.conn
  <2>1. (\E i \in Places : queue[i] = d) \/ waiting = d
    BY <1>5, NoEventAssumption DEF Here
  <2> QED
    BY <1>0, <1>4, <1>5, <2>1, NoEventAssumption DEF Waiting
<1>6. TypeOK'
  <2>1. service' \in Services
    BY DEF Idle, At, Services
  <2> QED
    BY <1>0, <2>1 DEF TypeOK, Services
<1>7. Distinct' /\ Held' /\ ClearFirst' /\ Swept' /\ Serving'
  BY <1>0, <1>1 DEF Distinct, Held, ClearFirst, Swept, Serving, Places
<1>8. Standing' /\ (\A d \in Events : Here(d)' => Sound(d)') /\ EndsOnce'
  BY <1>0, <1>2, Fewer
<1>9. Waiting'
  BY <1>0, <1>1, <1>2 DEF Waiting, Ends, ToClient
<1>10. EndsMeet'
  <2>1. ASSUME NEW d \in Events, Here(d), Ends(d) PROVE object[d.arg] = d.conn
    BY <1>0, <1>5, <2>1 DEF EndsMeet, Clearing, ClearFirst, Ends, ToClient
  <2> QED
    BY <1>2, <2>1 DEF EndsMeet, Ends
<1> QED
  BY <1>5, <1>6, <1>7, <1>8, <1>9, <1>10 DEF TcpInv

\* The event in front goes, out of the queue or into the hands of the sweep.
LEMMA SweepTakes ==
  ASSUME TcpInv, service.at = "sweep", service.held = NoEvent, queue # <<>>,
         Head(queue) # service.first, queue' = Tail(queue),
         service'.at = "sweep", service'.arg = service.arg, service'.first = service.first,
         UNCHANGED <<waiting, object>>
  PROVE  /\ queue' \in Seq(Events) /\ Len(queue') <= MaxEvents /\ queue[1] \in Events
         /\ Head(queue) = queue[1] /\ Here(queue[1]) /\ queue[1].kind # "CLEAR"
         /\ queue[1] # waiting
         /\ \A i \in 1 .. Len(queue') : /\ queue'[i] # queue[1] /\ queue'[i] # waiting
                                        /\ queue'[i] # NoEvent /\ queue'[i].kind # "CLEAR"
                                        /\ i + 1 \in Places /\ queue'[i] = queue[i + 1]
         /\ \A i, j \in 1 .. Len(queue') : queue'[i] = queue'[j] => i = j
         /\ \A d \in Events : (\E i \in 1 .. Len(queue') : queue'[i] = d) \/ d = queue[1]
                              <=> \E i \in Places : queue[i] = d
         /\ ClearFirst' /\ Swept' /\ \A b : Clearing(b)' <=> Clearing(b)
<1>0. /\ TypeOK /\ Distinct /\ Held /\ ClearFirst /\ Swept
      /\ queue \in Seq(Events) /\ Len(queue) \in Nat /\ Len(queue) <= MaxEvents
      /\ MaxEvents \in Nat
  BY TcpAssumption DEF TcpInv, TypeOK
<1>1. FirstWent
  BY <1>0, TailIs
<1>2. /\ 1 \in Places /\ queue[1] \in Events /\ Head(queue) = queue[1]
      /\ queue' \in Seq(Events) /\ Len(queue') = Len(queue) - 1 /\ Len(queue) >= 1
  BY <1>0, <1>1 DEF FirstWent, Places
<1>3. \A i \in 1 .. Len(queue') : i + 1 \in Places /\ queue'[i] = queue[i + 1] /\ i + 1 # 1
  BY <1>0, <1>1 DEF FirstWent, Places
<1>4. ASSUME NEW i \in Places, i # 1
      PROVE  i - 1 \in 1 .. Len(queue') /\ queue'[i - 1] = queue[i]
  BY <1>0, <1>1, <1>4 DEF FirstWent, Places
<1>5. \A i \in 1 .. Len(queue') : /\ queue'[i] # queue[1] /\ queue'[i] # waiting
                                  /\ queue'[i] # NoEvent /\ queue'[i].kind # "CLEAR"
  BY <1>0, <1>2, <1>3 DEF Distinct, ClearFirst
<1>6. ASSUME NEW i \in 1 .. Len(queue'), NEW j \in 1 .. Len(queue'), queue'[i] = queue'[j]
      PROVE  i = j
  <2>1. i + 1 = j + 1
    BY <1>0, <1>3, <1>6 DEF Distinct
  <2> QED
    BY <2>1
<1>7. ASSUME NEW d \in Events
      PROVE  (\E i \in 1 .. Len(queue') : queue'[i] = d) \/ d = queue[1]
             <=> \E i \in Places : queue[i] = d
  <2>1. ASSUME NEW i \in Places, queue[i] = d, d # queue[1]
        PROVE  \E j \in 1 .. Len(queue') : queue'[j] = d
    BY <1>4, <2>1
  <2>2. ASSUME NEW i \in 1 .. Len(queue'), queue'[i] = d PROVE \E j \in Places : queue[j] = d
    BY <1>3, <2>2
  <2> QED
    BY <1>2, <2>1, <2>2
<1>8. ClearFirst'
  BY <1>5 DEF ClearFirst, Places
<1>9. \A b : Clearing(b)' <=> Clearing(b)
  BY <1>0, <1>5 DEF Clearing, ClearFirst, Places
<1>10. ASSUME service.first # NoEvent
       PROVE  \E i \in 1 .. Len(queue') : queue'[i] = service.first
  <2>1. PICK i \in Places : queue[i] = service.first
    BY <1>0, <1>10 DEF Swept
  <2> QED
    BY <1>2, <1>4, <2>1
<1>11. ASSUME NEW m \in 0 .. Len(queue'), Seam(m)', NEW i \in 1 .. Len(queue'), i > m,
              queue'[i].arg = service.arg
       PROVE  object[queue'[i].arg] = queue'[i].conn
  <2>1. m + 1 \in 0 .. Len(queue) /\ m + 1 < i + 1 /\ i + 1 \in Places /\ queue'[i] = queue[i + 1]
    BY <1>2, <1>3, <1>11
  <2>2. service.first # NoEvent
    BY <1>11 DEF Seam
  <2>3. m + 1 \in 1 .. Len(queue') /\ queue'[m + 1] = service.first
    <3>1. m < Len(queue') /\ queue'[m + 1] = service.first
      BY <1>11, <2>2 DEF Seam
    <3> QED
      BY <1>0, <1>2, <1>11, <3>1
  <2>4. m + 1 < Len(queue) /\ queue[(m + 1) + 1] = service.first
    BY <1>2, <1>3, <2>3
  <2>5. Seam(m + 1)
    BY <2>2, <2>4 DEF Seam
  <2> QED
    BY <1>0, <1>11, <2>1, <2>5 DEF Swept
<1>12. Swept'
  BY <1>10, <1>11 DEF Swept, Places
<1>13. Here(queue[1]) /\ queue[1].kind # "CLEAR" /\ queue[1] # waiting
  BY <1>0, <1>2 DEF Distinct, Here, ClearFirst
<1>14. Len(queue') <= MaxEvents
  BY <1>0, <1>2
<1> QED
  BY <1>2, <1>3, <1>5, <1>6, <1>7, <1>8, <1>9, <1>12, <1>13, <1>14

LEMMA SweepTakeKeeps ==
  ASSUME TcpInv, SweepTake
  PROVE  TcpInv'
<1> DEFINE e == queue[1]
<1>0. /\ TypeOK /\ Distinct /\ Held /\ ClearFirst /\ Swept /\ Serving /\ EndsOnce /\ EndsMeet
      /\ Standing /\ Waiting /\ \A d \in Events : Here(d) => Sound(d)
  BY DEF TcpInv
<1>1. /\ service.at = "sweep" /\ service.held = NoEvent
      /\ UNCHANGED <<waiting, object, link, sent, read, history>>
  BY DEF SweepTake
<1>2. CASE queue = <<>> \/ Head(queue) = service.first
  BY <1>1, <1>2, SweepEndKeeps DEF SweepTake
<1>3. CASE ~ (queue = <<>> \/ Head(queue) = service.first)
  <2>1. /\ queue' = Tail(queue)
        /\ service' = IF Head(queue).arg = service.arg THEN service
                      ELSE [service EXCEPT !.held = Head(queue)]
    BY <1>3 DEF SweepTake
  <2>2. /\ service'.at = "sweep" /\ service'.arg = service.arg /\ service'.first = service.first
        /\ service'.held = IF Head(queue).arg = service.arg THEN NoEvent ELSE Head(queue)
    BY <1>0, <1>1, <2>1 DEF TypeOK
  <2>3. /\ queue' \in Seq(Events) /\ Len(queue') <= MaxEvents /\ e \in Events
        /\ Head(queue) = e /\ Here(e) /\ e.kind # "CLEAR" /\ e # waiting
        /\ \A i \in 1 .. Len(queue') : queue'[i] # e /\ queue'[i] # waiting /\ queue'[i] # NoEvent
        /\ \A i, j \in 1 .. Len(queue') : queue'[i] = queue'[j] => i = j
        /\ \A d \in Events : (\E i \in 1 .. Len(queue') : queue'[i] = d) \/ d = e
                             <=> \E i \in Places : queue[i] = d
        /\ ClearFirst' /\ Swept' /\ \A b : Clearing(b)' <=> Clearing(b)
    BY <1>1, <1>3, <2>1, <2>2, SweepTakes
  <2> HIDE DEF e
  <2>4. service' \in Services
    BY <1>0, <2>1, <2>3 DEF TypeOK, Services
  <2>5. TypeOK'
    BY <1>0, <1>1, <2>3, <2>4 DEF TypeOK, Services
  <2>6. Distinct' /\ Held'
    BY <1>0, <1>1, <2>2, <2>3 DEF Distinct, Held, Places
  <2>7. \A d \in Events : Here(d)' => Here(d)
    BY <1>1, <2>2, <2>3, NoEventAssumption DEF Here, Places
  <2>8. Standing' /\ (\A d \in Events : Here(d)' => Sound(d)') /\ EndsOnce'
    BY <1>0, <1>1, <2>7, Fewer
  <2>9. EndsMeet' /\ Waiting' /\ Serving'
    BY <1>0, <1>1, <2>2, <2>3, <2>7 DEF EndsMeet, Waiting, Serving, Ends, ToClient
  <2> QED
    BY <2>3, <2>5, <2>6, <2>8, <2>9 DEF TcpInv
<1> QED
  BY <1>2, <1>3

LEMMA SweepPutKeeps ==
  ASSUME TcpInv, SweepPut
  PROVE  TcpInv'
<1> DEFINE e == service.held
<1>0. /\ TypeOK /\ Distinct /\ Held /\ ClearFirst /\ Swept /\ Serving /\ EndsOnce /\ EndsMeet
      /\ Standing /\ Waiting /\ \A d \in Events : Here(d) => Sound(d)
  BY DEF TcpInv
<1>1. /\ service.at = "sweep" /\ e # NoEvent /\ ~ Full /\ queue' = Append(queue, e)
      /\ service' = [service EXCEPT !.held = NoEvent,
                                    !.first = IF service.first = NoEvent THEN e ELSE service.first]
      /\ UNCHANGED <<waiting, object, link, sent, read, history>>
  BY DEF SweepPut
<1>2. /\ queue \in Seq(Events) /\ Len(queue) \in Nat /\ Len(queue) + 1 <= MaxEvents
      /\ e \in Events /\ e.arg # service.arg /\ e.kind # "CLEAR" /\ e # waiting
      /\ \A i \in Places : queue[i] # e
  BY <1>0, <1>1, TcpAssumption DEF TypeOK, Full, Held, Distinct
<1>3. /\ service'.at = "sweep" /\ service'.arg = service.arg /\ service'.held = NoEvent
      /\ service'.first = IF service.first = NoEvent THEN e ELSE service.first
      /\ service' \in Services
  BY <1>0, <1>1, <1>2 DEF TypeOK, Services
<1>4. CameLast(e)
  BY <1>1, <1>2, Appended DEF CameLast, Places
<1>5. /\ queue' \in Seq(Events) /\ Len(queue') = Len(queue) + 1 /\ Len(queue) + 1 \in 1 .. Len(queue')
      /\ queue'[Len(queue) + 1] = e
  BY <1>2, <1>4 DEF CameLast
<1>6. ASSUME NEW i \in Places PROVE i \in 1 .. Len(queue') /\ queue'[i] = queue[i]
  BY <1>2, <1>4 DEF Places, CameLast
<1>7. ASSUME NEW i \in 1 .. Len(queue'), i # Len(queue) + 1
      PROVE  i \in Places /\ queue'[i] = queue[i]
  BY <1>2, <1>4, <1>7 DEF Places, CameLast
<1> HIDE DEF e
<1>8. TypeOK'
  BY <1>0, <1>1, <1>2, <1>3, <1>5 DEF TypeOK
<1>9. Distinct'
  <2>1. ASSUME NEW i \in 1 .. Len(queue'), NEW j \in 1 .. Len(queue'), queue'[i] = queue'[j]
        PROVE  i = j
    BY <1>0, <1>2, <1>5, <1>7, <2>1 DEF Distinct
  <2>2. ASSUME NEW i \in 1 .. Len(queue') PROVE queue'[i] # NoEvent /\ queue'[i] # waiting
    <3>1. ASSUME NEW j \in Places PROVE queue[j] # NoEvent /\ queue[j] # waiting
      BY <1>0, <1>2, <3>1, NoEventAssumption DEF Distinct, Places
    <3> QED
      BY <1>1, <1>2, <1>5, <1>7, <3>1
  <2> QED
    BY <1>1, <1>3, <2>1, <2>2 DEF Distinct, Places
<1>10. \A i \in 1 .. Len(queue') : queue'[i].kind # "CLEAR"
  BY <1>0, <1>1, <1>2, <1>5, <1>7 DEF ClearFirst
<1>11. Held' /\ ClearFirst' /\ \A b : Clearing(b)' <=> Clearing(b)
  BY <1>0, <1>1, <1>3, <1>10 DEF Held, ClearFirst, Clearing, Places
<1>12. Swept'
  <2>1. ASSUME service'.first # NoEvent
        PROVE  \E i \in 1 .. Len(queue') : queue'[i] = service'.first
    <3>1. CASE service.first = NoEvent
      BY <1>3, <1>5, <3>1
    <3>2. CASE service.first # NoEvent
      <4>1. PICK i \in Places : queue[i] = service.first
        BY <1>0, <1>1, <3>2 DEF Swept
      <4> QED
        BY <1>3, <1>6, <3>2, <4>1
    <3> QED
      BY <3>1, <3>2
  <2>2. ASSUME NEW m \in 0 .. Len(queue'), Seam(m)', NEW i \in 1 .. Len(queue'), i > m,
               queue'[i].arg = service.arg
        PROVE  object[queue'[i].arg] = queue'[i].conn
    <3>1. i # Len(queue) + 1 /\ i \in Places /\ queue'[i] = queue[i]
      BY <1>2, <1>5, <1>7, <2>2
    <3>2. service'.first # NoEvent /\ m + 1 \in 1 .. Len(queue') /\ queue'[m + 1] = service'.first
      BY <1>1, <1>3, <1>5, <2>2 DEF Seam
    <3>3. m + 1 # Len(queue) + 1
      BY <1>2, <2>2, <3>1 DEF Places
    <3>4. m + 1 \in Places /\ queue[m + 1] = service'.first
      BY <1>7, <3>2, <3>3
    <3>5. service.first # NoEvent /\ service'.first = service.first
      BY <1>2, <1>3, <3>4
    <3>6. m \in 0 .. Len(queue) /\ Seam(m)
      BY <1>2, <3>4, <3>5 DEF Seam, Places
    <3> QED
      BY <1>0, <1>1, <2>2, <3>1, <3>6 DEF Swept
  <2> QED
    BY <1>1, <1>3, <2>1, <2>2 DEF Swept, Places
<1>13. \A d \in Events : Here(d)' <=> Here(d)
  <2> TAKE d \in Events
  <2>1. (\E i \in 1 .. Len(queue') : queue'[i] = d) <=> (\E i \in Places : queue[i] = d) \/ d = e
    <3>1. ASSUME NEW i \in 1 .. Len(queue'), queue'[i] = d
          PROVE  (\E j \in Places : queue[j] = d) \/ d = e
      BY <1>5, <1>7, <3>1
    <3> QED
      BY <1>5, <1>6, <3>1
  <2> QED
    BY <1>1, <1>3, <2>1, NoEventAssumption DEF Here, Places, e
<1>14. Standing' /\ (\A d \in Events : Here(d)' => Sound(d)') /\ EndsOnce'
  BY <1>0, <1>1, <1>13, Fewer
<1>15. EndsMeet' /\ Waiting' /\ Serving'
  BY <1>0, <1>1, <1>3, <1>11, <1>13 DEF EndsMeet, Waiting, Serving, Ends, ToClient
<1> QED
  BY <1>8, <1>9, <1>11, <1>12, <1>14, <1>15 DEF TcpInv

-----------------------------------------------------------------------------
LEMMA TcpInit == Init => TcpInv
<1> SUFFICES ASSUME Init PROVE TcpInv
  OBVIOUS
<1>1. /\ queue = <<>> /\ Len(queue) = 0 /\ waiting = NoEvent /\ service = Idle
      /\ object = [a \in Objects |-> NoConn] /\ link = [k \in Conns |-> "new"]
      /\ sent = [k \in Conns |-> 0] /\ read = [k \in Conns |-> 0]
      /\ history = [accepted |-> {}, reused |-> {}, leaked |-> {},
                   overlap |-> FALSE, stray |-> FALSE]
  BY DEF Init
<1>2. /\ service.at = "idle" /\ service.held = NoEvent
      /\ service \in Services
  BY <1>1 DEF Idle, At, Services
<1>3. TypeOK
  BY <1>1, <1>2, TcpAssumption DEF TypeOK, Services
<1>4. Places = {}
  BY <1>1 DEF Places
<1>5. \A d \in Events : ~ Here(d)
  BY <1>1, <1>2, <1>4, NoEventAssumption DEF Here
<1>6. Distinct /\ Held /\ ClearFirst /\ Swept /\ Serving
  BY <1>1, <1>2, <1>4 DEF Distinct, Held, ClearFirst, Swept, Serving
<1>7. Standing
  BY <1>1, TcpAssumption DEF Standing
<1>8. EndsOnce /\ EndsMeet /\ Waiting
  BY <1>1, <1>5 DEF EndsOnce, EndsMeet, Waiting
<1> QED
  BY <1>3, <1>5, <1>6, <1>7, <1>8 DEF TcpInv

LEMMA TcpStutter ==
  ASSUME TcpInv, UNCHANGED vars
  PROVE  TcpInv'
BY DEF vars, TcpInv, TypeOK, Distinct, Held, ClearFirst, Swept, Seam, Standing, Sound, ToClient,
       Ends, EndsOnce, EndsMeet, Clearing, Waiting, Serving, Here, Places

LEMMA TcpStep == TcpInv /\ [Next]_vars => TcpInv'
<1> SUFFICES ASSUME TcpInv, [Next]_vars PROVE TcpInv'
  OBVIOUS
<1>1. CASE Lwip
  <2>1. PICK k \in Conns :
          (\E a \in Objects : Accept(k, a)) \/ Receive(k) \/ PeerCloses(k) \/ Reset(k)
    BY <1>1 DEF Lwip
  <2>2. CASE \E a \in Objects : Accept(k, a)
    BY <2>2, AcceptKeeps
  <2>3. CASE Receive(k)
    BY <2>3, ReceiveKeeps
  <2>4. CASE PeerCloses(k)
    BY <2>4, EndKeeps DEF PeerCloses
  <2>5. CASE Reset(k)
    BY <2>5, EndKeeps DEF Reset
  <2> QED
    BY <2>1, <2>2, <2>3, <2>4, <2>5
<1>2. CASE Resume
  BY <1>2, ResumeKeeps
<1>3. CASE Service
  BY <1>3, ServeAcceptKeeps, ServeRecvKeeps, ServeFinKeeps, ServeErrorKeeps, ServeClearKeeps,
     HandledKeeps, FinishKeeps, CloseKeeps, ClosedKeeps, SweepTakeKeeps, SweepPutKeeps
     DEF Service
<1>4. CASE UNCHANGED vars
  BY <1>4, TcpStutter
<1> QED
  BY <1>1, <1>2, <1>3, <1>4 DEF Next

\* The queue, LwIP's thread, the service task and the clients keep their types: with the
\* callbacks of a connection there is always its client, whatever LwIP adds to the queue
\* while CLEAR is served (AsyncTCP.cpp:118).
THEOREM TypeCorrect == Spec => []TypeOK
<1>1. TcpInv => TypeOK
  BY DEF TcpInv
<1> QED
  BY TcpInit, TcpStep, <1>1, PTL DEF Spec

\* What FIN and ERROR do, they do to the client whose connection ended, even when LwIP
\* added to the queue during a sweep and packets may come too late (AsyncTCP.cpp:863).
THEOREM EndsFindTheirClient ==
  Spec => [][ServeFin \/ ServeError => object[Head(queue).arg] = Head(queue).conn]_vars
<1>1. TcpInv /\ [Next]_vars
      => [ServeFin \/ ServeError => object[Head(queue).arg] = Head(queue).conn]_vars
  BY ServeFinKeeps, ServeErrorKeeps
<1> QED
  BY TcpInit, TcpStep, <1>1, PTL DEF Spec

-----------------------------------------------------------------------------
(* The order of the events, as long as LwIP adds nothing during a sweep. *)

\* What may stand before what: a new connection before all that is no CLEAR, and of one
\* connection its packets in their order, and then its end.
MayPrecede(e, f) ==
  /\ f.kind = "ACCEPT" => Urgent(e)
  /\ ToClient(e) /\ ToClient(f) /\ e.conn = f.conn =>
       e.kind = "RECV" /\ (f.kind = "RECV" => e.n < f.n)

\* The order in which the queue stood before the sweep began: what is behind the seam was
\* in front.
Before(i, j, m) == (i < j /\ (j <= m \/ m < i)) \/ (m < i /\ j <= m)

InLine(m) ==
  /\ \A i, j \in Places : Before(i, j, m) => MayPrecede(queue[i], queue[j])
  /\ service.held # NoEvent =>
       \A i \in Places : /\ m < i => MayPrecede(queue[i], service.held)
                         /\ i <= m => MayPrecede(service.held, queue[i])
  /\ waiting # NoEvent /\ ToClient(waiting) =>
       /\ \A i \in Places : MayPrecede(queue[i], waiting)
       /\ service.held # NoEvent => MayPrecede(service.held, waiting)

Lined ==
  \A m \in 0 .. Len(queue) :
    (IF service.at = "sweep" THEN Seam(m) ELSE m = 0) => InLine(m)

\* A packet finds its own client, or is about to be taken out.
PacketsMeet ==
  /\ \A e \in Events :
       Here(e) /\ e.kind = "RECV" => object[e.arg] = e.conn \/ Clearing(e.arg)
  /\ service.at = "finish" =>
       \A e \in Events : Here(e) /\ e.kind = "RECV" => e.conn # service.conn
  /\ ~ history.stray

LineInv == Lined /\ PacketsMeet

\* Between two sweeps the order is that of the queue.
InOrder ==
  /\ \A i, j \in Places : i < j => MayPrecede(queue[i], queue[j])
  /\ waiting # NoEvent /\ ToClient(waiting) => \A i \in Places : MayPrecede(queue[i], waiting)

LEMMA LinedBetween == TypeOK /\ Held /\ service.at # "sweep" => (Lined <=> InOrder)
<1> SUFFICES ASSUME TypeOK, Held, service.at # "sweep" PROVE Lined <=> InOrder
  OBVIOUS
<1>1. service.held = NoEvent /\ queue \in Seq(Events) /\ Len(queue) \in Nat
  BY DEF Held, TypeOK
<1>2. Lined <=> InLine(0)
  BY <1>1 DEF Lined
<1>3. ASSUME NEW i \in Places, NEW j \in Places PROVE Before(i, j, 0) <=> i < j
  BY <1>1 DEF Before, Places
<1> QED
  BY <1>1, <1>2, <1>3 DEF InLine, InOrder

LEMMA LinedAfter == (TypeOK /\ Held /\ service.at # "sweep" => (Lined <=> InOrder))'
BY LinedBetween, PTL

\* An event enters the queue between two sweeps.
LEMMA LinedEnters ==
  ASSUME queue \in Seq(Events), NEW e \in Events, queue' = Enqueued(e),
         \A i, j \in Places : i < j => MayPrecede(queue[i], queue[j]),
         ~ Urgent(e) => \A i \in Places : MayPrecede(queue[i], e)
  PROVE  \A i, j \in 1 .. Len(queue') : i < j => MayPrecede(queue'[i], queue'[j])
<1>0. Len(queue) \in Nat
  OBVIOUS
<1> SUFFICES ASSUME NEW i \in 1 .. Len(queue'), NEW j \in 1 .. Len(queue'), i < j
             PROVE  MayPrecede(queue'[i], queue'[j])
  OBVIOUS
<1>1. CASE Urgent(e) /\ CameFirst(e)
  <2>1. j # 1 /\ j - 1 \in Places /\ queue'[j] = queue[j - 1]
    BY <1>0, <1>1 DEF CameFirst, Places
  <2>2. CASE i = 1
    <3>1. queue'[i] = e
      BY <1>1, <2>2 DEF CameFirst
    <3>2. ~ ToClient(e)
      BY <1>1 DEF Urgent, ToClient
    <3> QED
      BY <1>1, <3>1, <3>2 DEF MayPrecede
  <2>3. CASE i # 1
    <3>1. i - 1 \in Places /\ queue'[i] = queue[i - 1] /\ i - 1 < j - 1
      BY <1>0, <1>1, <2>3 DEF CameFirst, Places
    <3> QED
      BY <2>1, <3>1
  <2> QED
    BY <2>2, <2>3
<1>2. CASE ~ Urgent(e) /\ CameLast(e)
  <2>1. i \in Places /\ queue'[i] = queue[i]
    BY <1>0, <1>2 DEF CameLast, Places
  <2>2. CASE j = Len(queue) + 1
    <3>1. queue'[j] = e
      BY <1>2, <2>2 DEF CameLast
    <3> QED
      BY <1>2, <2>1, <3>1
  <2>3. CASE j # Len(queue) + 1
    <3>1. j \in Places /\ queue'[j] = queue[j]
      BY <1>0, <1>2, <2>3 DEF CameLast, Places
    <3> QED
      BY <2>1, <3>1
  <2> QED
    BY <2>2, <2>3
<1> QED
  BY <1>1, <1>2, EnqueuedIs

LEMMA LineComes ==
  ASSUME TcpInv, TcpInv', LineInv, service.at # "sweep", waiting = NoEvent, NEW e \in Events,
         ~ Here(e), e.kind # "CLEAR", Put(e), service' = service,
         history'.stray = history.stray,
         \A a \in Objects : object[a] # NoConn => object'[a] = object[a],
         ToClient(e) => link[e.conn] = "up" /\ object'[e.arg] = e.conn,
         e.kind = "RECV" => e.n = sent[e.conn] + 1
  PROVE  LineInv'
<1>0. /\ TypeOK /\ Distinct /\ Held /\ ClearFirst /\ Serving /\ TypeOK' /\ Held'
      /\ Lined /\ PacketsMeet /\ queue \in Seq(Events)
      /\ \A d \in Events : Here(d) => Sound(d)
      /\ \A i \in Places : queue[i] \in Events /\ Here(queue[i])
  BY DEF TcpInv, LineInv, TypeOK, Places, Here
<1>1. \A i, j \in Places : i < j => MayPrecede(queue[i], queue[j])
  BY <1>0, LinedBetween DEF InOrder
<1>2. ASSUME NEW d \in Events, Here(d), ~ Urgent(e) PROVE MayPrecede(d, e)
  <2>1. ToClient(e) /\ link[e.conn] = "up"
    BY <1>2 DEF Urgent, ToClient, Events
  <2>2. ASSUME ToClient(d), d.conn = e.conn PROVE d.kind = "RECV" /\ d.n \in 1 .. sent[e.conn]
    <3>1. Sound(d) /\ ~ Ends(d)
      BY <1>0, <1>2, <2>1, <2>2 DEF Sound
    <3> QED
      BY <2>2, <3>1 DEF Sound, ToClient, Ends
  <2>3. sent[e.conn] \in Nat
    BY <1>0, TcpAssumption DEF TypeOK, Events
  <2>4. e.kind # "ACCEPT"
    BY <1>2 DEF Urgent
  <2> QED
    BY <2>2, <2>3, <2>4 DEF MayPrecede
<1>3. Lined'
  <2>1. CASE queue' = queue /\ waiting' = e
    <3>1. ToClient(e) => \A i \in Places : MayPrecede(queue[i], e)
      BY <1>0, <1>2 DEF ToClient, Urgent
    <3>2. Lined' <=> InOrder'
      BY <1>0, LinedAfter
    <3> QED
      BY <1>1, <2>1, <3>1, <3>2 DEF InOrder, Places, ToClient, MayPrecede
  <2>2. CASE queue' = Enqueued(e) /\ waiting' = waiting
    <3>1. ~ Urgent(e) => \A i \in Places : MayPrecede(queue[i], e)
      BY <1>0, <1>2
    <3>2. \A i, j \in 1 .. Len(queue') : i < j => MayPrecede(queue'[i], queue'[j])
      BY <1>0, <1>1, <2>2, <3>1, LinedEnters
    <3>3. Lined' <=> InOrder'
      BY <1>0, LinedAfter
    <3> QED
      BY <2>2, <3>2, <3>3 DEF InOrder, Places, ToClient, MayPrecede
  <2> QED
    BY <2>1, <2>2 DEF Put
<1>4. PacketsMeet'
  <2>1. /\ \A d \in Events : Here(d)' <=> Here(d) \/ d = e
        /\ \A a : Clearing(a)' <=> Clearing(a)
    BY <1>0, HereComes, PlacesComes
  <2>2. ASSUME NEW d \in Events, Here(d), d.kind = "RECV", object[d.arg] = d.conn
        PROVE  object'[d.arg] = d.conn
    <3>1. d.arg \in Objects /\ d.conn # NoConn
      BY <1>0, <2>2, TcpAssumption DEF Sound, ToClient, Events
    <3> QED
      BY <2>2, <3>1
  <2>3. ASSUME NEW d \in Events, Here(d)', d.kind = "RECV"
        PROVE  object'[d.arg] = d.conn \/ Clearing(d.arg)'
    BY <1>0, <2>1, <2>2, <2>3 DEF PacketsMeet, ToClient
  <2>4. ASSUME service.at = "finish", NEW d \in Events, Here(d)', d.kind = "RECV"
        PROVE  d.conn # service.conn
    BY <1>0, <2>1, <2>4 DEF PacketsMeet, ToClient, Serving
  <2> QED
    BY <1>0, <2>3, <2>4 DEF PacketsMeet
<1> QED
  BY <1>3, <1>4 DEF LineInv

LEMMA LwipLine ==
  ASSUME TcpInv, TcpInv', LineInv, service.at # "sweep", Lwip
  PROVE  LineInv'
<1>0. /\ Standing /\ history \in Histories /\ sent \in [Conns -> 0 .. MaxData]
      /\ object \in [Objects -> Conns \cup {NoConn}] /\ MaxData \in Nat
      /\ \A d \in Events : Here(d) => Sound(d)
  BY TcpAssumption DEF TcpInv, TypeOK, Histories
<1>1. PICK k \in Conns :
        (\E a \in Objects : Accept(k, a)) \/ Receive(k) \/ PeerCloses(k) \/ Reset(k)
  BY DEF Lwip
<1>2. ASSUME NEW a \in Objects, Accept(k, a) PROVE LineInv'
  <2> DEFINE e == Event("ACCEPT", Server, k, 0)
  <2>1. /\ e \in Events /\ e.kind = "ACCEPT" /\ e.conn = k
    BY <1>0 DEF Event, Events
  <2>2. /\ waiting = NoEvent /\ Put(e) /\ service' = service /\ link[k] = "new"
        /\ object' = [object EXCEPT ![a] = k] /\ object[a] = NoConn
    BY <1>2 DEF Accept
  <2>3. history'.stray = history.stray
    BY <1>0, <1>2, OverlappedIs DEF Accept, Histories
  <2> HIDE DEF e
  <2>4. ~ Here(e) /\ ~ ToClient(e)
    BY <1>0, <2>1, <2>2 DEF Sound, ToClient
  <2>5. \A b \in Objects : object[b] # NoConn => object'[b] = object[b]
    BY <1>0, <2>2
  <2> QED
    BY <2>1, <2>2, <2>3, <2>4, <2>5, LineComes
<1>3. ASSUME link[k] = "up", waiting = NoEvent, NEW kind \in {"RECV", "FIN", "ERROR"},
             NEW n \in 0 .. MaxData, kind = "RECV" => n = sent[k] + 1,
             Put(Event(kind, AddressOf(k), k, n)), history' = Overlapped,
             UNCHANGED <<service, object>>
      PROVE  LineInv'
  <2> DEFINE e == Event(kind, AddressOf(k), k, n)
  <2>1. AddressOf(k) \in Objects /\ object[AddressOf(k)] = k
    BY <1>0, <1>3, AddressIs
  <2>2. /\ e \in Events /\ e.kind = kind /\ e.conn = k /\ e.arg = AddressOf(k) /\ e.n = n
        /\ Put(e)
    BY <1>0, <1>3, <2>1 DEF Event, Events
  <2> HIDE DEF e
  <2>3. ~ Here(e)
    <3> SUFFICES ASSUME Sound(e) PROVE FALSE
      BY <1>0, <2>2
    <3>1. CASE kind = "RECV"
      BY <1>0, <1>3, <2>2, <3>1 DEF Sound
    <3>2. CASE kind # "RECV"
      BY <1>3, <2>2, <3>2 DEF Sound, Ends
    <3> QED
      BY <3>1, <3>2
  <2>4. history'.stray = history.stray
    BY <1>0, <1>3, OverlappedIs
  <2> QED
    BY <1>3, <2>1, <2>2, <2>3, <2>4, LineComes
<1>4. CASE Receive(k)
  <2>1. sent[k] + 1 \in 0 .. MaxData
    BY <1>0, <1>4 DEF Receive
  <2> QED
    BY <1>3, <1>4, <2>1 DEF Receive
<1>5. CASE PeerCloses(k)
  BY <1>0, <1>3, <1>5 DEF PeerCloses
<1>6. CASE Reset(k)
  BY <1>0, <1>3, <1>6 DEF Reset
<1> QED
  BY <1>1, <1>2, <1>4, <1>5, <1>6

LEMMA ResumeLine ==
  ASSUME TcpInv, TcpInv', LineInv, service.at # "sweep", Resume
  PROVE  LineInv'
<1> DEFINE e == waiting
<1>0. /\ TypeOK /\ Distinct /\ Held /\ ClearFirst /\ TypeOK' /\ Held'
      /\ Lined /\ PacketsMeet /\ queue \in Seq(Events) /\ history \in Histories
  BY DEF TcpInv, LineInv, TypeOK, Histories
<1>1. /\ e # NoEvent /\ queue' = Enqueued(e) /\ waiting' = NoEvent
      /\ history' = Overlapped /\ service' = service /\ object' = object
  BY DEF Resume
<1>2. /\ e \in Events /\ e.kind # "CLEAR" /\ (\A i \in Places : queue[i] # e) /\ service.held # e
  BY <1>0, <1>1 DEF TypeOK, Held, Distinct
<1>3. /\ \A i, j \in Places : i < j => MayPrecede(queue[i], queue[j])
      /\ ToClient(e) => \A i \in Places : MayPrecede(queue[i], e)
  BY <1>0, <1>1, LinedBetween DEF InOrder
<1>4. ~ Urgent(e) => ToClient(e)
  BY <1>2 DEF Urgent, ToClient, Events
<1>5. \A a : Clearing(a)' <=> Clearing(a)
  BY <1>0, <1>1, <1>2, PlacesEnters
<1>6. \A d \in Events : Here(d)' <=> Here(d)
  <2>1. \A d \in Events : Here(d)' <=> (\E i \in Places : queue[i] = d) \/ service.held = d \/ d = e
    BY <1>0, <1>1, <1>2, HereEnters
  <2> QED
    BY <2>1 DEF Here
<1> HIDE DEF e
<1>7. \A i, j \in 1 .. Len(queue') : i < j => MayPrecede(queue'[i], queue'[j])
  BY <1>0, <1>1, <1>2, <1>3, <1>4, LinedEnters
<1>8. Lined'
  <2>1. Lined' <=> InOrder'
    BY <1>0, <1>1, LinedAfter
  <2> QED
    BY <1>1, <1>7, <2>1 DEF InOrder, Places, MayPrecede
<1>9. history'.stray = history.stray
  BY <1>0, <1>1, OverlappedIs
<1>10. PacketsMeet'
  BY <1>0, <1>1, <1>5, <1>6, <1>9 DEF PacketsMeet
<1> QED
  BY <1>8, <1>10 DEF LineInv

\* Taking the front leaves the order as it was.
LEMMA LinedServed ==
  ASSUME TypeOK, Held, Lined, service.at = "idle", queue # <<>>, queue' = Tail(queue),
         waiting' = waiting, service'.held = NoEvent,
         service'.at = "sweep" => service'.first = NoEvent
  PROVE  /\ Lined'
         /\ \A i \in Places : i # 1 => MayPrecede(queue[1], queue[i])
         /\ waiting # NoEvent /\ ToClient(waiting) => MayPrecede(queue[1], waiting)
<1>0. queue \in Seq(Events) /\ Len(queue) \in Nat
  BY DEF TypeOK
<1>1. FirstWent
  BY <1>0, TailIs
<1>2. /\ 1 \in Places /\ Len(queue') \in Nat
      /\ \A i \in 1 .. Len(queue') : i + 1 \in Places /\ queue'[i] = queue[i + 1]
  BY <1>0, <1>1 DEF FirstWent, Places
<1>3. InOrder
  BY LinedBetween
<1>4. ASSUME NEW m \in 0 .. Len(queue'), m = 0 \/ m = Len(queue'),
             NEW i \in 1 .. Len(queue'), NEW j \in 1 .. Len(queue'), Before(i, j, m)
      PROVE  MayPrecede(queue'[i], queue'[j])
  <2>1. i + 1 < j + 1
    BY <1>2, <1>4 DEF Before
  <2> QED
    BY <1>2, <1>3, <2>1 DEF InOrder
<1>5. waiting # NoEvent /\ ToClient(waiting) =>
        \A i \in 1 .. Len(queue') : MayPrecede(queue'[i], waiting)
  BY <1>2, <1>3 DEF InOrder
<1>6. ASSUME NEW m \in 0 .. Len(queue'), IF service'.at = "sweep" THEN Seam(m)' ELSE m = 0
      PROVE  InLine(m)'
  <2>1. m = 0 \/ m = Len(queue')
    BY <1>6 DEF Seam
  <2> QED
    BY <1>4, <1>5, <2>1 DEF InLine, Places
<1>7. \A i \in Places : i # 1 => MayPrecede(queue[1], queue[i])
  <2>1. \A i \in Places : i # 1 => 1 < i
    BY <1>0 DEF Places
  <2> QED
    BY <1>2, <1>3, <2>1 DEF InOrder
<1> QED
  BY <1>2, <1>3, <1>6, <1>7 DEF Lined, InOrder

\* When the end of a connection is served, all its packets have been.
LEMMA EndIsLast ==
  ASSUME TypeOK, Held, Lined, service.at = "idle", queue # <<>>, queue' = Tail(queue),
         waiting' = waiting, service'.held = NoEvent, service'.at # "sweep",
         Ends(Head(queue)), NEW d \in Events, Here(d), d.kind = "RECV"
  PROVE  d.conn # Head(queue).conn
<1>1. /\ \A i \in Places : i # 1 => MayPrecede(queue[1], queue[i])
      /\ waiting # NoEvent /\ ToClient(waiting) => MayPrecede(queue[1], waiting)
  BY LinedServed
<1>2. Head(queue) = queue[1] /\ service.held = NoEvent /\ d # NoEvent
  BY NoEventAssumption DEF TypeOK, Held
<1>3. d # queue[1]
  BY <1>2 DEF Ends
<1>4. MayPrecede(queue[1], d)
  BY <1>1, <1>2, <1>3 DEF Here, ToClient
<1> QED
  BY <1>2, <1>4 DEF MayPrecede, ToClient, Ends

LEMMA ServeLine ==
  ASSUME TcpInv, TcpInv', LineInv,
         ServeAccept \/ ServeRecv \/ ServeFin \/ ServeError \/ ServeClear
  PROVE  LineInv'
<1>0. /\ TypeOK /\ Distinct /\ Held /\ ClearFirst /\ EndsMeet /\ Lined /\ PacketsMeet
      /\ Held' /\ history \in Histories /\ \A d \in Events : Here(d) => Sound(d)
  BY DEF TcpInv, LineInv, TypeOK, Histories
<1>1. /\ service.at = "idle" /\ queue # <<>> /\ queue' = Tail(queue) /\ waiting' = waiting
      /\ service'.held = NoEvent /\ (service'.at = "sweep" => service'.first = NoEvent)
      /\ Head(queue).kind \in {"ACCEPT", "RECV", "FIN", "ERROR", "CLEAR"}
  <2>1. service.held = NoEvent
    BY <1>0 DEF Held, ServeAccept, ServeRecv, ServeFin, ServeError, ServeClear, Serves
  <2> QED
    BY <2>1 DEF ServeAccept, ServeRecv, ServeFin, ServeError, ServeClear, Serves, At
<1>2. Lined'
  BY <1>0, <1>1, LinedServed
<1>3. /\ \A d \in Events : Here(d)' <=> Here(d) /\ d # queue[1]
      /\ Here(queue[1]) /\ queue[1] \in Events /\ Head(queue) = queue[1]
  BY <1>0, <1>1, Served DEF FirstWent
<1>4. CASE ServeAccept \/ ServeClear
  <2>1. /\ history'.stray = history.stray /\ object' = object /\ service'.at # "finish"
        /\ \/ Head(queue).kind # "CLEAR"
           \/ service'.at = "sweep" /\ service'.arg = Head(queue).arg
    BY <1>0, <1>1, <1>4 DEF ServeAccept, ServeClear, Serves, At, Histories
  <2>2. \A a : Clearing(a) => Clearing(a)'
    BY <1>0, <1>1, <2>1, ClearingServed
  <2>3. PacketsMeet'
    BY <1>0, <1>3, <2>1, <2>2 DEF PacketsMeet
  <2> QED
    BY <1>2, <2>3 DEF LineInv
<1>5. ASSUME Head(queue).kind \notin {"ACCEPT", "CLEAR"}
      PROVE  \A d \in Events : Here(d) /\ d.kind = "RECV" => object[d.arg] = d.conn
  <2>1. \A a : ~ Clearing(a)
    BY <1>1, <1>5, NothingToClear
  <2> QED
    BY <1>0, <2>1 DEF PacketsMeet
<1>6. CASE ServeRecv
  <2>1. Head(queue).kind = "RECV" /\ object' = object /\ service'.at # "finish"
    BY <1>1, <1>6 DEF ServeRecv, Serves, At
  <2>2. ~ Stray(Head(queue))
    BY <1>3, <1>5, <2>1 DEF Stray
  <2>3. history'.stray = history.stray
    BY <1>0, <1>6, <2>2 DEF ServeRecv, PacketsMeet, Histories
  <2>4. PacketsMeet'
    BY <1>0, <1>3, <1>5, <2>1, <2>3 DEF PacketsMeet
  <2> QED
    BY <1>2, <2>4 DEF LineInv
<1>7. CASE ServeFin
  <2>1. /\ Head(queue).kind = "FIN" /\ object' = object /\ service'.at = "finish"
        /\ service'.conn = Head(queue).conn
    BY <1>7 DEF ServeFin, Serves, At
  <2>2. ~ Stray(Head(queue))
    BY <1>7, ServeFinKeeps DEF Stray
  <2>3. history'.stray = history.stray
    BY <1>0, <1>7, <2>2 DEF ServeFin, PacketsMeet, Histories
  <2>4. \A d \in Events : Here(d) /\ d.kind = "RECV" => d.conn # Head(queue).conn
    BY <1>0, <1>1, <2>1, EndIsLast DEF Ends
  <2>5. PacketsMeet'
    BY <1>0, <1>3, <1>5, <2>1, <2>3, <2>4 DEF PacketsMeet
  <2> QED
    BY <1>2, <2>5 DEF LineInv
<1>8. CASE ServeError
  <2> DEFINE e == Head(queue)
  <2>1. /\ e.kind = "ERROR" /\ service'.at = "idle"
        /\ object' = object \/ object' = [object EXCEPT ![e.arg] = NoConn]
    BY <1>1, <1>8, DiscardedIs DEF ServeError, Serves
  <2>2. object[e.arg] = e.conn
    BY <1>8, ServeErrorKeeps
  <2>3. history'.stray = history.stray
    BY <1>0, <1>8, <2>2 DEF ServeError, PacketsMeet, Histories, Stray
  <2>4. \A d \in Events : Here(d) /\ d.kind = "RECV" => d.conn # e.conn
    BY <1>0, <1>1, <2>1, EndIsLast DEF Ends
  <2> HIDE DEF e
  <2>5. ASSUME NEW d \in Events, Here(d), d.kind = "RECV" PROVE object'[d.arg] = d.conn
    <3>1. object[d.arg] = d.conn /\ d.conn # e.conn
      BY <1>5, <2>1, <2>4, <2>5 DEF e
    <3>2. d.arg \in Objects /\ d.arg # e.arg
      BY <1>0, <2>2, <2>5, <3>1 DEF Sound, ToClient
    <3> QED
      BY <1>0, <2>1, <3>1, <3>2 DEF TypeOK
  <2>6. PacketsMeet'
    BY <1>0, <1>3, <2>1, <2>3, <2>5 DEF PacketsMeet
  <2> QED
    BY <1>2, <2>6 DEF LineInv
<1> QED
  BY <1>4, <1>6, <1>7, <1>8

-----------------------------------------------------------------------------
(* The order while clients go. *)

LEMMA ClearEntersLine ==
  ASSUME TypeOK, Held, Lined, TypeOK', Held', service.at # "sweep", service'.at # "sweep",
         NEW e \in Events, e.kind = "CLEAR", queue' = Enqueued(e), waiting' = waiting
  PROVE  Lined'
<1>0. queue \in Seq(Events) /\ InOrder /\ Urgent(e)
  BY LinedBetween DEF TypeOK, Urgent
<1>1. \A i, j \in 1 .. Len(queue') : i < j => MayPrecede(queue'[i], queue'[j])
  BY <1>0, LinedEnters DEF InOrder
<1>2. ASSUME NEW i \in 1 .. Len(queue'), waiting # NoEvent, ToClient(waiting)
      PROVE  MayPrecede(queue'[i], waiting)
  <2>1. CASE i = 1
    BY <1>0, <1>2, <2>1, EnqueuedIs DEF CameFirst, MayPrecede, ToClient
  <2>2. CASE i # 1
    <3>1. i - 1 \in Places /\ queue'[i] = queue[i - 1]
      BY <1>0, <2>2, EnqueuedIs DEF CameFirst, Places
    <3> QED
      BY <1>0, <1>2, <3>1 DEF InOrder
  <2> QED
    BY <2>1, <2>2
<1>3. InOrder'
  BY <1>1, <1>2 DEF InOrder, Places, MayPrecede, ToClient
<1> QED
  BY <1>3, LinedAfter

LEMMA FinishLine ==
  ASSUME TcpInv, TcpInv', LineInv, Finish
  PROVE  LineInv'
<1> DEFINE a == service.arg
           k == service.conn
           e == Event("CLEAR", a, k, 0)
<1>0. /\ TypeOK /\ Distinct /\ Held /\ ClearFirst /\ Serving /\ TypeOK' /\ Held'
      /\ Lined /\ PacketsMeet /\ \A d \in Events : Here(d) => Sound(d)
  BY DEF TcpInv, LineInv
<1>1. /\ service.at = "finish" /\ ~ Full /\ queue' = Enqueued(e) /\ service' = Idle
      /\ object' = object \/ object' = [object EXCEPT ![a] = NoConn]
      /\ waiting' = waiting /\ history'.stray = history.stray
  BY DiscardedIs DEF Finish, TcpInv, TypeOK
<1>2. a \in Objects /\ k \in Conns /\ object[a] = k
  BY <1>0, <1>1 DEF Serving
<1>3. e \in Events /\ e.kind = "CLEAR"
  BY <1>2, TcpAssumption DEF Event, Events
<1>4. service'.at = "idle" /\ service'.held = NoEvent
  BY <1>1 DEF Idle, At
<1> HIDE DEF e
<1>5. Lined'
  BY <1>0, <1>1, <1>3, <1>4, ClearEntersLine
<1>6. /\ \A d \in Events : Here(d)' <=> Here(d) \/ d = e
      /\ \A b : ~ Clearing(b)
  BY <1>0, <1>1, <1>3, <1>4, ClearEnters
<1>7. ASSUME NEW d \in Events, Here(d)', d.kind = "RECV" PROVE object'[d.arg] = d.conn
  <2>1. Here(d) /\ object[d.arg] = d.conn /\ d.conn # k /\ d.arg \in Objects
    BY <1>0, <1>1, <1>3, <1>6, <1>7 DEF PacketsMeet, Sound, ToClient
  <2> QED
    BY <1>0, <1>1, <1>2, <2>1 DEF TypeOK
<1>8. PacketsMeet'
  BY <1>0, <1>1, <1>4, <1>7 DEF PacketsMeet
<1> QED
  BY <1>5, <1>8 DEF LineInv

LEMMA CloseLine ==
  ASSUME TcpInv, TcpInv', LineInv, Close
  PROVE  LineInv'
<1> DEFINE e == Event("CLEAR", service.arg, service.conn, 0)
<1>0. /\ TypeOK /\ Distinct /\ Held /\ ClearFirst /\ Serving /\ TypeOK' /\ Held'
      /\ Lined /\ PacketsMeet
  BY DEF TcpInv, LineInv
<1>1. /\ service.at = "close" /\ ~ Full /\ UNCHANGED <<waiting, object, history>>
      /\ service.arg \in Objects /\ service.conn \in Conns
  BY <1>0 DEF Close, Serving
<1>2. /\ service.held = NoEvent /\ \A b : ~ Clearing(b)
  BY <1>0, <1>1 DEF Held, Clearing, ClearFirst
<1>3. e \in Events /\ e.kind = "CLEAR"
  BY <1>1, TcpAssumption DEF Event, Events
<1>4. CASE link[service.conn] \in {"up", "reset"}
  <2>1. queue' = Enqueued(e) /\ service' = [service EXCEPT !.at = "closing"]
    BY <1>4 DEF Close
  <2>2. service'.at = "closing" /\ service'.held = NoEvent
    BY <1>0, <1>2, <2>1 DEF TypeOK
  <2> HIDE DEF e
  <2>3. Lined'
    BY <1>0, <1>1, <1>3, <2>1, <2>2, ClearEntersLine
  <2>4. \A d \in Events : Here(d)' <=> Here(d) \/ d = e
    BY <1>0, <1>1, <1>3, <2>1, <2>2, ClearEnters
  <2>5. PacketsMeet'
    BY <1>0, <1>1, <1>2, <1>3, <2>2, <2>4 DEF PacketsMeet
  <2> QED
    BY <2>3, <2>5 DEF LineInv
<1>5. CASE link[service.conn] \notin {"up", "reset"}
  <2>1. queue' = queue /\ service' = Idle
    BY <1>5 DEF Close
  <2>2. service'.at = "idle" /\ service'.held = NoEvent
    BY <2>1 DEF Idle, At
  <2>3. Lined'
    <3>1. InOrder
      BY <1>0, <1>1, LinedBetween
    <3>2. InOrder'
      BY <1>1, <2>1, <3>1 DEF InOrder, Places, MayPrecede, ToClient
    <3> QED
      BY <1>0, <2>2, <3>2, LinedAfter
  <2>4. \A d \in Events : Here(d)' <=> Here(d)
    BY <1>1, <1>2, <2>1, <2>2 DEF Here, Places
  <2>5. PacketsMeet'
    BY <1>0, <1>1, <1>2, <2>2, <2>4 DEF PacketsMeet
  <2> QED
    BY <2>3, <2>5 DEF LineInv
<1> QED
  BY <1>4, <1>5

LEMMA HandledLine ==
  ASSUME TcpInv, TcpInv', LineInv, Handle \/ Recved
  PROVE  LineInv'
<1>0. /\ TypeOK /\ Held /\ Serving /\ TypeOK' /\ Held' /\ Lined /\ PacketsMeet
  BY DEF TcpInv, LineInv
<1>1. /\ UNCHANGED <<queue, waiting, object, history>>
      /\ service.at \in {"data", "ack", "release"} /\ service.held = NoEvent
  BY <1>0 DEF Handle, Recved, Held
<1>2. service'.at \notin {"sweep", "finish"} /\ service'.held = NoEvent
  BY <1>0, <1>1 DEF Handle, Recved, Idle, At, TypeOK
<1>3. Lined'
  <2>1. InOrder
    BY <1>0, <1>1, LinedBetween
  <2>2. InOrder'
    BY <1>1, <2>1 DEF InOrder, Places, MayPrecede, ToClient
  <2> QED
    BY <1>0, <1>2, <2>2, LinedAfter
<1>4. \A d : Here(d)' <=> Here(d)
  BY <1>1, <1>2 DEF Here, Places
<1>5. \A b : Clearing(b)' <=> Clearing(b)
  BY <1>1, <1>2 DEF Clearing, Places
<1>6. PacketsMeet'
  BY <1>0, <1>1, <1>2, <1>4, <1>5 DEF PacketsMeet
<1> QED
  BY <1>3, <1>6 DEF LineInv

LEMMA ClosedLine ==
  ASSUME TcpInv, TcpInv', LineInv, Closed
  PROVE  LineInv'
<1>0. /\ TypeOK /\ Distinct /\ Held /\ ClearFirst /\ Serving /\ TypeOK' /\ Held'
      /\ Lined /\ PacketsMeet /\ \A d \in Events : Here(d) => Sound(d)
  BY DEF TcpInv, LineInv
<1>1. /\ service.at = "closing" /\ service' = Idle
      /\ object' = [object EXCEPT ![service.arg] = NoConn]
      /\ UNCHANGED <<queue, waiting, history>>
  BY DEF Closed
<1>2. Clearing(service.arg)
  BY <1>0, <1>1 DEF Serving, Clearing
<1>3. service'.at = "idle" /\ service'.held = NoEvent /\ service.held = NoEvent
  BY <1>0, <1>1 DEF Idle, At, Held
<1>4. Lined'
  <2>1. InOrder
    BY <1>0, <1>1, LinedBetween
  <2>2. InOrder'
    BY <1>1, <2>1 DEF InOrder, Places, MayPrecede, ToClient
  <2> QED
    BY <1>0, <1>3, <2>2, LinedAfter
<1>5. \A d : Here(d)' <=> Here(d)
  BY <1>1, <1>3 DEF Here, Places
<1>6. \A b : Clearing(b)' <=> Clearing(b)
  BY <1>1, <1>3 DEF Clearing, Places
<1>7. ASSUME NEW d \in Events, Here(d), d.kind = "RECV"
      PROVE  object'[d.arg] = d.conn \/ Clearing(d.arg)
  <2>1. d.arg \in Objects /\ (object[d.arg] = d.conn \/ Clearing(d.arg))
    BY <1>0, <1>7 DEF PacketsMeet, Sound, ToClient
  <2> QED
    BY <1>0, <1>1, <1>2, <2>1 DEF TypeOK
<1>8. PacketsMeet'
  BY <1>0, <1>1, <1>3, <1>5, <1>6, <1>7 DEF PacketsMeet
<1> QED
  BY <1>4, <1>8 DEF LineInv

-----------------------------------------------------------------------------
(* The order while the sweep goes through the queue. *)

LEMMA SweepEndLine ==
  ASSUME TcpInv, TcpInv', LineInv, service.at = "sweep", service.held = NoEvent,
         queue = <<>> \/ Head(queue) = service.first, service' = Idle,
         UNCHANGED <<queue, waiting, object, link, sent, read, history>>
  PROVE  LineInv'
<1>0. /\ TypeOK /\ ClearFirst /\ TypeOK' /\ Held' /\ Lined /\ PacketsMeet
      /\ queue \in Seq(Events) /\ Len(queue) \in Nat
  BY DEF TcpInv, LineInv, TypeOK
<1>1. service'.at = "idle" /\ service'.held = NoEvent
  BY DEF Idle, At
<1>2. InOrder
  <2>1. CASE queue = <<>>
    BY <2>1 DEF InOrder, Places
  <2>2. CASE queue # <<>>
    <3>1. 0 < Len(queue) /\ queue[1] \in Events /\ queue[1] = service.first
      BY <1>0, <2>2
    <3>2. Seam(0)
      BY <3>1, NoEventAssumption DEF Seam
    <3>3. InLine(0)
      BY <1>0, <3>2 DEF Lined
    <3>4. \A i, j \in Places : i < j => Before(i, j, 0)
      BY DEF Before, Places
    <3> QED
      BY <3>3, <3>4 DEF InLine, InOrder
  <2> QED
    BY <2>1, <2>2
<1>3. Lined'
  <2>1. InOrder'
    BY <1>2 DEF InOrder, Places, MayPrecede, ToClient
  <2> QED
    BY <1>0, <1>1, <2>1, LinedAfter
<1>4. \A d : Here(d)' <=> Here(d)
  BY <1>1 DEF Here, Places
<1>5. ASSUME NEW d \in Events, Here(d), d.kind = "RECV" PROVE object[d.arg] = d.conn
  <2>1. object[d.arg] = d.conn \/ d.arg = service.arg
    BY <1>0, <1>5 DEF PacketsMeet, Clearing, ClearFirst
  <2> QED
    BY <1>5, <2>1, SweepEndKeeps DEF ToClient
<1>6. PacketsMeet'
  BY <1>0, <1>1, <1>4, <1>5 DEF PacketsMeet
<1> QED
  BY <1>3, <1>6 DEF LineInv

LEMMA SweepTakeLine ==
  ASSUME TcpInv, TcpInv', LineInv, SweepTake
  PROVE  LineInv'
<1> DEFINE e == queue[1]
<1>0. /\ TypeOK /\ Lined /\ PacketsMeet /\ queue \in Seq(Events) /\ Len(queue) \in Nat
  BY DEF TcpInv, LineInv, TypeOK
<1>1. /\ service.at = "sweep" /\ service.held = NoEvent
      /\ UNCHANGED <<waiting, object, link, sent, read, history>>
  BY DEF SweepTake
<1>2. CASE queue = <<>> \/ Head(queue) = service.first
  BY <1>1, <1>2, SweepEndLine DEF SweepTake
<1>3. CASE ~ (queue = <<>> \/ Head(queue) = service.first)
  <2>1. /\ queue' = Tail(queue)
        /\ service' = IF Head(queue).arg = service.arg THEN service
                      ELSE [service EXCEPT !.held = Head(queue)]
    BY <1>3 DEF SweepTake
  <2>2. /\ service'.at = "sweep" /\ service'.arg = service.arg /\ service'.first = service.first
        /\ service'.held = IF Head(queue).arg = service.arg THEN NoEvent ELSE Head(queue)
    BY <1>0, <1>1, <2>1 DEF TypeOK
  <2>3. /\ e \in Events /\ Head(queue) = e /\ 1 \in Places /\ Len(queue') = Len(queue) - 1
        /\ \A i \in 1 .. Len(queue') : i + 1 \in Places /\ queue'[i] = queue[i + 1]
        /\ \A d \in Events : (\E i \in 1 .. Len(queue') : queue'[i] = d) \/ d = e
                             <=> \E i \in Places : queue[i] = d
        /\ \A b : Clearing(b)' <=> Clearing(b)
    <3>1. Len(queue') = Len(queue) - 1 /\ 1 \in Places
      BY <1>0, <1>3, <2>1, TailIs DEF FirstWent, Places
    <3> QED
      BY <1>1, <1>3, <2>1, <2>2, <3>1, SweepTakes
  <2> HIDE DEF e
  <2>4. ASSUME NEW m \in 0 .. Len(queue'), Seam(m)' PROVE InLine(m)'
    <3>1. m + 1 \in 0 .. Len(queue) /\ Seam(m + 1)
      <4>1. CASE service.first = NoEvent
        BY <1>0, <2>2, <2>3, <2>4, <4>1 DEF Seam
      <4>2. CASE service.first # NoEvent
        <5>1. m < Len(queue') /\ queue'[m + 1] = service.first
          BY <2>2, <2>4, <4>2 DEF Seam
        <5>2. m + 1 \in 1 .. Len(queue')
          BY <1>0, <2>3, <2>4, <5>1
        <5>3. m + 1 < Len(queue) /\ queue[(m + 1) + 1] = service.first
          BY <2>3, <5>1, <5>2
        <5> QED
          BY <1>0, <2>3, <4>2, <5>2, <5>3 DEF Seam
      <4> QED
        BY <4>1, <4>2
    <3>2. InLine(m + 1)
      BY <1>0, <1>1, <3>1 DEF Lined
    <3>3. ASSUME NEW i \in 1 .. Len(queue'), NEW j \in 1 .. Len(queue'), Before(i, j, m)
          PROVE  MayPrecede(queue'[i], queue'[j])
      <4>1. Before(i + 1, j + 1, m + 1)
        BY <3>3, <2>4 DEF Before
      <4> QED
        BY <2>3, <3>2, <4>1 DEF InLine
    <3>4. ASSUME NEW i \in 1 .. Len(queue')
          PROVE  /\ m < i => MayPrecede(queue'[i], e)
                 /\ i <= m => MayPrecede(e, queue'[i])
      <4>1. /\ m < i => Before(i + 1, 1, m + 1)
            /\ i <= m => Before(1, i + 1, m + 1)
        BY <2>4 DEF Before
      <4>2. 1 \in Places /\ i + 1 \in Places /\ queue'[i] = queue[i + 1] /\ queue[1] = e
        BY <2>3 DEF e
      <4> QED
        BY <3>2, <4>1, <4>2 DEF InLine
    <3>5. ASSUME waiting # NoEvent, ToClient(waiting)
          PROVE  /\ \A i \in 1 .. Len(queue') : MayPrecede(queue'[i], waiting)
                 /\ MayPrecede(e, waiting)
      <4>1. \A i \in Places : MayPrecede(queue[i], waiting)
        BY <3>2, <3>5 DEF InLine
      <4> QED
        BY <2>3, <4>1 DEF e
    <3> QED
      BY <1>1, <2>2, <2>3, <3>3, <3>4, <3>5 DEF InLine, Places
  <2>5. Lined'
    BY <2>2, <2>4 DEF Lined
  <2>6. \A d \in Events : Here(d)' => Here(d)
    BY <1>1, <2>2, <2>3, NoEventAssumption DEF Here, Places
  <2>7. PacketsMeet'
    BY <1>0, <1>1, <2>2, <2>3, <2>6 DEF PacketsMeet
  <2> QED
    BY <2>5, <2>7 DEF LineInv
<1> QED
  BY <1>2, <1>3

LEMMA SweepPutLine ==
  ASSUME TcpInv, TcpInv', LineInv, SweepPut
  PROVE  LineInv'
<1> DEFINE e == service.held
           l == Len(queue) + 1
<1>0. /\ TypeOK /\ Distinct /\ Held /\ ClearFirst /\ Swept /\ ClearFirst' /\ Lined /\ PacketsMeet
      /\ queue \in Seq(Events) /\ Len(queue) \in Nat
  BY DEF TcpInv, LineInv, TypeOK
<1>1. /\ service.at = "sweep" /\ e # NoEvent /\ queue' = Append(queue, e)
      /\ service' = [service EXCEPT !.held = NoEvent,
                                    !.first = IF service.first = NoEvent THEN e ELSE service.first]
      /\ UNCHANGED <<waiting, object, link, sent, read, history>>
  BY DEF SweepPut
<1>2. e \in Events /\ e # waiting /\ \A i \in Places : queue[i] # e
  BY <1>0, <1>1 DEF TypeOK, Distinct
<1>3. /\ service'.at = "sweep" /\ service'.arg = service.arg /\ service'.held = NoEvent
      /\ service'.first = IF service.first = NoEvent THEN e ELSE service.first
  BY <1>0, <1>1 DEF TypeOK
<1>4. CameLast(e)
  BY <1>0, <1>1, <1>2, Appended DEF CameLast, Places
<1>5. /\ Len(queue') = l /\ queue'[l] = e
      /\ \A i \in Places : queue'[i] = queue[i]
      /\ \A i \in 1 .. Len(queue') : i = l \/ i \in Places
  BY <1>0, <1>4 DEF CameLast, Places
<1> HIDE DEF e
<1>6. ASSUME NEW m \in 0 .. Len(queue'), Seam(m)' PROVE InLine(m)'
  <2>1. service'.first # NoEvent /\ m < l /\ queue'[m + 1] = service'.first
    BY <1>1, <1>3, <1>5, <1>6 DEF Seam
  <2>2. m \in 0 .. Len(queue) /\ Seam(m)
    <3>1. CASE service.first = NoEvent
      <4>1. m + 1 \notin Places /\ m + 1 \in 1 .. Len(queue')
        BY <1>0, <1>2, <1>3, <1>5, <1>6, <2>1, <3>1
      <4>2. m = Len(queue)
        BY <1>0, <1>5, <1>6, <4>1 DEF Places
      <4> QED
        BY <1>0, <3>1, <4>2 DEF Seam
    <3>2. CASE service.first # NoEvent
      <4>1. service.first # e
        BY <1>0, <1>1, <1>2, <3>2 DEF Swept
      <4>2. m + 1 # l /\ m + 1 \in 1 .. Len(queue')
        BY <1>0, <1>3, <1>5, <1>6, <2>1, <3>2, <4>1
      <4>3. m + 1 \in Places /\ queue[m + 1] = service.first
        BY <1>3, <1>5, <2>1, <3>2, <4>2
      <4> QED
        BY <1>0, <1>6, <3>2, <4>3 DEF Seam, Places
    <3> QED
      BY <3>1, <3>2
  <2>3. InLine(m)
    BY <1>0, <1>1, <2>2 DEF Lined
  <2>4. ASSUME NEW i \in 1 .. Len(queue'), NEW j \in 1 .. Len(queue'), Before(i, j, m)
        PROVE  MayPrecede(queue'[i], queue'[j])
    <3>1. CASE i \in Places /\ j \in Places
      BY <1>5, <2>3, <2>4, <3>1 DEF InLine
    <3>2. CASE j = l
      <4>1. i \in Places /\ m < i
        BY <1>0, <1>5, <2>2, <2>4, <3>2 DEF Before, Places
      <4> QED
        BY <1>1, <1>5, <2>3, <3>2, <4>1 DEF InLine, e
    <3>3. CASE i = l
      <4>1. j \in Places /\ j <= m
        BY <1>0, <1>5, <2>2, <2>4, <3>3 DEF Before, Places
      <4> QED
        BY <1>1, <1>5, <2>3, <3>3, <4>1 DEF InLine, e
    <3> QED
      BY <1>5, <3>1, <3>2, <3>3
  <2>5. ASSUME waiting # NoEvent, ToClient(waiting), NEW i \in 1 .. Len(queue')
        PROVE  MayPrecede(queue'[i], waiting)
    <3>1. (\A j \in Places : MayPrecede(queue[j], waiting)) /\ MayPrecede(e, waiting)
      BY <1>1, <2>3, <2>5 DEF InLine, e
    <3> QED
      BY <1>5, <3>1
  <2> QED
    BY <1>1, <1>3, <2>4, <2>5 DEF InLine, Places
<1>7. Lined'
  BY <1>3, <1>6 DEF Lined
<1>8. ASSUME NEW d \in Events, Here(d)' PROVE Here(d)
  <2>1. (\E i \in 1 .. Len(queue') : queue'[i] = d) => (\E i \in Places : queue[i] = d) \/ d = e
    BY <1>5
  <2> QED
    BY <1>1, <1>3, <1>8, <2>1, NoEventAssumption DEF Here, Places, e
<1>9. \A b : Clearing(b)' <=> Clearing(b)
  BY <1>0, <1>1, <1>3 DEF Clearing, ClearFirst
<1>10. PacketsMeet'
  BY <1>0, <1>1, <1>3, <1>8, <1>9 DEF PacketsMeet
<1> QED
  BY <1>7, <1>10 DEF LineInv

-----------------------------------------------------------------------------
LineKept == ~ history.overlap => LineInv

LEMMA LineInit == Init => LineKept
<1> SUFFICES ASSUME Init PROVE LineInv
  BY DEF LineKept
<1>1. /\ queue = <<>> /\ Len(queue) = 0 /\ waiting = NoEvent /\ service = Idle
      /\ ~ history.stray
  BY DEF Init
<1>2. service.at = "idle" /\ service.held = NoEvent
  BY <1>1 DEF Idle, At
<1>3. Places = {}
  BY <1>1 DEF Places
<1>4. Lined
  BY <1>1, <1>2, <1>3 DEF Lined, InLine
<1>5. PacketsMeet
  BY <1>1, <1>2, <1>3, NoEventAssumption DEF PacketsMeet, Here
<1> QED
  BY <1>4, <1>5 DEF LineInv

LEMMA LineStutter ==
  ASSUME LineInv, UNCHANGED vars
  PROVE  LineInv'
<1>1. Lined'
  BY DEF vars, LineInv, Lined, InLine, Before, Seam, MayPrecede, ToClient, Places
<1>2. PacketsMeet'
  BY DEF vars, LineInv, PacketsMeet, Here, Clearing, Places
<1> QED
  BY <1>1, <1>2 DEF LineInv

LEMMA LineStep == TcpInv /\ TcpInv' /\ LineKept /\ [Next]_vars => LineKept'
<1> SUFFICES ASSUME TcpInv, TcpInv', LineKept, [Next]_vars, ~ history'.overlap PROVE LineInv'
  BY DEF LineKept
<1>0. history \in Histories
  BY DEF TcpInv, TypeOK, Histories
<1>1. CASE Lwip
  <2>1. PICK k \in Conns :
          (\E a \in Objects : Accept(k, a)) \/ Receive(k) \/ PeerCloses(k) \/ Reset(k)
    BY <1>1 DEF Lwip
  <2>2. history'.overlap <=> Overlapped.overlap
    <3>1. ASSUME NEW a \in Objects, Accept(k, a) PROVE history'.overlap <=> Overlapped.overlap
      <4> DEFINE reused == IF \/ \E i \in DOMAIN queue : queue[i].arg = a
                              \/ service.at = "sweep" /\ service.arg = a
                           THEN Overlapped.reused \cup {k} ELSE Overlapped.reused
      <4>1. Overlapped \in Histories /\ history' = [Overlapped EXCEPT !.reused = reused]
        BY <1>0, <3>1, OverlappedIs DEF Accept
      <4> HIDE DEF reused
      <4> QED
        BY <4>1 DEF Histories
    <3> QED
      BY <2>1, <3>1 DEF Receive, PeerCloses, Reset
  <2>3. ~ history.overlap /\ service.at # "sweep"
    BY <1>0, <2>2, OverlappedIs
  <2> QED
    BY <1>1, <2>3, LwipLine DEF LineKept
<1>2. CASE Resume
  <2>1. ~ history.overlap /\ service.at # "sweep"
    BY <1>0, <1>2, OverlappedIs DEF Resume
  <2> QED
    BY <1>2, <2>1, ResumeLine DEF LineKept
<1>3. CASE Service
  <2>1. ~ history.overlap
    BY <1>0, <1>3 DEF Service, ServeAccept, ServeRecv, ServeFin, ServeError, ServeClear, Finish,
                      Handle, Recved, Close, Closed, SweepTake, SweepPut, Histories
  <2> QED
    BY <1>3, <2>1, ServeLine, HandledLine, FinishLine, CloseLine, ClosedLine, SweepTakeLine,
       SweepPutLine DEF Service, LineKept
<1>4. CASE UNCHANGED vars
  BY <1>4, LineStutter DEF LineKept, vars
<1> QED
  BY <1>1, <1>2, <1>3, <1>4 DEF Next

\* No packet reaches a client that is gone, or another one at its address, unless LwIP added
\* to the queue during a sweep: until then the events stand in an order in which a client
\* meets its packets before its end, and CLEAR comes before the rest (AsyncTCP.cpp:863, 904).
THEOREM StraysNeedOverlap == Spec => []StrayNeedsOverlap
<1>1. TcpInv /\ LineKept => StrayNeedsOverlap
  BY DEF LineKept, LineInv, PacketsMeet, StrayNeedsOverlap
<1> QED
  BY TcpInit, TcpStep, LineInit, LineStep, <1>1, PTL DEF Spec

-----------------------------------------------------------------------------
(* Every packet is delivered.  What the steps of the service task do to the events.       *)

LEMMA ServeMoves ==
  ASSUME TcpInv, ServeAccept \/ ServeRecv \/ ServeFin \/ ServeError \/ ServeClear
  PROVE  /\ service.at = "idle" /\ queue # <<>> /\ queue' = Tail(queue) /\ waiting' = waiting
         /\ service'.held = NoEvent /\ Head(queue) = queue[1] /\ queue[1] \in Events
         /\ service'.at # "closing" /\ Here(queue[1])
         /\ \A d \in Events : Here(d)' <=> Here(d) /\ d # queue[1]
         /\ \A a : Clearing(a)' => Clearing(a)
<1>0. TypeOK /\ Distinct /\ Held /\ ClearFirst
  BY DEF TcpInv
<1>1. /\ service.at = "idle" /\ queue # <<>> /\ queue' = Tail(queue) /\ waiting' = waiting
      /\ service'.held = NoEvent /\ service'.at # "closing"
      /\ service'.at = "sweep" => Head(queue).kind = "CLEAR" /\ service'.arg = Head(queue).arg
  <2>1. service.held = NoEvent
    BY <1>0 DEF Held, ServeAccept, ServeRecv, ServeFin, ServeError, ServeClear, Serves
  <2> QED
    BY <2>1 DEF ServeAccept, ServeRecv, ServeFin, ServeError, ServeClear, Serves, At
<1>2. /\ \A d \in Events : Here(d)' <=> Here(d) /\ d # queue[1]
      /\ FirstWent /\ Here(queue[1])
      /\ \A i \in 1 .. Len(queue') : i + 1 \in Places /\ queue'[i] = queue[i + 1]
  BY <1>0, <1>1, Served
<1>3. Head(queue) = queue[1] /\ queue[1] \in Events /\ 1 \in Places
  BY <1>0, <1>2 DEF FirstWent, Places, TypeOK
<1>4. ASSUME NEW a, Clearing(a)' PROVE Clearing(a)
  <2>1. CASE service'.at = "sweep" /\ service'.arg = a
    BY <1>1, <1>3, <2>1 DEF Clearing
  <2>2. CASE \E i \in 1 .. Len(queue') : queue'[i].kind = "CLEAR" /\ queue'[i].arg = a
    BY <1>2, <2>2 DEF Clearing
  <2> QED
    BY <1>4, <2>1, <2>2 DEF Clearing, Places
<1> QED
  BY <1>1, <1>2, <1>3, <1>4

LEMMA SweepPutMoves ==
  ASSUME TcpInv, SweepPut
  PROVE  \A d \in Events : Here(d)' <=> Here(d)
<1> DEFINE e == service.held
<1>1. /\ queue \in Seq(Events) /\ e \in Events /\ queue' = Append(queue, e)
      /\ waiting' = waiting /\ service'.held = NoEvent
  BY DEF TcpInv, TypeOK, SweepPut
<1>2. CameLast(e)
  BY <1>1, Appended DEF CameLast, Places
<1>3. /\ Len(queue') = Len(queue) + 1 /\ queue'[Len(queue) + 1] = e
      /\ \A i \in Places : i \in 1 .. Len(queue') /\ queue'[i] = queue[i]
      /\ \A i \in 1 .. Len(queue') : i = Len(queue) + 1 \/ i \in Places
      /\ Len(queue) + 1 \in 1 .. Len(queue')
  BY <1>1, <1>2 DEF CameLast, Places
<1> HIDE DEF e
<1>4. \A d \in Events :
        (\E i \in 1 .. Len(queue') : queue'[i] = d) <=> (\E i \in Places : queue[i] = d) \/ d = e
  BY <1>3
<1> QED
  BY <1>1, <1>4, NoEventAssumption DEF Here, Places, e

LEMMA SweepTakeMoves ==
  ASSUME TcpInv, SweepTake
  PROVE  \A d \in Events : /\ Here(d)' => Here(d)
                           /\ Here(d) /\ d.arg # service.arg => Here(d)'
<1>0. service.at = "sweep" /\ service.held = NoEvent /\ waiting' = waiting /\ object' = object
  BY DEF SweepTake
<1>1. CASE queue = <<>> \/ Head(queue) = service.first
  BY <1>0, <1>1 DEF SweepTake, Idle, At, Here, Places
<1>2. CASE ~ (queue = <<>> \/ Head(queue) = service.first)
  <2>1. /\ queue' = Tail(queue)
        /\ service' = IF Head(queue).arg = service.arg THEN service
                      ELSE [service EXCEPT !.held = Head(queue)]
    BY <1>2 DEF SweepTake
  <2>2. /\ service'.at = "sweep" /\ service'.arg = service.arg /\ service'.first = service.first
        /\ service'.held = IF Head(queue).arg = service.arg THEN NoEvent ELSE Head(queue)
    BY <1>0, <2>1 DEF TcpInv, TypeOK
  <2>3. /\ Head(queue) = queue[1]
        /\ \A d \in Events : (\E i \in 1 .. Len(queue') : queue'[i] = d) \/ d = queue[1]
                             <=> \E i \in Places : queue[i] = d
    BY <1>0, <1>2, <2>1, <2>2, SweepTakes
  <2> QED
    BY <1>0, <2>2, <2>3, NoEventAssumption DEF Here, Places
<1> QED
  BY <1>1, <1>2

\* Finish, Close and Closed leave the events in the queue, and add a CLEAR at most.
LEMMA GoingMoves ==
  ASSUME TcpInv, Finish \/ Close \/ Closed
  PROVE  /\ \A d \in Events : /\ Here(d) => Here(d)'
                              /\ Here(d)' /\ d.kind # "CLEAR" => Here(d)
         /\ \A a : Clearing(a)' => \/ Clearing(a)
                                   \/ service'.at = "closing" /\ service'.arg = a
                                   \/ service.at = "finish" /\ service.arg = a
         /\ service.at = "closing" => object'[service.arg] = NoConn
         /\ service.at = "finish" => object'[service.arg] \notin Conns \ history'.leaked
<1> DEFINE e == Event("CLEAR", service.arg, service.conn, 0)
<1>0. /\ TypeOK /\ Distinct /\ Held /\ ClearFirst /\ Serving
      /\ service.at \in {"finish", "close", "closing"} /\ service.held = NoEvent
      /\ waiting' = waiting
  BY DEF TcpInv, Finish, Close, Closed, Held
<1>1. service.arg \in Objects /\ service.conn \in Conns
  BY <1>0 DEF Serving
<1>2. e \in Events /\ e.kind = "CLEAR" /\ e.arg = service.arg
  BY <1>1, TcpAssumption DEF Event, Events
<1>3. object \in [Objects -> Conns \cup {NoConn}] /\ history \in Histories /\ NoConn \notin Conns
  BY <1>0, TcpAssumption DEF TypeOK, Histories
<1>4. /\ service.at = "closing" => object'[service.arg] = NoConn
      /\ service.at = "finish" => object'[service.arg] \notin Conns \ history'.leaked
  <2>1. CASE service.at = "finish"
    <3>1. /\ object' = Discarded(service.arg)
          /\ history'.leaked = history.leaked \cup Undiscarded(service.arg)
      BY <1>0, <1>3, <2>1 DEF Finish, Close, Closed, Histories
    <3> QED
      BY <1>1, <1>3, <2>1, <3>1 DEF Discarded, Undiscarded
  <2>2. CASE service.at = "closing"
    BY <1>0, <1>1, <1>3, <2>2 DEF Finish, Close, Closed
  <2> QED
    BY <2>1, <2>2
<1>5. CASE queue' = queue /\ service'.at = "idle" /\ service'.held = NoEvent
  BY <1>0, <1>4, <1>5 DEF Here, Clearing, Places
<1>6. CASE /\ service.at \in {"finish", "close"} /\ ~ Full /\ queue' = Enqueued(e)
           /\ service'.at \in {"idle", "closing"} /\ service'.held = NoEvent
           /\ service.at = "close" => service'.at = "closing" /\ service'.arg = service.arg
  <2> HIDE DEF e
  <2>1. \A d \in Events : Here(d)' <=> Here(d) \/ d = e
    BY <1>0, <1>2, <1>6, ClearEnters
  <2>2. CameFirst(e) /\ queue \in Seq(Events)
    BY <1>0, <1>2, <1>6, EnqueuedIs DEF TypeOK, Urgent
  <2>3. ASSUME NEW a, Clearing(a)' PROVE Clearing(a) \/ service.arg = a
    <3>1. PICK i \in 1 .. Len(queue') : queue'[i].kind = "CLEAR" /\ queue'[i].arg = a
      BY <1>6, <2>3 DEF Clearing, Places
    <3>2. CASE i = 1
      BY <1>2, <2>2, <3>1, <3>2 DEF CameFirst
    <3>3. CASE i # 1
      <4>1. i - 1 \in Places /\ queue'[i] = queue[i - 1]
        BY <2>2, <3>3 DEF CameFirst, Places
      <4> QED
        BY <3>1, <4>1 DEF Clearing
    <3> QED
      BY <3>2, <3>3
  <2> QED
    BY <1>2, <1>4, <1>6, <2>1, <2>3
<1>7. service' = [service EXCEPT !.at = "closing"] =>
        service'.at = "closing" /\ service'.arg = service.arg /\ service'.held = NoEvent
  BY <1>0 DEF TypeOK
<1> QED
  BY <1>5, <1>6, <1>7 DEF Finish, Close, Closed, Idle, At

LEMMA ServiceMoves ==
  ASSUME TcpInv, Service
  PROVE  /\ \A d \in Events : Here(d)' /\ d.kind # "CLEAR" => Here(d)
         /\ \A d \in Events : Here(d) => \/ Here(d)'
                                         \/ service.at = "idle" /\ queue # <<>> /\ d = Head(queue)
                                         \/ service.at = "sweep" /\ d.arg = service.arg
         /\ \A a \in Objects : object'[a] \in Conns => object'[a] = object[a]
         /\ \A a \in Objects : Clearing(a)' /\ object'[a] \in Conns \ history'.leaked =>
              Clearing(a) \/ (service'.at = "closing" /\ service'.arg = a)
         /\ service.at = "closing" => object'[service.arg] = NoConn
         /\ waiting' = waiting /\ sent' = sent /\ (ServeRecv \/ read' = read)
         /\ history'.reused = history.reused /\ history.leaked \subseteq history'.leaked
         /\ \/ history'.accepted = history.accepted
            \/ ServeAccept /\ history'.accepted = history.accepted \cup {Head(queue).conn}
         /\ \A k \in Conns : link'[k] # "new" => link[k] # "new"
<1>0. /\ history \in Histories /\ NoConn \notin Conns /\ Serving
      /\ object \in [Objects -> Conns \cup {NoConn}]
      /\ link \in [Conns -> {"new", "up", "reset", "closed"}]
  BY TcpAssumption DEF TcpInv, TypeOK, Histories
<1>1. CASE ServeAccept \/ ServeRecv \/ ServeFin \/ ServeError \/ ServeClear
  <2>1. /\ waiting' = waiting /\ sent' = sent /\ (ServeRecv \/ read' = read)
        /\ history'.reused = history.reused /\ history.leaked \subseteq history'.leaked
        /\ \/ history'.accepted = history.accepted
           \/ ServeAccept /\ history'.accepted = history.accepted \cup {Head(queue).conn}
    <3>1. CASE ServeAccept
      BY <1>0, <3>1 DEF ServeAccept, Histories
    <3>2. CASE ServeRecv \/ ServeFin \/ ServeClear
      BY <1>0, <3>2 DEF ServeRecv, ServeFin, ServeClear, Histories
    <3>3. CASE ServeError
      BY <1>0, <3>3 DEF ServeError, Histories
    <3> QED
      BY <1>1, <3>1, <3>2, <3>3
  <2>2. object' = object \/ object' = [object EXCEPT ![Head(queue).arg] = NoConn]
    BY <1>1, DiscardedIs DEF ServeAccept, ServeRecv, ServeFin, ServeError, ServeClear
  <2>3. \A a \in Objects : object'[a] \in Conns => object'[a] = object[a]
    BY <1>0, <2>2
  <2>4. \A k \in Conns : link'[k] # "new" => link[k] # "new"
    <3>1. CASE ServeError
      <4>1. /\ Head(queue) \in Events /\ Sound(Head(queue)) /\ Head(queue).kind = "ERROR"
            /\ object[Head(queue).arg] = Head(queue).conn
        BY <3>1, ServeMoves, ServeErrorKeeps DEF ServeError, Serves, TcpInv
      <4>2. Head(queue).conn \in Conns /\ link[Head(queue).conn] # "new"
        BY <4>1 DEF Sound, ToClient, Events
      <4>3. link' = [link EXCEPT ![Head(queue).conn] = "closed"]
        BY <3>1, <4>1 DEF ServeError
      <4> QED
        BY <1>0, <4>2, <4>3
    <3>2. CASE ~ ServeError
      BY <1>1, <3>2 DEF ServeAccept, ServeRecv, ServeFin, ServeClear
    <3> QED
      BY <3>1, <3>2
  <2> QED
    BY <1>1, <2>1, <2>3, <2>4, ServeMoves
<1>2. CASE Finish \/ Close \/ Closed
  <2>1. /\ waiting' = waiting /\ sent' = sent /\ read' = read
        /\ history'.reused = history.reused /\ history'.accepted = history.accepted
        /\ history.leaked \subseteq history'.leaked
        /\ link' = link \/ link' = [link EXCEPT ![service.conn] = "closed"]
        /\ object' = object \/ object' = [object EXCEPT ![service.arg] = NoConn]
        /\ service.at \in {"finish", "close", "closing"}
        /\ Close => service.at = "close"
        /\ service.conn \in Conns
        /\ service.at = "close" => link[service.conn] # "new"
    <3>1. service.at \in {"finish", "close", "closing"}
      BY <1>2 DEF Finish, Close, Closed
    <3>2. object[service.arg] = service.conn /\ service.arg \in Objects /\ service.conn \in Conns
      BY <1>0, <3>1 DEF Serving
    <3>3. link[service.conn] # "new"
      BY <3>2 DEF TcpInv, Standing
    <3> QED
      BY <1>0, <1>2, <3>1, <3>2, <3>3, DiscardedIs DEF Finish, Close, Closed, Histories
  <2>2. \A a \in Objects : object'[a] \in Conns => object'[a] = object[a]
    BY <1>0, <2>1
  <2>3. \A k \in Conns : link'[k] # "new" => link[k] # "new"
    <3>1. CASE Close
      BY <1>0, <2>1, <3>1
    <3>2. CASE Finish \/ Closed
      BY <3>2 DEF Finish, Closed
    <3> QED
      BY <1>2, <3>1, <3>2
  <2>4. /\ \A d \in Events : /\ Here(d) => Here(d)'
                             /\ Here(d)' /\ d.kind # "CLEAR" => Here(d)
        /\ \A a : Clearing(a)' => \/ Clearing(a)
                                  \/ service'.at = "closing" /\ service'.arg = a
                                  \/ service.at = "finish" /\ service.arg = a
        /\ service.at = "closing" => object'[service.arg] = NoConn
        /\ service.at = "finish" => object'[service.arg] \notin Conns \ history'.leaked
    BY <1>2, GoingMoves
  <2> QED
    BY <1>0, <2>1, <2>2, <2>3, <2>4
<1>3. CASE SweepTake \/ SweepPut
  <2>1. /\ service.at = "sweep"
        /\ UNCHANGED <<waiting, object, link, sent, read, history>>
    BY <1>3 DEF SweepTake, SweepPut
  <2>2. /\ \A d \in Events : Here(d)' => Here(d)
        /\ \A d \in Events : Here(d) => Here(d)' \/ d.arg = service.arg
    BY <1>3, SweepTakeMoves, SweepPutMoves
  <2>3. \A a : Clearing(a)' => Clearing(a)
    <3>1. \A i \in Places : queue[i].kind # "CLEAR"
      BY <2>1 DEF TcpInv, ClearFirst
    <3>2. TcpInv'
      BY <1>3, SweepTakeKeeps, SweepPutKeeps
    <3>3. CASE service'.at = "sweep"
      <4>1. (\A i \in Places : queue[i].kind # "CLEAR")'
        BY <3>2, <3>3 DEF TcpInv, ClearFirst
      <4>2. \/ service' = Idle \/ service' = service
            \/ service' = [service EXCEPT !.held = Head(queue)]
            \/ service' = [service EXCEPT !.held = NoEvent,
                             !.first = IF service.first = NoEvent THEN service.held ELSE service.first]
        BY <1>3 DEF SweepTake, SweepPut
      <4>3. Idle.at = "idle"
        BY DEF Idle, At
      <4>4. service'.arg = service.arg
        BY <3>3, <4>2, <4>3 DEF TcpInv, TypeOK
      <4> QED
        BY <2>1, <4>1, <4>4 DEF Clearing
    <3>4. CASE service'.at # "sweep"
      <4>1. queue' = queue
        BY <1>3, <2>1, <3>4 DEF TcpInv, TypeOK, SweepTake, SweepPut
      <4> QED
        BY <3>1, <3>4, <4>1 DEF Clearing, Places
    <3> QED
      BY <3>3, <3>4
  <2> QED
    BY <2>1, <2>2, <2>3
<1>4. CASE Handle \/ Recved
  <2>1. /\ UNCHANGED <<queue, waiting, object, link, sent, read, history>>
        /\ service.at \in {"data", "ack", "release"}
    BY <1>4 DEF Handle, Recved
  <2>2. service'.at # "sweep" /\ service'.held = NoEvent /\ service.held = NoEvent
    BY <1>4, <2>1 DEF Handle, Recved, Idle, At, TcpInv, TypeOK, Held
  <2>3. \A d : Here(d)' <=> Here(d)
    BY <2>1, <2>2 DEF Here, Places
  <2>4. \A b : Clearing(b)' <=> Clearing(b)
    BY <2>1, <2>2 DEF Clearing, Places
  <2> QED
    BY <2>1, <2>3, <2>4
<1> QED
  BY <1>1, <1>2, <1>3, <1>4 DEF Service

-----------------------------------------------------------------------------
\* The client at an address that came when no event there was pending, and will go.
Alone(a) == object[a] \in Conns \ (history.reused \cup history.leaked)

\* Its events are taken out when it is closed itself, and not before.
ClearsItself ==
  \A a \in Objects : Alone(a) /\ Clearing(a) => service.at = "closing" /\ service.arg = a

\* A client gets its handlers before its first event is served.
Accepted ==
  /\ \A k \in Conns :
       link[k] # "new" => k \in history.accepted \/ Here(Event("ACCEPT", Server, k, 0))
  /\ waiting # NoEvent /\ waiting.kind = "ACCEPT" =>
       \A e \in Events : Here(e) /\ ToClient(e) => e.conn # waiting.conn
  /\ \A k \in Conns : read[k] <= sent[k]

\* The packets that came and were not seen are there, and no others.
Numbered ==
  \A a \in Objects : Alone(a) =>
    /\ \A n \in read[object[a]] + 1 .. sent[object[a]] : Here(Event("RECV", a, object[a], n))
    /\ \A d \in Events : Here(d) /\ d.kind = "RECV" /\ d.conn = object[a] => read[object[a]] < d.n

\* What LwIP's thread does to the events.
LEMMA LwipMoves ==
  ASSUME TcpInv, NEW k \in Conns,
         (\E a \in Objects : Accept(k, a)) \/ Receive(k) \/ PeerCloses(k) \/ Reset(k)
  PROVE  \E e \in Events :
           /\ e.kind # "CLEAR" /\ e.conn = k
           /\ \A d \in Events : Here(d)' <=> Here(d) \/ d = e
           /\ \A a : Clearing(a)' <=> Clearing(a)
           /\ waiting' \in {NoEvent, e} /\ service' = service /\ read' = read
           /\ history'.accepted = history.accepted
           /\ \A c \in Conns : c # k => link'[c] = link[c] /\ sent'[c] = sent[c]
           /\ e.kind = "ACCEPT" => /\ e = Event("ACCEPT", Server, k, 0)
                                   /\ link[k] = "new" /\ sent' = sent
           /\ e.kind = "RECV" => /\ e = Event("RECV", e.arg, k, sent[k] + 1)
                                 /\ e.arg \in Objects /\ object[e.arg] = k
                                 /\ e.n = sent[k] + 1 /\ sent'[k] = sent[k] + 1
           /\ e.kind # "ACCEPT" => link[k] = "up" /\ object' = object
           /\ e.kind # "RECV" => sent' = sent
           /\ \A a \in Objects : Alone(a)' =>
                \/ Alone(a) /\ object'[a] = object[a]
                \/ e.kind = "ACCEPT" /\ object'[a] = k /\ ~ Clearing(a)
<1>0. /\ TypeOK /\ Distinct /\ Held /\ ClearFirst
      /\ Standing /\ history \in Histories /\ sent \in [Conns -> 0 .. MaxData]
      /\ link \in [Conns -> {"new", "up", "reset", "closed"}]
      /\ object \in [Objects -> Conns \cup {NoConn}] /\ MaxData \in Nat
      /\ \A d \in Events : Here(d) => Sound(d)
  BY TcpAssumption DEF TcpInv, TypeOK, Histories
<1>1. ASSUME NEW e \in Events, waiting = NoEvent, ~ Here(e), e.kind # "CLEAR", Put(e),
             service' = service
      PROVE  /\ \A d \in Events : Here(d)' <=> Here(d) \/ d = e
             /\ \A a : Clearing(a)' <=> Clearing(a)
             /\ waiting' \in {NoEvent, e}
  BY <1>0, <1>1, HereComes, PlacesComes DEF Put
<1>2. ASSUME NEW b \in Objects, Accept(k, b)
      PROVE  LET e == Event("ACCEPT", Server, k, 0)
             IN  /\ e \in Events /\ e.kind = "ACCEPT" /\ e.conn = k /\ link[k] = "new"
                 /\ \A d \in Events : Here(d)' <=> Here(d) \/ d = e
                 /\ \A a : Clearing(a)' <=> Clearing(a)
                 /\ waiting' \in {NoEvent, e} /\ service' = service
                 /\ read' = read /\ sent' = sent /\ history'.accepted = history.accepted
                 /\ \A c \in Conns : c # k => link'[c] = link[c]
                 /\ \A a \in Objects : Alone(a)' =>
                      \/ Alone(a) /\ object'[a] = object[a]
                      \/ object'[a] = k /\ ~ Clearing(a)
  <2> DEFINE e == Event("ACCEPT", Server, k, 0)
             pending == \/ \E i \in DOMAIN queue : queue[i].arg = b
                        \/ service.at = "sweep" /\ service.arg = b
             reused == IF pending THEN Overlapped.reused \cup {k} ELSE Overlapped.reused
  <2>1. /\ e \in Events /\ e.kind = "ACCEPT" /\ e.conn = k
    BY <1>0 DEF Event, Events
  <2>2. /\ waiting = NoEvent /\ service' = service /\ sent' = sent /\ read' = read
        /\ link[k] = "new" /\ object[b] = NoConn /\ link' = [link EXCEPT ![k] = "up"]
        /\ object' = [object EXCEPT ![b] = k] /\ Put(e)
    BY <1>2 DEF Accept
  <2>3. Overlapped \in Histories /\ history' = [Overlapped EXCEPT !.reused = reused]
    BY <1>0, <1>2, OverlappedIs DEF Accept
  <2> HIDE DEF reused
  <2>4. /\ history'.reused = reused /\ history'.accepted = history.accepted
        /\ history'.leaked = history.leaked
    BY <1>0, <2>3, OverlappedIs DEF Histories
  <2>5. Overlapped.reused = history.reused
    BY <1>0, OverlappedIs
  <2>6. ~ pending => ~ Clearing(b)
    BY <1>0 DEF Clearing, Places, TypeOK
  <2> HIDE DEF e, pending
  <2>7. ~ Here(e)
    BY <1>0, <2>1, <2>2 DEF Sound
  <2>8. ASSUME NEW a \in Objects, Alone(a)'
        PROVE  \/ Alone(a) /\ object'[a] = object[a]
               \/ object'[a] = k /\ ~ Clearing(a)
    <3>1. CASE a = b
      BY <1>0, <2>2, <2>4, <2>6, <2>8, <3>1 DEF Alone, reused
    <3>2. CASE a # b
      BY <1>0, <2>2, <2>4, <2>5, <2>8, <3>2 DEF Alone, reused
    <3> QED
      BY <3>1, <3>2
  <2>9. \A c \in Conns : c # k => link'[c] = link[c]
    BY <1>0, <2>2
  <2>10. /\ \A d \in Events : Here(d)' <=> Here(d) \/ d = e
         /\ \A a : Clearing(a)' <=> Clearing(a)
         /\ waiting' \in {NoEvent, e}
    BY <1>1, <2>1, <2>2, <2>7
  <2> QED
    BY <2>1, <2>2, <2>4, <2>8, <2>9, <2>10 DEF e
<1>3. ASSUME link[k] = "up", waiting = NoEvent, NEW kind \in {"RECV", "FIN", "ERROR"},
             NEW n \in 0 .. MaxData, kind = "RECV" => n = sent[k] + 1,
             Put(Event(kind, AddressOf(k), k, n)), history' = Overlapped,
             UNCHANGED <<service, object, read>>
      PROVE  LET e == Event(kind, AddressOf(k), k, n)
             IN  /\ e \in Events /\ e.kind = kind /\ e.conn = k /\ e.arg = AddressOf(k) /\ e.n = n
                 /\ AddressOf(k) \in Objects /\ object[AddressOf(k)] = k
                 /\ \A d \in Events : Here(d)' <=> Here(d) \/ d = e
                 /\ \A a : Clearing(a)' <=> Clearing(a)
                 /\ waiting' \in {NoEvent, e} /\ history'.accepted = history.accepted
                 /\ \A a \in Objects : Alone(a)' => Alone(a)
  <2> DEFINE e == Event(kind, AddressOf(k), k, n)
  <2>1. AddressOf(k) \in Objects /\ object[AddressOf(k)] = k
    BY <1>0, <1>3, AddressIs
  <2>2. /\ e \in Events /\ e.kind = kind /\ e.conn = k /\ e.arg = AddressOf(k) /\ e.n = n
        /\ Put(e)
    BY <1>0, <1>3, <2>1 DEF Event, Events
  <2> HIDE DEF e
  <2>3. ~ Here(e)
    <3> SUFFICES ASSUME Sound(e) PROVE FALSE
      BY <1>0, <2>2
    <3>1. CASE kind = "RECV"
      BY <1>0, <1>3, <2>2, <3>1 DEF Sound
    <3>2. CASE kind # "RECV"
      BY <1>3, <2>2, <3>2 DEF Sound, Ends
    <3> QED
      BY <3>1, <3>2
  <2>4. /\ history'.accepted = history.accepted /\ history'.reused = history.reused
        /\ history'.leaked = history.leaked
    BY <1>0, <1>3, OverlappedIs
  <2>5. \A a \in Objects : Alone(a)' => Alone(a)
    BY <1>3, <2>4 DEF Alone
  <2>6. /\ \A d \in Events : Here(d)' <=> Here(d) \/ d = e
        /\ \A a : Clearing(a)' <=> Clearing(a)
        /\ waiting' \in {NoEvent, e}
    BY <1>1, <1>3, <2>2, <2>3
  <2> QED
    BY <2>1, <2>2, <2>4, <2>5, <2>6 DEF e
<1>4. CASE \E a \in Objects : Accept(k, a)
  <2> DEFINE e == Event("ACCEPT", Server, k, 0)
  <2>1. PICK b \in Objects : Accept(k, b)
    BY <1>4
  <2>2. /\ e \in Events /\ e.kind = "ACCEPT" /\ e.conn = k /\ link[k] = "new"
        /\ \A d \in Events : Here(d)' <=> Here(d) \/ d = e
        /\ \A a : Clearing(a)' <=> Clearing(a)
        /\ waiting' \in {NoEvent, e} /\ service' = service
        /\ read' = read /\ sent' = sent /\ history'.accepted = history.accepted
        /\ \A c \in Conns : c # k => link'[c] = link[c]
        /\ \A a \in Objects : Alone(a)' =>
             \/ Alone(a) /\ object'[a] = object[a]
             \/ object'[a] = k /\ ~ Clearing(a)
    BY <1>2, <2>1
  <2>3. e = Event("ACCEPT", Server, k, 0)
    OBVIOUS
  <2> HIDE DEF e
  <2> QED
    BY <2>2, <2>3
<1>5. CASE Receive(k)
  <2> DEFINE e == Event("RECV", AddressOf(k), k, sent[k] + 1)
  <2>1. /\ sent[k] + 1 \in 0 .. MaxData /\ link[k] = "up" /\ waiting = NoEvent
        /\ Put(e) /\ history' = Overlapped /\ UNCHANGED <<service, object, read, link>>
        /\ sent' = [sent EXCEPT ![k] = sent[k] + 1]
    BY <1>0, <1>5 DEF Receive
  <2>2. /\ e \in Events /\ e.kind = "RECV" /\ e.conn = k /\ e.arg = AddressOf(k)
        /\ e.n = sent[k] + 1
        /\ AddressOf(k) \in Objects /\ object[AddressOf(k)] = k
        /\ \A d \in Events : Here(d)' <=> Here(d) \/ d = e
        /\ \A a : Clearing(a)' <=> Clearing(a)
        /\ waiting' \in {NoEvent, e} /\ history'.accepted = history.accepted
        /\ \A a \in Objects : Alone(a)' => Alone(a)
    BY <1>3, <2>1
  <2>3. e = Event("RECV", e.arg, k, sent[k] + 1)
    BY <2>2
  <2>4. sent'[k] = sent[k] + 1 /\ \A c \in Conns : c # k => sent'[c] = sent[c]
    BY <1>0, <2>1
  <2> HIDE DEF e
  <2> QED
    BY <2>1, <2>2, <2>3, <2>4
<1>6. CASE PeerCloses(k) \/ Reset(k)
  <2>1. PICK kind \in {"FIN", "ERROR"} : /\ link[k] = "up" /\ waiting = NoEvent
        /\ Put(Event(kind, AddressOf(k), k, 0)) /\ history' = Overlapped
        /\ UNCHANGED <<service, object, read, sent>>
        /\ \A c \in Conns : c # k => link'[c] = link[c]
    BY <1>0, <1>6 DEF PeerCloses, Reset
  <2> DEFINE e == Event(kind, AddressOf(k), k, 0)
  <2>2. /\ e \in Events /\ e.kind = kind /\ e.conn = k
        /\ \A d \in Events : Here(d)' <=> Here(d) \/ d = e
        /\ \A a : Clearing(a)' <=> Clearing(a)
        /\ waiting' \in {NoEvent, e} /\ history'.accepted = history.accepted
        /\ \A a \in Objects : Alone(a)' => Alone(a)
    BY <1>0, <1>3, <2>1
  <2> HIDE DEF e
  <2> QED
    BY <2>1, <2>2
<1> QED
  BY <1>4, <1>5, <1>6

LEMMA AcceptedStep == TcpInv /\ Accepted /\ [Next]_vars => Accepted'
<1> SUFFICES ASSUME TcpInv, Accepted, [Next]_vars PROVE Accepted'
  OBVIOUS
<1>0. /\ Standing /\ Serving /\ Held /\ TypeOK /\ \A d \in Events : Here(d) => Sound(d)
      /\ sent \in [Conns -> 0 .. MaxData] /\ read \in [Conns -> 0 .. MaxData] /\ MaxData \in Nat
  BY TcpAssumption DEF TcpInv, TypeOK
<1> DEFINE first(k) == Event("ACCEPT", Server, k, 0)
<1>1. ASSUME NEW k \in Conns
      PROVE  first(k) \in Events /\ first(k).kind = "ACCEPT" /\ first(k).arg = Server
             /\ first(k).conn = k
  BY <1>0 DEF Event, Events
<1>2. \A k \in Conns : link[k] # "new" => k \in history.accepted \/ Here(first(k))
  BY DEF Accepted
<1> HIDE DEF first
<1>3. CASE Lwip
  <2>1. PICK k \in Conns :
          (\E a \in Objects : Accept(k, a)) \/ Receive(k) \/ PeerCloses(k) \/ Reset(k)
    BY <1>3 DEF Lwip
  <2>2. PICK e \in Events :
          /\ e.conn = k /\ \A d \in Events : Here(d)' <=> Here(d) \/ d = e
          /\ waiting' \in {NoEvent, e} /\ read' = read /\ history'.accepted = history.accepted
          /\ \A c \in Conns : c # k => link'[c] = link[c] /\ sent'[c] = sent[c]
          /\ e.kind = "ACCEPT" => e = first(k) /\ link[k] = "new" /\ sent' = sent
          /\ e.kind = "RECV" => sent'[k] = sent[k] + 1
          /\ e.kind # "ACCEPT" => link[k] = "up"
          /\ e.kind # "RECV" => sent' = sent
    BY <2>1, LwipMoves DEF first
  <2>3. ASSUME NEW c \in Conns, link'[c] # "new"
        PROVE  c \in history'.accepted \/ Here(first(c))'
    <3>1. CASE link[c] # "new"
      BY <1>1, <1>2, <2>2, <3>1
    <3>2. CASE link[c] = "new"
      <4>1. c = k /\ e.kind = "ACCEPT"
        BY <2>2, <2>3, <3>2
      <4> QED
        BY <2>2, <4>1
    <3> QED
      BY <3>1, <3>2
  <2>4. ASSUME waiting' # NoEvent, waiting'.kind = "ACCEPT", NEW d \in Events, Here(d)', ToClient(d)
        PROVE  d.conn # waiting'.conn
    <3>1. waiting' = e /\ e.conn = k /\ link[k] = "new"
      BY <2>2, <2>4
    <3>2. Here(d)
      BY <2>2, <2>4, <3>1 DEF ToClient
    <3> QED
      BY <1>0, <2>4, <3>1, <3>2 DEF Sound
  <2>5. \A c \in Conns : read'[c] <= sent'[c]
    BY <1>0, <2>2 DEF Accepted
  <2> QED
    BY <2>3, <2>4, <2>5 DEF Accepted, first, ToClient
<1>4. CASE Resume
  <2>1. /\ waiting' = NoEvent /\ UNCHANGED <<service, link, sent, read>>
        /\ history'.accepted = history.accepted
    BY <1>0, <1>4, OverlappedIs DEF Resume, TypeOK, Histories
  <2>2. \A d \in Events : Here(d)' <=> Here(d)
    <3>1. \A d \in Events : Here(d)' <=> \/ \E i \in Places : queue[i] = d
                                         \/ service.held = d \/ d = waiting
      BY <1>0, <1>4, HereEnters DEF Resume, TypeOK
    <3> QED
      BY <3>1 DEF Here
  <2> QED
    BY <1>1, <1>2, <2>1, <2>2 DEF Accepted, first, ToClient
<1>5. CASE Service
  <2>1. /\ waiting' = waiting /\ sent' = sent /\ (ServeRecv \/ read' = read)
        /\ \/ history'.accepted = history.accepted
           \/ ServeAccept /\ history'.accepted = history.accepted \cup {Head(queue).conn}
        /\ \A k \in Conns : link'[k] # "new" => link[k] # "new"
        /\ \A d \in Events : Here(d) => \/ Here(d)'
                                        \/ service.at = "idle" /\ queue # <<>> /\ d = Head(queue)
                                        \/ service.at = "sweep" /\ d.arg = service.arg
        /\ \A d \in Events : Here(d)' /\ d.kind # "CLEAR" => Here(d)
    BY <1>5, ServiceMoves
  <2>2. ASSUME NEW c \in Conns, link'[c] # "new"
        PROVE  c \in history'.accepted \/ Here(first(c))'
    <3>1. CASE c \in history.accepted
      BY <2>1, <3>1
    <3>2. CASE Here(first(c)) /\ ~ Here(first(c))'
      <4>1. service.at = "idle" /\ queue # <<>> /\ first(c) = Head(queue)
        BY <1>0, <1>1, <2>1, <3>2, TcpAssumption DEF Serving
      <4>2. ServeAccept
        BY <1>1, <1>5, <4>1 DEF Service, ServeRecv, ServeFin, ServeError, ServeClear, Serves,
                                Handle, Recved, Finish, Close, Closed, SweepTake, SweepPut
      <4>3. c \in history'.accepted
        <5>1. history'.accepted = history.accepted \cup {Head(queue).conn}
          BY <1>0, <4>2 DEF ServeAccept, TypeOK
        <5> QED
          BY <1>1, <4>1, <5>1
      <4> QED
        BY <4>3
    <3> QED
      BY <1>2, <2>1, <2>2, <3>1, <3>2
  <2>3. \A c \in Conns : read'[c] <= sent'[c]
    <3>1. CASE ServeRecv
      <4> DEFINE e == Head(queue)
      <4>1. e.kind = "RECV" /\ e \in Events /\ Here(e)
        BY <3>1, ServeMoves DEF ServeRecv, Serves
      <4>2. e.conn \in Conns /\ e.n \in 1 .. sent[e.conn]
        BY <1>0, <4>1 DEF Sound, Events
      <4>3. read' = read \/ read' = [read EXCEPT ![e.conn] = e.n]
        BY <3>1 DEF ServeRecv
      <4> HIDE DEF e
      <4> QED
        BY <1>0, <2>1, <4>2, <4>3 DEF Accepted
    <3> QED
      BY <2>1, <3>1 DEF Accepted
  <2>4. ASSUME waiting' # NoEvent, waiting'.kind = "ACCEPT", NEW d \in Events, Here(d)', ToClient(d)
        PROVE  d.conn # waiting'.conn
    BY <2>1, <2>4 DEF Accepted, ToClient
  <2> QED
    BY <2>2, <2>3, <2>4 DEF Accepted, first, ToClient
<1>6. CASE UNCHANGED vars
  BY <1>6 DEF vars, Accepted, Here, Places, ToClient
<1> QED
  BY <1>3, <1>4, <1>5, <1>6 DEF Next

LEMMA ClearsItselfStep == TcpInv /\ ClearsItself /\ [Next]_vars => ClearsItself'
<1> SUFFICES ASSUME TcpInv, ClearsItself, [Next]_vars,
                    NEW a \in Objects, Alone(a)', Clearing(a)'
             PROVE  service'.at = "closing" /\ service'.arg = a
  BY DEF ClearsItself
<1>0. history \in Histories /\ TypeOK /\ Distinct /\ Held /\ ClearFirst /\ NoConn \notin Conns
  BY TcpAssumption DEF TcpInv, TypeOK, Histories
<1>1. CASE Lwip
  <2>1. PICK k \in Conns :
          (\E b \in Objects : Accept(k, b)) \/ Receive(k) \/ PeerCloses(k) \/ Reset(k)
    BY <1>1 DEF Lwip
  <2>2. /\ \A b : Clearing(b)' <=> Clearing(b)
        /\ service' = service
        /\ \A b \in Objects : Alone(b)' => Alone(b) \/ ~ Clearing(b)
    BY <2>1, LwipMoves
  <2> QED
    BY <2>2 DEF ClearsItself
<1>2. CASE Resume
  <2>1. /\ service' = service /\ object' = object /\ history'.reused = history.reused
        /\ history'.leaked = history.leaked
    BY <1>0, <1>2, OverlappedIs DEF Resume
  <2>2. \A b : Clearing(b)' <=> Clearing(b)
    BY <1>0, <1>2, PlacesEnters DEF Resume, TypeOK, Held, Distinct
  <2> QED
    BY <2>1, <2>2 DEF ClearsItself, Alone
<1>3. CASE Service
  <2>1. /\ \A b \in Objects : object'[b] \in Conns => object'[b] = object[b]
        /\ \A b \in Objects : Clearing(b)' /\ object'[b] \in Conns \ history'.leaked =>
             Clearing(b) \/ (service'.at = "closing" /\ service'.arg = b)
        /\ service.at = "closing" => object'[service.arg] = NoConn
        /\ history'.reused = history.reused /\ history.leaked \subseteq history'.leaked
    BY <1>3, ServiceMoves
  <2>2. Alone(a) /\ object'[a] \in Conns \ history'.leaked
    BY <2>1 DEF Alone
  <2> QED
    BY <1>0, <2>1, <2>2 DEF ClearsItself
<1>4. CASE UNCHANGED vars
  BY <1>4 DEF vars, ClearsItself, Alone, Clearing, Places
<1> QED
  BY <1>1, <1>2, <1>3, <1>4 DEF Next

\* When an event for a client is served, its ACCEPT has been.
LEMMA AcceptServed ==
  ASSUME TcpInv, Lined, Accepted, service.at = "idle", queue # <<>>, queue' = Tail(queue),
         waiting' = waiting, service'.held = NoEvent, service'.at # "sweep", ToClient(Head(queue))
  PROVE  Head(queue).conn \in history.accepted
<1> DEFINE e == Head(queue)
           k == e.conn
           accept == Event("ACCEPT", Server, k, 0)
<1>0. TypeOK /\ Distinct /\ Held /\ ClearFirst /\ \A d \in Events : Here(d) => Sound(d)
  BY DEF TcpInv
<1>1. e = queue[1] /\ e \in Events /\ Here(e) /\ service.held = NoEvent
  BY <1>0, Served DEF FirstWent, Held
<1>2. \A i \in Places : i # 1 => MayPrecede(e, queue[i])
  BY <1>0, <1>1, LinedServed
<1>3. k \in Conns /\ link[k] # "new"
  BY <1>0, <1>1 DEF Sound, Events
<1>4. accept \in Events /\ accept.kind = "ACCEPT" /\ accept.conn = k
  BY <1>3, TcpAssumption DEF Event, Events
<1> HIDE DEF accept
<1>5. \A i \in Places : queue[i] # accept
  BY <1>1, <1>2, <1>4 DEF MayPrecede, Urgent, ToClient
<1>6. waiting # accept
  BY <1>1, <1>4, NoEventAssumption DEF Accepted
<1>7. ~ Here(accept)
  BY <1>1, <1>4, <1>5, <1>6, NoEventAssumption DEF Here
<1> QED
  BY <1>3, <1>7 DEF Accepted, accept

\* A client whose end is being served has its handlers.
NoneLeaked ==
  /\ history.leaked = {}
  /\ service.at = "finish" => service.conn \in history.accepted

LEMMA NoneLeakedStep ==
  ASSUME TcpInv, Accepted, NoneLeaked, Service => LineInv, [Next]_vars
  PROVE  NoneLeaked'
<1>0. history \in Histories /\ Serving
  BY DEF TcpInv, TypeOK, Histories
<1>1. CASE Lwip \/ Resume
  <2>1. service' = service
    BY <1>1 DEF Lwip, Accept, Receive, PeerCloses, Reset, Resume
  <2>2. history'.leaked = history.leaked /\ history'.accepted = history.accepted
    <3>1. ASSUME NEW k \in Conns, NEW a \in Objects, Accept(k, a)
          PROVE  history'.leaked = history.leaked /\ history'.accepted = history.accepted
      <4> DEFINE reused == IF \/ \E i \in DOMAIN queue : queue[i].arg = a
                              \/ service.at = "sweep" /\ service.arg = a
                           THEN Overlapped.reused \cup {k} ELSE Overlapped.reused
      <4>1. Overlapped \in Histories /\ history' = [Overlapped EXCEPT !.reused = reused]
        BY <1>0, <3>1, OverlappedIs DEF Accept
      <4> HIDE DEF reused
      <4> QED
        BY <1>0, <4>1, OverlappedIs DEF Histories
    <3> QED
      BY <1>0, <1>1, <3>1, OverlappedIs DEF Lwip, Receive, PeerCloses, Reset, Resume
  <2> QED
    BY <2>1, <2>2 DEF NoneLeaked
<1>2. CASE ServeFin \/ ServeError
  <2> DEFINE e == Head(queue)
  <2>1. ToClient(e) /\ service'.at # "sweep"
    BY <1>2 DEF ServeFin, ServeError, Serves, ToClient, At
  <2>2. e.conn \in history.accepted
    <3>1. LineInv
      BY <1>2 DEF Service
    <3> QED
      BY <1>2, <2>1, <3>1, ServeMoves, AcceptServed DEF LineInv
  <2>3. object[e.arg] = e.conn
    BY <1>2, ServeFinKeeps, ServeErrorKeeps
  <2>4. history'.leaked = {} /\ history'.accepted = history.accepted
    BY <1>0, <1>2, <2>2, <2>3, DiscardedIs DEF ServeFin, ServeError, NoneLeaked, Histories
  <2>5. service'.at = "finish" => service'.conn = e.conn
    BY <1>2 DEF ServeFin, ServeError, Serves, At
  <2> QED
    BY <2>2, <2>4, <2>5 DEF NoneLeaked
<1>3. CASE Finish
  <2>1. object[service.arg] \in history.accepted /\ service'.at # "finish"
    BY <1>0, <1>3 DEF Finish, Serving, NoneLeaked, Idle, At
  <2>2. history'.leaked = {}
    BY <1>0, <1>3, <2>1, DiscardedIs DEF Finish, NoneLeaked, Histories
  <2> QED
    BY <2>1, <2>2 DEF NoneLeaked
<1>4. CASE Service /\ ~ (ServeFin \/ ServeError \/ Finish)
  <2>1. history'.leaked = history.leaked /\ history.accepted \subseteq history'.accepted
    BY <1>0, <1>4 DEF Service, ServeAccept, ServeRecv, ServeClear, Handle, Recved, Close, Closed,
                      SweepTake, SweepPut, Histories
  <2>2. service'.at = "finish" => service' = service
    <3>1. service \in Services
      BY DEF TcpInv, TypeOK, Services
    <3>2. \/ service' = service \/ service'.at \in {"idle", "data", "sweep"}
          \/ \E at \in {"ack", "release", "close", "closing"} :
               service' = [service EXCEPT !.at = at]
      <4>1. CASE ServeAccept \/ ServeRecv \/ ServeClear
        BY <4>1 DEF ServeAccept, ServeRecv, ServeClear, At
      <4>2. CASE Handle \/ Recved \/ Close \/ Closed
        BY <4>2 DEF Handle, Recved, Close, Closed, Idle, At
      <4>3. CASE SweepTake
        BY <3>1, <4>3 DEF SweepTake, Idle, At, Services
      <4>4. CASE SweepPut
        BY <3>1, <4>4 DEF SweepPut, Services
      <4> QED
        BY <1>4, <4>1, <4>2, <4>3, <4>4 DEF Service
    <3> QED
      BY <3>1, <3>2 DEF Services
  <2> QED
    BY <2>1, <2>2 DEF NoneLeaked
<1>5. CASE UNCHANGED vars
  BY <1>5 DEF vars, NoneLeaked
<1> QED
  BY <1>1, <1>2, <1>3, <1>4, <1>5 DEF Next, Service

\* The packet served is its connection's next, and its client has its handlers.
LEMMA NextPacket ==
  ASSUME TcpInv, LineInv, Accepted, Numbered, ServeRecv
  PROVE  LET e == Head(queue)
         IN  /\ e \in Events /\ e.kind = "RECV" /\ Here(e) /\ e.arg \in Objects
             /\ object[e.arg] = e.conn
             /\ read' = [read EXCEPT ![e.conn] = e.n]
             /\ \A d \in Events : Here(d) /\ d.kind = "RECV" /\ d.conn = e.conn /\ d # e => e.n < d.n
             /\ Alone(e.arg) => e.n = read[e.conn] + 1
<1> DEFINE e == Head(queue)
           k == e.conn
           next == Event("RECV", e.arg, k, read[k] + 1)
<1>0. /\ TypeOK /\ Distinct /\ Held /\ Lined /\ PacketsMeet /\ MaxData \in Nat
      /\ sent \in [Conns -> 0 .. MaxData] /\ read \in [Conns -> 0 .. MaxData]
      /\ \A d \in Events : Here(d) => Sound(d)
  BY TcpAssumption DEF TcpInv, LineInv, TypeOK
<1>1. /\ service.at = "idle" /\ queue # <<>> /\ queue' = Tail(queue) /\ waiting' = waiting
      /\ service'.held = NoEvent /\ e = queue[1] /\ e \in Events /\ e.kind = "RECV" /\ Here(e)
      /\ service'.at # "sweep" /\ service.held = NoEvent
  <2>1. service.at = "idle" /\ e.kind = "RECV" /\ service'.at # "sweep"
    BY DEF ServeRecv, Serves, At
  <2> QED
    BY <1>0, <2>1, ServeMoves DEF Held
<1>2. /\ \A i \in Places : i # 1 => MayPrecede(e, queue[i])
      /\ waiting # NoEvent /\ ToClient(waiting) => MayPrecede(e, waiting)
  BY <1>0, <1>1, LinedServed
<1>3. /\ e.arg \in Objects /\ k \in Conns /\ e.n \in 1 .. sent[k] /\ link[k] # "new"
  BY <1>0, <1>1 DEF Sound, ToClient, Events
<1>4. object[e.arg] = k
  <2>1. ~ Clearing(e.arg)
    BY <1>1, NothingToClear
  <2> QED
    BY <1>0, <1>1, <2>1 DEF PacketsMeet
<1>7. k \in history.accepted
  BY <1>0, <1>1, AcceptServed DEF ToClient
<1>8. read' = [read EXCEPT ![k] = e.n]
  BY <1>4, <1>7 DEF ServeRecv, Stray
<1>9. ASSUME NEW d \in Events, Here(d), d.kind = "RECV", d.conn = k, d # e
      PROVE  e.n < d.n
  <2>1. MayPrecede(e, d)
    BY <1>1, <1>2, <1>9, NoEventAssumption DEF Here, ToClient
  <2> QED
    BY <1>1, <1>9, <2>1 DEF MayPrecede, ToClient
<1>10. ASSUME Alone(e.arg) PROVE e.n = read[k] + 1
  <2>1. read[k] < e.n
    BY <1>1, <1>3, <1>4, <1>10 DEF Numbered
  <2>2. read[k] + 1 \in read[k] + 1 .. sent[k] /\ read[k] + 1 \in 0 .. MaxData
    BY <1>0, <1>3, <2>1
  <2>3. Here(next)
    BY <1>3, <1>4, <1>10, <2>2 DEF Numbered
  <2>4. next \in Events /\ next.kind = "RECV" /\ next.conn = k /\ next.n = read[k] + 1
    BY <1>3, <2>2 DEF Event, Events
  <2> HIDE DEF next
  <2>5. next = e \/ e.n < next.n
    BY <1>9, <2>3, <2>4
  <2> QED
    BY <1>0, <1>3, <2>1, <2>4, <2>5
<1> QED
  BY <1>1, <1>3, <1>4, <1>8, <1>9, <1>10

LEMMA NumberedStep ==
  ASSUME TcpInv, Accepted, ClearsItself, Numbered, ServeRecv => LineInv, [Next]_vars
  PROVE  Numbered'
<1> DEFINE recv(a, n) == Event("RECV", a, object[a], n)
<1>0. /\ Standing /\ Serving /\ Held /\ TypeOK /\ \A d \in Events : Here(d) => Sound(d)
      /\ sent \in [Conns -> 0 .. MaxData] /\ read \in [Conns -> 0 .. MaxData] /\ MaxData \in Nat
      /\ history \in Histories
  BY TcpAssumption DEF TcpInv, TypeOK, Histories
<1>1. ASSUME NEW a \in Objects, Alone(a), NEW n \in read[object[a]] + 1 .. sent[object[a]]
      PROVE  /\ recv(a, n) \in Events /\ recv(a, n).kind = "RECV" /\ recv(a, n).arg = a
             /\ recv(a, n).conn = object[a] /\ recv(a, n).n = n /\ Here(recv(a, n))
  <2>1. n \in 0 .. MaxData /\ object[a] \in Conns
    BY <1>0, <1>1 DEF Alone
  <2> QED
    BY <1>1, <2>1 DEF Event, Events, Numbered
<1>2. CASE Lwip
  <2>1. PICK k \in Conns :
          (\E b \in Objects : Accept(k, b)) \/ Receive(k) \/ PeerCloses(k) \/ Reset(k)
    BY <1>2 DEF Lwip
  <2>2. PICK e \in Events :
           /\ e.conn = k /\ read' = read
           /\ \A d \in Events : Here(d)' <=> Here(d) \/ d = e
           /\ \A c \in Conns : c # k => sent'[c] = sent[c]
           /\ e.kind = "ACCEPT" => link[k] = "new" /\ sent' = sent
           /\ e.kind = "RECV" => /\ e = Event("RECV", e.arg, k, sent[k] + 1)
                                 /\ e.arg \in Objects /\ object[e.arg] = k
                                 /\ e.n = sent[k] + 1 /\ sent'[k] = sent[k] + 1
           /\ e.kind # "RECV" => sent' = sent
           /\ \A a \in Objects : Alone(a)' =>
                \/ Alone(a) /\ object'[a] = object[a]
                \/ e.kind = "ACCEPT" /\ object'[a] = k /\ ~ Clearing(a)
    BY <2>1, LwipMoves
  <2> SUFFICES ASSUME NEW a \in Objects, Alone(a)'
               PROVE  /\ \A n \in read'[object'[a]] + 1 .. sent'[object'[a]] :
                           Here(Event("RECV", a, object[a], n))'
                      /\ \A d \in Events : Here(d)' /\ d.kind = "RECV" /\ d.conn = object'[a]
                                           => read'[object'[a]] < d.n
    BY DEF Numbered
  <2>3. CASE Alone(a) /\ object'[a] = object[a]
    <3>1. object[a] \in Conns
      BY <2>3 DEF Alone
    <3>2. ASSUME NEW n \in read[object[a]] + 1 .. sent'[object[a]]
          PROVE  Here(Event("RECV", a, object[a], n))'
      <4>1. CASE n \in read[object[a]] + 1 .. sent[object[a]]
        BY <1>1, <2>2, <2>3, <4>1
      <4>2. CASE n \notin read[object[a]] + 1 .. sent[object[a]]
        <5>1. e.kind = "RECV" /\ object[a] = k
          BY <2>2, <3>1, <3>2, <4>2
        <5>2. e.arg = a /\ n = sent[k] + 1
          BY <1>0, <2>2, <3>1, <3>2, <4>2, <5>1 DEF Standing
        <5>3. e = Event("RECV", a, object[a], n)
          BY <2>2, <5>1, <5>2
        <5> QED
          BY <2>2, <2>3, <5>3
      <4> QED
        BY <4>1, <4>2
    <3>3. ASSUME NEW d \in Events, Here(d)', d.kind = "RECV", d.conn = object[a]
          PROVE  read[object[a]] < d.n
      <4>1. CASE Here(d)
        BY <2>3, <3>3, <4>1 DEF Numbered
      <4>2. CASE d = e
        BY <1>0, <2>2, <3>1, <3>3, <4>2 DEF Accepted
      <4> QED
        BY <2>2, <3>3, <4>1, <4>2
    <3> QED
      BY <2>2, <2>3, <3>2, <3>3
  <2>4. CASE e.kind = "ACCEPT" /\ object'[a] = k
    <3>1. link[k] = "new" /\ sent'[k] = 0 /\ read'[k] = 0
      BY <1>0, <2>2, <2>4 DEF Standing
    <3>2. ASSUME NEW d \in Events, Here(d)', d.kind = "RECV" PROVE d.conn # k
      BY <1>0, <2>2, <2>4, <3>1, <3>2 DEF Sound, ToClient
    <3> QED
      BY <2>4, <3>1, <3>2
  <2> QED
    BY <2>2, <2>3, <2>4
<1>3. ASSUME \A a \in Objects : Alone(a)' => Alone(a) /\ object'[a] = object[a],
             sent' = sent, read' = read,
             \A d \in Events : Here(d)' /\ d.kind = "RECV" => Here(d),
             \A d \in Events, a \in Objects :
               Here(d) /\ d.kind = "RECV" /\ d.arg = a /\ Alone(a)' => Here(d)'
      PROVE  Numbered'
  <2> SUFFICES ASSUME NEW a \in Objects, Alone(a)'
               PROVE  /\ \A n \in read[object[a]] + 1 .. sent[object[a]] : Here(recv(a, n))'
                      /\ \A d \in Events : Here(d)' /\ d.kind = "RECV" /\ d.conn = object[a]
                                           => read[object[a]] < d.n
    BY <1>3 DEF Numbered
  <2>1. Alone(a)
    BY <1>3
  <2>2. ASSUME NEW n \in read[object[a]] + 1 .. sent[object[a]] PROVE Here(recv(a, n))'
    BY <1>1, <1>3, <2>1
  <2>3. ASSUME NEW d \in Events, Here(d)', d.kind = "RECV", d.conn = object[a]
        PROVE  read[object[a]] < d.n
    BY <1>3, <2>1, <2>3 DEF Numbered
  <2> QED
    BY <2>2, <2>3
<1>4. CASE Resume
  <2>1. /\ UNCHANGED <<service, object, sent, read>> /\ history'.reused = history.reused
        /\ history'.leaked = history.leaked
    BY <1>0, <1>4, OverlappedIs DEF Resume
  <2>2. \A d \in Events : Here(d)' <=> Here(d)
    <3>1. \A d \in Events : Here(d)' <=> \/ \E i \in Places : queue[i] = d
                                         \/ service.held = d \/ d = waiting
      BY <1>0, <1>4, HereEnters DEF Resume, TypeOK
    <3> QED
      BY <3>1 DEF Here
  <2>3. \A a \in Objects : Alone(a)' => Alone(a) /\ object'[a] = object[a]
    BY <2>1 DEF Alone
  <2> QED
    BY <1>3, <2>1, <2>2, <2>3
<1>5. CASE Service
  <2>1. /\ \A d \in Events : Here(d)' /\ d.kind # "CLEAR" => Here(d)
        /\ \A d \in Events : Here(d) => \/ Here(d)'
                                        \/ service.at = "idle" /\ queue # <<>> /\ d = Head(queue)
                                        \/ service.at = "sweep" /\ d.arg = service.arg
        /\ \A a \in Objects : object'[a] \in Conns => object'[a] = object[a]
        /\ sent' = sent /\ (ServeRecv \/ read' = read)
        /\ history'.reused = history.reused /\ history.leaked \subseteq history'.leaked
    BY <1>5, ServiceMoves
  <2>2. \A a \in Objects : Alone(a)' => Alone(a) /\ object'[a] = object[a]
    BY <2>1 DEF Alone
  <2>3. \A a \in Objects : Alone(a) => ~ (service.at = "sweep" /\ service.arg = a)
    BY DEF ClearsItself, Clearing
  <2>4. CASE ~ ServeRecv
    <3>1. ASSUME NEW d \in Events, d.kind = "RECV", service.at = "idle", queue # <<>>
          PROVE  d # Head(queue)
      BY <1>5, <2>4, <3>1 DEF Service, ServeAccept, ServeFin, ServeError, ServeClear, Serves,
                              Handle, Recved, Finish, Close, Closed, SweepTake, SweepPut
    <3>2. \A d \in Events, a \in Objects :
            Here(d) /\ d.kind = "RECV" /\ d.arg = a /\ Alone(a)' => Here(d)'
      BY <2>1, <2>2, <2>3, <3>1
    <3> QED
      BY <1>3, <2>1, <2>2, <2>4, <3>2
  <2>5. CASE ServeRecv
    <3> DEFINE e == Head(queue)
    <3>1. /\ e \in Events /\ e.kind = "RECV" /\ Here(e) /\ e.arg \in Objects
          /\ object[e.arg] = e.conn
          /\ read' = [read EXCEPT ![e.conn] = e.n]
          /\ \A d \in Events :
               Here(d) /\ d.kind = "RECV" /\ d.conn = e.conn /\ d # e => e.n < d.n
          /\ Alone(e.arg) => e.n = read[e.conn] + 1
      BY <2>5, NextPacket
    <3>2. /\ \A d \in Events : Here(d)' <=> Here(d) /\ d # e
          /\ object' = object
      BY <2>5, ServeMoves DEF ServeRecv
    <3> HIDE DEF e
    <3> SUFFICES ASSUME NEW a \in Objects, Alone(a)
                 PROVE  /\ \A n \in read'[object[a]] + 1 .. sent[object[a]] : Here(recv(a, n))'
                        /\ \A d \in Events : Here(d)' /\ d.kind = "RECV" /\ d.conn = object[a]
                                             => read'[object[a]] < d.n
      BY <2>1, <2>2, <3>2 DEF Numbered
    <3>3. object[a] \in Conns /\ e.conn \in Conns /\ e.n \in Nat
      BY <3>1 DEF Alone, Events
    <3>4. CASE a = e.arg
      <4>1. object[a] = e.conn /\ read'[e.conn] = e.n /\ e.n = read[e.conn] + 1
        BY <1>0, <3>1, <3>3, <3>4
      <4>2. ASSUME NEW n \in e.n + 1 .. sent[e.conn] PROVE Here(recv(a, n))'
        <5>1. n \in read[e.conn] + 1 .. sent[e.conn] /\ n # e.n
          BY <1>0, <3>3, <4>1, <4>2
        <5>2. recv(a, n) \in Events /\ recv(a, n).n = n /\ Here(recv(a, n))
          BY <1>1, <4>1, <5>1
        <5> QED
          BY <3>2, <5>1, <5>2
      <4> QED
        BY <3>1, <3>2, <4>1, <4>2
    <3>5. CASE a # e.arg
      <4>1. object[a] # e.conn /\ read'[object[a]] = read[object[a]]
        BY <1>0, <3>1, <3>3, <3>5 DEF Standing
      <4>2. ASSUME NEW n \in read[object[a]] + 1 .. sent[object[a]] PROVE Here(recv(a, n))'
        <5>1. /\ recv(a, n) \in Events /\ recv(a, n).arg = a /\ Here(recv(a, n))
          BY <1>1
        <5> QED
          BY <3>2, <3>5, <5>1
      <4> QED
        BY <3>2, <4>1, <4>2 DEF Numbered
    <3> QED
      BY <3>4, <3>5
  <2> QED
    BY <2>4, <2>5
<1>6. CASE UNCHANGED vars
  BY <1>6 DEF vars, Numbered, Alone, Here, Places
<1> QED
  BY <1>2, <1>4, <1>5, <1>6 DEF Next

-----------------------------------------------------------------------------
DeliverInv ==
  /\ TcpInv /\ LineKept /\ Accepted /\ ClearsItself
  /\ ~ history.overlap => Numbered /\ NoneLeaked

LEMMA DeliverInit == Init => DeliverInv
<1> SUFFICES ASSUME Init PROVE DeliverInv
  OBVIOUS
<1>1. /\ object = [a \in Objects |-> NoConn] /\ link = [k \in Conns |-> "new"]
      /\ waiting = NoEvent
      /\ sent = [k \in Conns |-> 0] /\ read = [k \in Conns |-> 0]
  BY DEF Init
<1>2. \A a \in Objects : ~ Alone(a)
  BY <1>1, TcpAssumption DEF Alone
<1>3. Accepted
  BY <1>1 DEF Accepted
<1>4. NoneLeaked
  BY DEF Init, Idle, At, NoneLeaked
<1> QED
  BY <1>2, <1>3, <1>4, TcpInit, LineInit DEF DeliverInv, ClearsItself, Numbered

LEMMA DeliverStep == DeliverInv /\ [Next]_vars => DeliverInv'
<1> SUFFICES ASSUME DeliverInv, [Next]_vars PROVE DeliverInv'
  OBVIOUS
<1>1. TcpInv' /\ LineKept' /\ Accepted' /\ ClearsItself'
  BY TcpStep, LineStep, AcceptedStep, ClearsItselfStep DEF DeliverInv
<1>2. ASSUME ~ history'.overlap PROVE ~ history.overlap
  <2>0. history \in Histories
    BY DEF DeliverInv, TcpInv, TypeOK, Histories
  <2>1. CASE Lwip
    <3>1. PICK k \in Conns :
            (\E a \in Objects : Accept(k, a)) \/ Receive(k) \/ PeerCloses(k) \/ Reset(k)
      BY <2>1 DEF Lwip
    <3>2. ASSUME NEW a \in Objects, Accept(k, a) PROVE ~ history.overlap
      <4> DEFINE reused == IF \/ \E i \in DOMAIN queue : queue[i].arg = a
                              \/ service.at = "sweep" /\ service.arg = a
                           THEN Overlapped.reused \cup {k} ELSE Overlapped.reused
      <4>1. Overlapped \in Histories /\ history' = [Overlapped EXCEPT !.reused = reused]
        BY <2>0, <3>2, OverlappedIs DEF Accept
      <4> HIDE DEF reused
      <4>2. ~ Overlapped.overlap
        BY <1>2, <4>1 DEF Histories
      <4> QED
        BY <2>0, <4>2, OverlappedIs
    <3> QED
      BY <1>2, <2>0, <3>1, <3>2, OverlappedIs DEF Receive, PeerCloses, Reset
  <2>2. CASE Resume
    BY <1>2, <2>0, <2>2, OverlappedIs DEF Resume
  <2>3. CASE Service
    BY <1>2, <2>0, <2>3 DEF Service, ServeAccept, ServeRecv, ServeFin, ServeError, ServeClear,
                            Handle, Recved, Finish, Close, Closed, SweepTake, SweepPut, Histories
  <2>4. CASE UNCHANGED vars
    BY <1>2, <2>4 DEF vars
  <2> QED
    BY <2>1, <2>2, <2>3, <2>4 DEF Next
<1>3. ASSUME ~ history'.overlap PROVE Numbered' /\ NoneLeaked'
  BY <1>2, <1>3, NumberedStep, NoneLeakedStep DEF DeliverInv, LineKept
<1> QED
  BY <1>1, <1>3 DEF DeliverInv

\* Between two sweeps the line holds all events, in their order.
LEMMA LineIs ==
  ASSUME TypeOK, Held, Lined, service.at # "sweep"
  PROVE  /\ Line \in Seq(Events)
         /\ \A d \in Events : Here(d) <=> \E i \in DOMAIN Line : Line[i] = d
         /\ \A i, j \in DOMAIN Line : i < j /\ ToClient(Line[j]) => MayPrecede(Line[i], Line[j])
<1>1. InOrder /\ service.held = NoEvent /\ queue \in Seq(Events) /\ DOMAIN queue = Places
  BY LinedBetween DEF Held, TypeOK, Places
<1>2. CASE waiting = NoEvent
  BY <1>1, <1>2, NoEventAssumption DEF Line, Here, InOrder
<1>3. CASE waiting # NoEvent
  <2> DEFINE l == Len(queue) + 1
  <2>1. Line = Append(queue, waiting) /\ waiting \in Events
    BY <1>3 DEF Line, TypeOK
  <2>2. /\ Line \in Seq(Events) /\ Len(Line) = l /\ Line[l] = waiting
        /\ \A i \in Places : Line[i] = queue[i]
    BY <1>1, <2>1, Appended DEF Places
  <2>3. /\ DOMAIN Line = 1 .. l /\ l \in DOMAIN Line
        /\ \A i \in Places : i \in DOMAIN Line
        /\ \A i \in DOMAIN Line : i = l \/ i \in Places
        /\ \A i \in DOMAIN Line : ~ l < i
    BY <1>1, <2>2 DEF Places
  <2> HIDE DEF l
  <2>4. \A d \in Events : Here(d) <=> \E i \in DOMAIN Line : Line[i] = d
    BY <1>1, <2>2, <2>3, NoEventAssumption DEF Here
  <2>5. ASSUME NEW i \in DOMAIN Line, NEW j \in DOMAIN Line, i < j, ToClient(Line[j])
        PROVE  MayPrecede(Line[i], Line[j])
    <3>1. i \in Places
      BY <2>3, <2>5
    <3> QED
      BY <1>1, <1>3, <2>2, <2>3, <2>5, <3>1 DEF InOrder
  <2> QED
    BY <2>2, <2>4, <2>5
<1> QED
  BY <1>2, <1>3

LEMMA Delivered == DeliverInv => DeliversAll
<1> SUFFICES ASSUME DeliverInv, NEW a \in Objects, object[a] # NoConn, ~ history.overlap,
                    object[a] \notin history.reused, service.at # "sweep"
             PROVE  /\ {Line[i].n : i \in Packets(object[a])} = read[object[a]] + 1 .. sent[object[a]]
                    /\ \A i, j \in Packets(object[a]) : i < j => Line[i].n < Line[j].n
  BY DEF DeliversAll
<1> DEFINE k == object[a]
<1>0. /\ TypeOK /\ Held /\ Lined /\ Numbered /\ MaxData \in Nat
      /\ \A d \in Events : Here(d) => Sound(d)
      /\ sent \in [Conns -> 0 .. MaxData] /\ read \in [Conns -> 0 .. MaxData]
      /\ k \in Conns /\ Alone(a)
  BY TcpAssumption DEF DeliverInv, TcpInv, LineKept, LineInv, TypeOK, Alone, NoneLeaked
<1>1. /\ Line \in Seq(Events)
      /\ \A d \in Events : Here(d) <=> \E i \in DOMAIN Line : Line[i] = d
      /\ \A i, j \in DOMAIN Line : i < j /\ ToClient(Line[j]) => MayPrecede(Line[i], Line[j])
  BY <1>0, LineIs
<1>2. ASSUME NEW i \in Packets(k)
      PROVE  /\ i \in DOMAIN Line /\ Line[i] \in Events /\ Line[i].kind = "RECV"
             /\ Line[i].conn = k /\ Here(Line[i])
  BY <1>1 DEF Packets
<1>3. ASSUME NEW i \in Packets(k) PROVE Line[i].n \in read[k] + 1 .. sent[k]
  <2>1. Line[i].n \in 1 .. sent[k] /\ read[k] < Line[i].n
    BY <1>0, <1>2 DEF Sound, Numbered
  <2> QED
    BY <1>0, <2>1
<1>4. ASSUME NEW n \in read[k] + 1 .. sent[k] PROVE \E i \in Packets(k) : Line[i].n = n
  <2> DEFINE e == Event("RECV", a, k, n)
  <2>1. n \in 0 .. MaxData
    BY <1>0
  <2>2. e \in Events /\ e.kind = "RECV" /\ e.conn = k /\ e.n = n
    BY <1>0, <2>1 DEF Event, Events
  <2>3. Here(e)
    BY <1>0 DEF Numbered
  <2> HIDE DEF e
  <2>4. PICK i \in DOMAIN Line : Line[i] = e
    BY <1>1, <2>2, <2>3
  <2> QED
    BY <2>2, <2>4 DEF Packets
<1>5. {Line[i].n : i \in Packets(k)} = read[k] + 1 .. sent[k]
  BY <1>3, <1>4
<1>6. ASSUME NEW i \in Packets(k), NEW j \in Packets(k), i < j PROVE Line[i].n < Line[j].n
  <2>1. MayPrecede(Line[i], Line[j])
    BY <1>1, <1>2, <1>6 DEF ToClient
  <2> QED
    BY <1>2, <2>1 DEF MayPrecede, ToClient
<1> QED
  BY <1>5, <1>6

\* What comes for a client is served to it, once and in order: the queue holds exactly the
\* packets it has not seen, as they came, however the callbacks, the handlers that close and
\* CLEAR interleave.  The exceptions are the code's two: LwIP adding to the queue during a
\* sweep, and a client at the address of a deleted one (AsyncTCP.cpp:118, 150).
THEOREM DeliversEveryPacket == Spec => []DeliversAll
BY DeliverInit, DeliverStep, Delivered, PTL DEF Spec

\* The end of a connection finds its client with the handlers that delete it, unless LwIP
\* added to the queue during a sweep: until then ACCEPT is served before all that came for
\* its connection, and no client is leaked (AsyncTCP.cpp:118, 876, 906).
THEOREM LeaksNeedOverlap == Spec => []LeakNeedsOverlap
<1>1. DeliverInv => LeakNeedsOverlap
  BY DEF DeliverInv, NoneLeaked, LeakNeedsOverlap
<1> QED
  BY DeliverInit, DeliverStep, <1>1, PTL DEF Spec

\* _recv runs for the client the packet came for, which has its handlers by then, and the
\* packet is the next one of its connection; each under DeliversAll's exceptions
\* (AsyncTCP.cpp:162, 922, 1329).
THEOREM RecvFindsItsClient ==
  Spec => [][ServeRecv /\ ~ history.overlap =>
               LET e == Head(queue)
               IN  /\ object[e.arg] = e.conn
                   /\ read' = [read EXCEPT ![e.conn] = e.n]
                   /\ e.conn \notin history.reused => e.n = read[e.conn] + 1]_vars
<1> DEFINE e == Head(queue)
           Found == /\ object[e.arg] = e.conn
                    /\ read' = [read EXCEPT ![e.conn] = e.n]
                    /\ e.conn \notin history.reused => e.n = read[e.conn] + 1
<1>1. DeliverInv /\ [Next]_vars => [ServeRecv /\ ~ history.overlap => Found]_vars
  <2> SUFFICES ASSUME DeliverInv, ServeRecv, ~ history.overlap PROVE Found
    OBVIOUS
  <2>1. /\ e \in Events /\ object[e.arg] = e.conn
        /\ read' = [read EXCEPT ![e.conn] = e.n]
        /\ Alone(e.arg) => e.n = read[e.conn] + 1
    BY NextPacket DEF DeliverInv, LineKept
  <2>2. e.conn \in Conns
    BY <2>1 DEF Events
  <2> QED
    BY <2>1, <2>2 DEF Alone, DeliverInv, NoneLeaked
<1> QED
  BY DeliverInit, DeliverStep, <1>1, PTL DEF Spec

=============================================================================
