------------------------------ MODULE AsyncTcp ------------------------------
(***************************************************************************)
(* The event queue between LwIP's thread and the task that serves the TCP  *)
(* connections of the LED sketch (src/libraries/AsyncTCP/src/AsyncTCP.cpp).*)
(*                                                                         *)
(* LwIP's callbacks put events into one queue of fixed length, and wait    *)
(* when it is full.  The service task takes them out and calls the handlers*)
(* of the AsyncClient an event names; handlers close and delete clients.   *)
(* An event names its client by address, and the address of a deleted      *)
(* client may be the next one's.  Before a client goes, CLEAR is put first *)
(* into the queue; serving it takes every event of that address out, by    *)
(* taking each event from the front and putting the others back.           *)
(*                                                                         *)
(* RECV stands for SENT and POLL too: they go the same way, and what their *)
(* handlers ask of LwIP waits for its thread as the acknowledgement of a   *)
(* packet does.                                                            *)
(***************************************************************************)
EXTENDS Integers, Sequences, FiniteSets

CONSTANTS
  Objects,      \* addresses an AsyncClient may have
  Conns,        \* TCP connections there may be
  MaxEvents,    \* length of the queue, 32
  Talkers,      \* connections whose peers send packets: bound of the model
  MaxData,      \* packets a peer sends on a connection: bound of the model
  Server,       \* the address of the AsyncServer
  NoConn, NoEvent

ASSUME TcpAssumption ==
  /\ MaxEvents \in Nat \ {0} /\ MaxData \in Nat /\ Talkers \subseteq Conns
  /\ Server \notin Objects /\ NoConn \notin Conns

\* lwip_event_packet_t
Events ==
  [kind : {"ACCEPT", "RECV", "FIN", "ERROR", "CLEAR"}, arg : Objects \cup {Server},
   conn : Conns, n : 0 .. MaxData]

ASSUME NoEventAssumption == NoEvent \notin Events

VARIABLES
  queue,        \* _async_queue
  waiting,      \* the event LwIP's thread cannot put into the full queue, or NoEvent
  service,      \* what the service task is at
  object,       \* whose AsyncClient lives at an address
  link,         \* the connection: its pcb, and whether its callbacks name the client
  sent, read,   \* packets of a connection that came, and that its handler saw
  history       \* what went wrong, and what may have been the cause

vars == <<queue, waiting, service, object, link, sent, read, history>>

Event(kind, arg, conn, n) == [kind |-> kind, arg |-> arg, conn |-> conn, n |-> n]

\* at: "idle"; "sweep" with the event held between the two ends of the queue and the
\* first one put back; "finish" a client whose peer closed; "data" with a packet in its
\* handler, "ack" when LwIP is told that it was taken; "release", "close" and "closing" a
\* client that its own handler closes.
At(at, arg, conn) ==
  [at |-> at, arg |-> arg, conn |-> conn, held |-> NoEvent, first |-> NoEvent]

Idle == At("idle", Server, NoConn)

Init ==
  /\ queue = <<>> /\ waiting = NoEvent
  /\ service = Idle
  /\ object = [a \in Objects |-> NoConn]
  /\ link = [k \in Conns |-> "new"]
  /\ sent = [k \in Conns |-> 0] /\ read = [k \in Conns |-> 0]
  /\ history = [accepted |-> {}, reused |-> {}, leaked |-> {},
                overlap |-> FALSE, stray |-> FALSE]

Full == Len(queue) >= MaxEvents

\* _prepend_async_event and _send_async_event
Enqueued(e) == IF e.kind \in {"ACCEPT", "CLEAR"} THEN <<e>> \o queue ELSE Append(queue, e)

-----------------------------------------------------------------------------
(* LwIP's thread. *)

Overlapped == [history EXCEPT !.overlap = @ \/ service.at = "sweep"]

\* Mutant: the queue takes one event more.
PutLate(e) ==
  IF Len(queue) > MaxEvents THEN waiting' = e /\ UNCHANGED queue
  ELSE queue' = Enqueued(e) /\ UNCHANGED waiting

Put(e) ==
  IF Full THEN waiting' = e /\ UNCHANGED queue
  ELSE queue' = Enqueued(e) /\ UNCHANGED waiting

\* The address a connection's callbacks carry.
AddressOf(k) == CHOOSE a \in Objects : object[a] = k

\* AsyncServer::_accept, at any free address.
Accept(k, a) ==
  /\ waiting = NoEvent
  /\ link[k] = "new" /\ object[a] = NoConn
  /\ link' = [link EXCEPT ![k] = "up"]
  /\ object' = [object EXCEPT ![a] = k]
  /\ Put(Event("ACCEPT", Server, k, 0))
  /\ history' =
       [Overlapped EXCEPT
          !.reused = IF \/ \E i \in DOMAIN queue : queue[i].arg = a
                        \/ service.at = "sweep" /\ service.arg = a
                     THEN @ \cup {k} ELSE @]
  /\ UNCHANGED <<service, sent, read>>

\* _tcp_recv with data
Receive(k) ==
  /\ waiting = NoEvent
  /\ k \in Talkers /\ link[k] = "up" /\ sent[k] < MaxData
  /\ sent' = [sent EXCEPT ![k] = @ + 1]
  /\ Put(Event("RECV", AddressOf(k), k, sent[k] + 1))
  /\ history' = Overlapped
  /\ UNCHANGED <<service, object, link, read>>

\* _tcp_recv without: the pcb is closed at once, in this thread.
PeerCloses(k) ==
  /\ waiting = NoEvent
  /\ link[k] = "up"
  /\ link' = [link EXCEPT ![k] = "closed"]
  /\ Put(Event("FIN", AddressOf(k), k, 0))
  /\ history' = Overlapped
  /\ UNCHANGED <<service, object, sent, read>>

\* _tcp_error: LwIP has freed the pcb, and the client does not know.
Reset(k) ==
  /\ waiting = NoEvent
  /\ link[k] = "up"
  /\ link' = [link EXCEPT ![k] = "reset"]
  /\ Put(Event("ERROR", AddressOf(k), k, 0))
  /\ history' = Overlapped
  /\ UNCHANGED <<service, object, sent, read>>

Resume ==
  /\ waiting # NoEvent /\ ~ Full
  /\ queue' = Enqueued(waiting)
  /\ waiting' = NoEvent
  /\ history' = Overlapped
  /\ UNCHANGED <<service, object, link, sent, read>>

-----------------------------------------------------------------------------
(* The service task: one event from the front of the queue. *)

Serves(kind) ==
  /\ service.at = "idle"
  /\ queue # <<>> /\ Head(queue).kind = kind
  /\ queue' = Tail(queue)

\* The object at the event's address is not, or not any more, the one it was meant for.
Stray(e) == object[e.arg] # e.conn

\* AsyncServer::_accepted: the server sets the client's handlers.
ServeAccept ==
  /\ Serves("ACCEPT")
  /\ history' = [history EXCEPT !.accepted = @ \cup {Head(queue).conn}]
  /\ UNCHANGED <<waiting, service, object, link, sent, read>>

\* _s_recv.  A client without handlers drops the packet.
ServeRecv ==
  LET e == Head(queue)
  IN  /\ Serves("RECV")
      /\ history' = [history EXCEPT !.stray = @ \/ Stray(e)]
      /\ read' = IF Stray(e) \/ e.conn \notin history.accepted THEN read
                 ELSE [read EXCEPT ![e.conn] = e.n]
      /\ service' = At("data", e.arg, object[e.arg])
      /\ UNCHANGED <<waiting, object, link, sent>>

\* _pcb of the client that lives for the connection k
HasPcb(k) == k \in Conns /\ link[k] \in {"up", "reset"}

\* _recv, when the handler is done: it put the acknowledgement off, or it goes to LwIP, or
\* the handler closes its client.  What freed memory says of a _pcb is anything.
Handle ==
  LET k == service.conn
  IN  /\ service.at = "data"
      /\ \/ /\ ~ HasPcb(k) \/ k \in history.accepted
            /\ service' = Idle
         \/ /\ HasPcb(k) \/ k = NoConn
            /\ service' = [service EXCEPT !.at = "ack"]
         \/ /\ HasPcb(k) /\ k \in history.accepted
            /\ service' = [service EXCEPT !.at = "release"]
      /\ UNCHANGED <<queue, waiting, object, link, sent, read, history>>

\* _tcp_recved, of a packet or of what a client that closes had put off: it runs in LwIP's
\* thread, once that is done with what it was at.
Recved ==
  /\ service.at \in {"ack", "release"} /\ waiting = NoEvent
  /\ service' = IF service.at = "ack" THEN Idle ELSE [service EXCEPT !.at = "close"]
  /\ UNCHANGED <<queue, waiting, object, link, sent, read, history>>

ServeFin ==
  /\ Serves("FIN")
  /\ history' = [history EXCEPT !.stray = @ \/ Stray(Head(queue))]
  /\ service' = At("finish", Head(queue).arg, Head(queue).conn)
  /\ UNCHANGED <<waiting, object, link, sent, read>>

\* Only the disconnect handler deletes a client, and ACCEPT sets it: a client whose end is
\* served before its ACCEPT is not deleted, and nothing will ever come for it again.
Discarded(a) == IF object[a] \in history.accepted THEN [object EXCEPT ![a] = NoConn] ELSE object

Undiscarded(a) == {object[a]} \cap (Conns \ history.accepted)

\* _fin: CLEAR, then the disconnect handler.
Finish ==
  /\ service.at = "finish" /\ ~ Full
  /\ queue' = Enqueued(Event("CLEAR", service.arg, service.conn, 0))
  /\ object' = Discarded(service.arg)
  /\ service' = Idle
  /\ history' = [history EXCEPT !.leaked = @ \cup Undiscarded(service.arg)]
  /\ UNCHANGED <<waiting, link, sent, read>>

\* Mutant: an error reaches the error handler only.
ServeErrorOnly ==
  /\ Serves("ERROR")
  /\ history' = [history EXCEPT !.stray = @ \/ Stray(Head(queue))]
  /\ link' = [link EXCEPT ![object[Head(queue).arg]] = "closed"]
  /\ UNCHANGED <<waiting, service, object, sent, read>>

\* _error: the client forgets its pcb, then the disconnect handler.  There is no CLEAR.
ServeError ==
  LET e == Head(queue)
  IN  /\ Serves("ERROR")
      /\ link' = [link EXCEPT ![object[e.arg]] = "closed"]
      /\ object' = Discarded(e.arg)
      /\ history' = [history EXCEPT !.stray = @ \/ Stray(e),
                                   !.leaked = @ \cup Undiscarded(e.arg)]
      /\ UNCHANGED <<waiting, service, sent, read>>

\* Mutant: the events of the client stay in the queue.
CloseKeeping ==
  /\ service.at = "close" /\ ~ Full
  /\ link' = [link EXCEPT ![service.conn] = "closed"]
  /\ service' = [service EXCEPT !.at = "closing"]
  /\ UNCHANGED <<queue, waiting, object, sent, read, history>>

\* _close: no callback names the client any more, and CLEAR goes first...
Close ==
  /\ service.at = "close" /\ ~ Full
  /\ IF link[service.conn] \in {"up", "reset"}
     THEN /\ link' = [link EXCEPT ![service.conn] = "closed"]
          /\ queue' = Enqueued(Event("CLEAR", service.arg, service.conn, 0))
          /\ service' = [service EXCEPT !.at = "closing"]
     ELSE service' = Idle /\ UNCHANGED <<link, queue>>
  /\ UNCHANGED <<waiting, object, sent, read, history>>

\* ... then tcp_close runs in LwIP's thread, once that is done with what it was at, and
\* the client is deleted.
Closed ==
  /\ service.at = "closing" /\ waiting = NoEvent
  /\ object' = [object EXCEPT ![service.arg] = NoConn]
  /\ service' = Idle
  /\ UNCHANGED <<queue, waiting, link, sent, read, history>>

ServeClear ==
  /\ Serves("CLEAR")
  /\ service' = At("sweep", Head(queue).arg, Head(queue).conn)
  /\ UNCHANGED <<waiting, object, link, sent, read, history>>

\* _remove_events_with_arg takes an event out, until the queue is empty or the first one
\* it put back is at the front again.
SweepTake ==
  /\ service.at = "sweep" /\ service.held = NoEvent
  /\ IF queue = <<>> \/ Head(queue) = service.first
     THEN service' = Idle /\ UNCHANGED queue
     ELSE /\ queue' = Tail(queue)
          /\ service' = IF Head(queue).arg = service.arg THEN service
                        ELSE [service EXCEPT !.held = Head(queue)]
  /\ UNCHANGED <<waiting, object, link, sent, read, history>>

\* Mutant: the first event put back ends the sweep.
SweepPutOnce ==
  /\ service.at = "sweep" /\ service.held # NoEvent /\ ~ Full
  /\ queue' = Append(queue, service.held)
  /\ service' = Idle
  /\ UNCHANGED <<waiting, object, link, sent, read, history>>

SweepPut ==
  /\ service.at = "sweep" /\ service.held # NoEvent /\ ~ Full
  /\ queue' = Append(queue, service.held)
  /\ service' = [service EXCEPT !.held = NoEvent,
                                !.first = IF @ = NoEvent THEN service.held ELSE @]
  /\ UNCHANGED <<waiting, object, link, sent, read, history>>

Lwip ==
  \E k \in Conns :
    \/ \E a \in Objects : Accept(k, a)
    \/ Receive(k) \/ PeerCloses(k) \/ Reset(k)

Service ==
  \/ ServeAccept \/ ServeRecv \/ ServeFin \/ ServeError \/ ServeClear
  \/ Handle \/ Recved \/ Finish \/ Close \/ Closed
  \/ SweepTake \/ SweepPut

Next == Lwip \/ Resume \/ Service

Spec == Init /\ [][Next]_vars

\* Both threads go on when they can; nobody makes a peer send or close.
FairSpec == Spec /\ WF_vars(Resume) /\ WF_vars(Service)

-----------------------------------------------------------------------------
(* What the queue is for. *)

TypeOK ==
  /\ queue \in Seq(Events) /\ Len(queue) <= MaxEvents
  /\ waiting \in Events \cup {NoEvent}
  /\ service \in [at : {"idle", "sweep", "finish", "data", "ack", "release", "close", "closing"},
                  arg : Objects \cup {Server}, conn : Conns \cup {NoConn},
                  held : Events \cup {NoEvent}, first : Events \cup {NoEvent}]
  /\ object \in [Objects -> Conns \cup {NoConn}]
  /\ link \in [Conns -> {"new", "up", "reset", "closed"}]
  /\ sent \in [Conns -> 0 .. MaxData] /\ read \in [Conns -> 0 .. MaxData]
  /\ history \in [accepted : SUBSET Conns, reused : SUBSET Conns, leaked : SUBSET Conns,
                  overlap : BOOLEAN, stray : BOOLEAN]

\* The events in the order in which they will be served, between two sweeps.
Line == IF waiting = NoEvent THEN queue ELSE Append(queue, waiting)

\* Where the packets of a connection stand.
Packets(k) == {i \in DOMAIN Line : Line[i].kind = "RECV" /\ Line[i].conn = k}

\* Unless LwIP added to the queue during a sweep, a client that stands where no other
\* client's events were pending sees every packet of its connection, once and in order:
\* those it has not seen stand in the queue as they came (AsyncTCP.cpp:118).
DeliversAll ==
  \A a \in Objects :
    LET k == object[a]
    IN  /\ k # NoConn
        /\ ~ history.overlap /\ k \notin history.reused
        /\ service.at # "sweep"
        => /\ {Line[i].n : i \in Packets(k)} = read[k] + 1 .. sent[k]
           /\ \A i, j \in Packets(k) : i < j => Line[i].n < Line[j].n

\* No handler runs for a client that is gone, or for another one at its address, unless
\* LwIP added to the queue during a sweep (AsyncTCP.cpp:863, 904).
StrayNeedsOverlap == history.stray => history.overlap

\* The queue is full, and its only reader waits for room in it, or for LwIP, which does.
Deadlocked ==
  /\ Full
  /\ \/ service.at \in {"finish", "close"}
     \/ service.at = "sweep" /\ service.held # NoEvent
     \/ service.at \in {"ack", "release", "closing"} /\ waiting # NoEvent

\* The end of a connection is served after its ACCEPT, so that a handler is there to delete
\* the client, unless LwIP added to the queue during a sweep (AsyncTCP.cpp:876, 906).
LeakNeedsOverlap == history.leaked # {} => history.overlap

\* A client whose connection ended is deleted, unless the two threads wait for each other,
\* it stands where the events of a deleted one were pending, or its end was served before
\* its ACCEPT (AsyncTCP.cpp:798, 863, 904, 939).
ClientsEnd ==
  \A k \in Conns :
    link[k] \in {"closed", "reset"} ~>
      \/ \A a \in Objects : object[a] # k
      \/ Deadlocked
      \/ k \in history.reused \cup history.leaked
=============================================================================
