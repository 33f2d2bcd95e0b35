----------------------------- MODULE LedSocket -----------------------------
(***************************************************************************)
(* The web socket of the LED sketch (src/sketch_blink/sketch_blink.ino):   *)
(* a client's "toggle1" or "toggle2" flips a LED and the new state of both *)
(* goes to every client, through the queues of AsyncWebSocket.cpp.         *)
(*                                                                         *)
(* The handlers of the network task (connect, acknowledge, poll, data,     *)
(* disconnect) are an action each, and so is the cleanup the sketch's      *)
(* loop() calls from another task.  Clients are any web socket clients:    *)
(* the sketch's page has no script.                                        *)
(*                                                                         *)
(* A text is told apart by the number of toggles before it, and so is the  *)
(* state of the LEDs.  Bytes count, as the code counts them: a frame has a *)
(* header of 2, a text 2 more, and control frames carry no payload here.   *)
(***************************************************************************)
EXTENDS Integers, SequencesExt, FiniteSets

CONSTANTS
  Conns,          \* the connections there may be, each used once
  MaxClients,     \* DEFAULT_MAX_WS_CLIENTS, 8
  MaxQueued,      \* WS_MAX_QUEUED_MESSAGES, 32
  MaxToggles, MaxPings, MaxFaults,   \* bounds of the model
  MaxControls,    \* bound of the model: control frames queued for a client
  Window          \* frames the TCP send buffer takes

ASSUME LedAssumption ==
  /\ {MaxClients, MaxToggles, MaxPings, MaxFaults} \subseteq Nat
  /\ {MaxQueued, MaxControls, Window} \subseteq Nat \ {0}

VARIABLES
  leds,         \* led1State and led2State
  clients,      \* _clients: the connections, the oldest first
  conn,         \* each connection's AsyncWebSocketClient and its TCP stream
  buffers,      \* _buffers: the texts in memory, each with its reference count
  spent         \* connections used, pings and failed writes so far

vars == <<leds, clients, conn, buffers, spent>>

Header == 2

Payload == 2

NoText == 0

Texts == 1 .. MaxToggles

Message(text) == [text |-> text, sent |-> 0, ack |-> 0, acked |-> 0]

Control(op) == [op |-> op, finished |-> FALSE]

Frame(op, text) == [op |-> op, text |-> text]

\* told is the last text the peer read, as long as it is in step: a header without its
\* payload makes it take the next frame for the payload, and a text it cannot decode ends
\* what it reads.  deaf and hurt are history: the last text was dropped, or there was none
\* since the connection came up; and a control frame was sent again before its
\* acknowledgement, or the write of a text failed.
Fresh ==
  [status  |-> "CONNECTED",
   control |-> <<>>,          \* _controlQueue
   queue   |-> <<>>,          \* _messageQueue
   wire    |-> <<>>,          \* frames written and not acknowledged
   told    |-> NoText,
   inStep  |-> TRUE,
   deaf    |-> TRUE,
   hurt    |-> FALSE]

Live == {clients[i] : i \in DOMAIN clients}

Connected(c) == c \in Live /\ conn[c].status = "CONNECTED"

Count == Cardinality({c \in Live : Connected(c)})

Init ==
  /\ leds = 0
  /\ clients = <<>>
  /\ conn = [c \in Conns |-> Fresh]
  /\ buffers = <<>>
  /\ spent = [conns |-> {}, pings |-> 0, faults |-> 0]

-----------------------------------------------------------------------------
(* The queues of one client. *)

\* What may become of webSocketSendFrame: the frame is written, nothing is, only its
\* header is, or all of it is and then send() fails, so that it goes out all the same.
Outcomes == {"written", "nothing", "header", "unsent"}

Outcome == IF spent.faults < MaxFaults THEN Outcomes ELSE {"written"}

Counted(w) == [spent EXCEPT !.faults = @ + (IF w = "written" THEN 0 ELSE 1)]

\* A control frame is finished once it was tried, and is tried again until it goes.
SendControl(x, w) ==
  [x EXCEPT
     !.control[1].finished = TRUE,
     !.wire = IF w = "nothing" THEN @ ELSE Append(@, Frame(Head(x.control).op, NoText)),
     !.hurt = @ \/ Head(x.control).finished]

Tried(message, sent, ack) == [message EXCEPT !.sent = @ + sent, !.ack = @ + ack]

\* A failed write takes back the payload, never the header, whatever went out.
SendMessage(x, w) ==
  LET front == Head(x.queue)
  IN  IF w = "written"
      THEN [x EXCEPT !.queue = [x.queue EXCEPT ![1] = Tried(front, Payload, Header + Payload)],
                     !.wire = Append(x.wire, Frame("TEXT", front.text))]
      ELSE [x EXCEPT !.queue = [x.queue EXCEPT ![1] = Tried(front, 0, Header)],
                     !.wire = CASE w = "nothing" -> x.wire
                                [] w = "header" -> Append(x.wire, Frame("HEADER", NoText))
                                [] w = "unsent" -> Append(x.wire, Frame("TEXT", front.text)),
                     !.hurt = TRUE]

BetweenFrames(x) == x.queue = <<>> \/ Head(x.queue).acked = Head(x.queue).ack

\* Mutant: either queue waits for the other to be empty.
RunQueueExclusive(x, w) ==
  IF ~ BetweenFrames(x) \/ Len(x.wire) >= Window THEN x
  ELSE IF x.control # <<>> /\ x.queue = <<>> THEN SendControl(x, w)
  ELSE IF x.queue # <<>> /\ x.control = <<>> THEN SendMessage(x, w)
  ELSE x

\* _runQueue
RunQueue(x, w) ==
  IF ~ BetweenFrames(x) \/ Len(x.wire) >= Window THEN x
  ELSE IF x.control # <<>> THEN SendControl(x, w)
  ELSE IF x.queue # <<>> THEN SendMessage(x, w)
  ELSE x

\* Mutant: the queue takes one message more.
QueueMessageLate(x, text, w) ==
  RunQueue(IF Len(x.queue) > MaxQueued THEN [x EXCEPT !.deaf = TRUE]
           ELSE [x EXCEPT !.queue = Append(@, Message(text)), !.deaf = FALSE], w)

\* A full queue drops the new message.
QueueMessage(x, text, w) ==
  RunQueue(IF Len(x.queue) >= MaxQueued THEN [x EXCEPT !.deaf = TRUE]
           ELSE [x EXCEPT !.queue = Append(@, Message(text)), !.deaf = FALSE], w)

QueueControl(x, op, w) == RunQueue([x EXCEPT !.control = Append(@, Control(op))], w)

-----------------------------------------------------------------------------
(* Buffers and clients that go. *)

\* ~AsyncWebSocketMultiMessage of each message of a queue.
Released(held, queue) ==
  [t \in DOMAIN held |-> held[t] - Cardinality({i \in DOMAIN queue : queue[i].text = t})]

\* _cleanBuffers
Clean(held) == [t \in {t \in DOMAIN held : held[t] > 0} |-> held[t]]

\* Mutant: the queue goes with its client, the references do not.
DropLeaking(c) ==
  /\ \E i \in DOMAIN clients : clients[i] = c /\ clients' = RemoveAt(clients, i)
  /\ conn' = [conn EXCEPT ![c] = Fresh]
  /\ buffers' = buffers

\* _onDisconnect, with the destructor of the client.
Drop(c) ==
  /\ \E i \in DOMAIN clients : clients[i] = c /\ clients' = RemoveAt(clients, i)
  /\ conn' = [conn EXCEPT ![c] = Fresh]
  /\ buffers' = Released(buffers, conn[c].queue)

-----------------------------------------------------------------------------
(* The network task. *)

Connect(c) ==
  /\ c \notin spent.conns
  /\ clients' = Append(clients, c)
  /\ spent' = [spent EXCEPT !.conns = @ \cup {c}]
  /\ UNCHANGED <<leds, conn, buffers>>

\* FIN, error or timeout of the connection.
Disconnect(c) ==
  /\ c \in Live
  /\ Drop(c)
  /\ UNCHANGED <<leds, spent>>

\* toggle1 or toggle2, then textAll(): a buffer, and a reference to it in every queue
\* that has room.  The write of at most one client fails in a step.
Toggle(c, failing, w) ==
  LET text == leds + 1
      takes == {d \in Conns : Connected(d) /\ Len(conn[d].queue) < MaxQueued}
      held == [t \in DOMAIN buffers \cup {text} |->
                 IF t = text THEN Cardinality(takes) ELSE buffers[t]]
  IN  /\ Connected(c)
      /\ leds < MaxToggles
      /\ leds' = text
      /\ conn' = [d \in Conns |->
                    IF Connected(d)
                    THEN QueueMessage(conn[d], text, IF d = failing THEN w ELSE "written")
                    ELSE conn[d]]
      /\ buffers' = Clean(held)
      /\ spent' = Counted(w)
      /\ UNCHANGED clients

Ping(c, w) ==
  /\ Connected(c)
  /\ spent.pings < MaxPings
  /\ Len(conn[c].control) < MaxControls
  /\ conn' = [conn EXCEPT ![c] = QueueControl(@, "PONG", w)]
  /\ spent' = [Counted(w) EXCEPT !.pings = @ + 1]
  /\ UNCHANGED <<leds, clients, buffers>>

\* The peer closes, or answers a close; it sends one close frame.
PeerCloses(c, w) ==
  /\ Connected(c)
  /\ Len(conn[c].control) < MaxControls
  /\ conn' = [conn EXCEPT ![c] =
                QueueControl([@ EXCEPT !.status = "DISCONNECTING"], "CLOSE", w)]
  /\ spent' = Counted(w)
  /\ UNCHANGED <<leds, clients, buffers>>

\* canSend() holds as long as the send buffer has room, which RunQueue asks again.
Poll(c, w) ==
  /\ c \in Live
  /\ conn[c].control # <<>> \/ conn[c].queue # <<>>
  /\ conn' = [conn EXCEPT ![c] = RunQueue(@, w)]
  /\ spent' = Counted(w)
  /\ UNCHANGED <<leds, clients, buffers>>

Bytes(frames) ==
  Header * Len(frames) + Payload * Cardinality({i \in DOMAIN frames : frames[i].op = "TEXT"})

\* What the peer reads it reads in step: no header without its payload came before.
InStep(x, i) == x.inStep /\ \A j \in 1 .. i : x.wire[j].op # "HEADER"

\* The peer has read the first n frames, in order.
Read(x, n) ==
  LET texts == {i \in 1 .. n : x.wire[i].op = "TEXT" /\ InStep(x, i)}
  IN  [x EXCEPT
         !.wire = SubSeq(x.wire, n + 1, Len(x.wire)),
         !.inStep = InStep(x, n),
         !.told = IF texts = {} THEN x.told
                  ELSE x.wire[CHOOSE i \in texts : \A j \in texts : j <= i].text]

\* The control frame at the front was tried: it is taken out of its queue...
ControlDone(x) == x.control # <<>> /\ Head(x.control).finished

\* Mutant: the message is credited with the control frame's bytes too.
RestUncharged(x, bytes) == bytes

\* ... and the bytes it does not account for are the front message's.
Rest(x, bytes) == bytes - (IF ControlDone(x) THEN Header ELSE 0)

Acked(message, bytes) == [message EXCEPT !.acked = @ + bytes]

Credited(x, bytes) ==
  [x EXCEPT
     !.control = IF ControlDone(x) THEN Tail(x.control) ELSE x.control,
     !.queue = IF x.queue = <<>> THEN <<>>
               ELSE [x.queue EXCEPT ![1] = Acked(Head(x.queue), Rest(x, bytes))]]

\* Mutant: a message is taken for sent when its bytes are accounted for.
MessageAcked(x) ==
  /\ x.queue # <<>>
  /\ Head(x.queue).acked >= Head(x.queue).ack
  /\ Head(x.queue).acked > 0

MessageDone(x) ==
  /\ x.queue # <<>>
  /\ Head(x.queue).sent >= Payload
  /\ Head(x.queue).acked >= Head(x.queue).ack

Shortened(x) == [x EXCEPT !.queue = IF MessageDone(x) THEN Tail(x.queue) ELSE x.queue]

\* _onAck.  Buffers are cleaned before _runQueue takes the message away.
OnAck(c, n, w) ==
  \E read \in {Read(conn[c], n)} :
    /\ c \in Live
    /\ IF /\ ControlDone(read)
          /\ read.status = "DISCONNECTING" /\ Head(read.control).op = "CLOSE"
       THEN Drop(c) /\ UNCHANGED spent
       ELSE \E credited \in {Credited(read, Bytes(SubSeq(conn[c].wire, 1, n)))} :
              LET done == IF MessageDone(credited) THEN <<Head(credited.queue)>> ELSE <<>>
              IN  /\ conn' = [conn EXCEPT ![c] = RunQueue(Shortened(credited), w)]
                  /\ buffers' = Released(Clean(buffers), done)
                  /\ spent' = Counted(w)
                  /\ UNCHANGED clients
    /\ UNCHANGED leds

-----------------------------------------------------------------------------
(* loop() of the sketch. *)

\* cleanupClients(): close() sends a close frame and leaves the rest to the peer.  A
\* client whose peer closed already ignores it.
Cleanup(w) ==
  LET c == Head(clients)
  IN  /\ Count > MaxClients
      /\ Connected(c)
      /\ Len(conn[c].control) < MaxControls
      /\ conn' = [conn EXCEPT ![c] = QueueControl(@, "CLOSE", w)]
      /\ spent' = Counted(w)
      /\ UNCHANGED <<leds, clients, buffers>>

Acks(c, w) == \E n \in DOMAIN conn[c].wire : OnAck(c, n, w)

Next ==
  \/ \E c \in Conns : Connect(c) \/ Disconnect(c)
  \/ \E c, failing \in Conns, w \in Outcome : Toggle(c, failing, w)
  \/ \E c \in Conns, w \in Outcome : Ping(c, w) \/ PeerCloses(c, w)
  \/ \E c \in Conns, w \in Outcome : Acks(c, w) \/ Poll(c, w)
  \/ \E w \in Outcome : Cleanup(w)

Spec == Init /\ [][Next]_vars

\* The peers' TCP acknowledges what it was sent, LwIP polls its connections, and loop()
\* goes round; writes fail now and then.  Nothing makes a peer send anything, or go.
FairSpec ==
  /\ Spec
  /\ \A c \in Conns : WF_vars(Acks(c, "written")) /\ WF_vars(Poll(c, "written"))
  /\ WF_vars(Cleanup("written"))

-----------------------------------------------------------------------------
(* What the queues are for. *)

Messages == [text : Texts, sent : {0, Payload}, ack : Nat, acked : Nat]

\* Queues, streams and reference counts keep their shapes and their limits.
TypeOK ==
  /\ leds \in 0 .. MaxToggles
  /\ clients \in Seq(Conns) /\ Live \subseteq spent.conns
  /\ \A i, j \in DOMAIN clients : clients[i] = clients[j] => i = j
  /\ \A c \in Conns :
       /\ conn[c].status \in {"CONNECTED", "DISCONNECTING"}
       /\ conn[c].control \in Seq([op : {"PONG", "CLOSE"}, finished : BOOLEAN])
       /\ conn[c].queue \in Seq(Messages) /\ Len(conn[c].queue) <= MaxQueued
       /\ conn[c].wire \in Seq([op : {"PONG", "CLOSE", "TEXT", "HEADER"},
                                text : Texts \cup {NoText}])
       /\ Len(conn[c].wire) <= Window
       /\ conn[c].told \in Texts \cup {NoText}
       /\ {conn[c].inStep, conn[c].deaf, conn[c].hurt} \subseteq BOOLEAN
  /\ DOMAIN buffers \subseteq Texts
  /\ spent \in [conns : SUBSET Conns, pings : 0 .. MaxPings, faults : 0 .. MaxFaults]

\* A buffer's count is the number of messages that point at it, so that none is deleted
\* under a message and none outlives the next cleaning (AsyncWebSocket.cpp:375, 1218).
References(t) ==
  {r \in Conns \X (1 .. MaxQueued) :
     r[2] \in DOMAIN conn[r[1]].queue /\ conn[r[1]].queue[r[2]].text = t}

BuffersCounted ==
  /\ \A t \in DOMAIN buffers : buffers[t] = Cardinality(References(t))
  /\ \A t \in Texts \ DOMAIN buffers : References(t) = {}

\* The places of what a client was told: what it read (0), the texts on the wire, those queued.
TextPlaces(x) ==
  {p \in 0 .. Len(x.wire) + Len(x.queue) : p \in DOMAIN x.wire => x.wire[p].op = "TEXT"}

TextAt(x, p) ==
  IF p = 0 THEN x.told
  ELSE IF p \in DOMAIN x.wire THEN x.wire[p].text
  ELSE x.queue[p - Len(x.wire)].text

\* What a peer has read, what is on the wire to it and what is queued for it never goes
\* back to an older state of the LEDs, and ends with the present one, unless that was
\* dropped or a header without its payload went out, whichever acknowledgements are
\* credited to the wrong frame (AsyncWebSocket.cpp:100, 406, 494).
PeersCatchUp ==
  \A c \in Live :
    LET places == TextPlaces(conn[c])
    IN  /\ \A p, q \in places : p <= q => TextAt(conn[c], p) <= TextAt(conn[c], q)
        /\ Connected(c) /\ ~ conn[c].deaf /\ InStep(conn[c], Len(conn[c].wire)) =>
             \E p \in places : TextAt(conn[c], p) = leds /\ \A q \in places : q <= p

\* Nothing is in flight, and the front message waits for an acknowledgement: nothing is
\* ever sent to this client again.
Jammed(c) == ~ BetweenFrames(conn[c]) /\ conn[c].wire = <<>>

\* Only a control frame that went out twice, or a write that failed, jams a client
\* (AsyncWebSocket.cpp:499, 529).
JamNeedsCause == \A c \in Live : Jammed(c) => conn[c].hurt

\* Queued texts leave, unless the client jams or goes, or is the oldest of too many:
\* control frames go first and each round of loop() queues another (AsyncWebSocket.cpp:529).
Drains ==
  \A c \in Conns :
    conn[c].queue # <<>> ~>
      \/ conn[c].queue = <<>>
      \/ Jammed(c)
      \/ Count > MaxClients /\ c = Head(clients)

\* The cleanup brings the number of clients back to its limit
\* (src/libraries/ESPAsyncWebServer/README.md:1036).
CleanupLimits == (Count > MaxClients) ~> (Count <= MaxClients)
=============================================================================
