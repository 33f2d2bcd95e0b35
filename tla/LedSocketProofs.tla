--------------------------- MODULE LedSocketProofs ---------------------------
(***************************************************************************)
(* Theorems about LedSocket, for any number of connections, toggles, pings *)
(* and failed writes, and any limits of the queues and the send buffer.    *)
(***************************************************************************)
EXTENDS LedSocket, SequenceTheorems, FiniteSetTheorems, WellFoundedInduction, TLAPS

-----------------------------------------------------------------------------
(* One client, whoever calls its queues. *)

Controls == [op : {"PONG", "CLOSE"}, finished : BOOLEAN]

Frames == [op : {"PONG", "CLOSE", "TEXT", "HEADER"}, text : Texts \cup {NoText}]

Client ==
  [status : {"CONNECTED", "DISCONNECTING"}, control : Seq(Controls), queue : Seq(Messages),
   wire : Seq(Frames), told : Texts \cup {NoText}, inStep : BOOLEAN, deaf : BOOLEAN,
   hurt : BOOLEAN]

\* A message that went out whole waits for an acknowledgement, and only the one in
\* front has been tried at all.
ClientOK(x) ==
  /\ x \in Client
  /\ Len(x.queue) <= MaxQueued /\ Len(x.wire) <= Window
  /\ \A i \in DOMAIN x.queue :
       /\ x.queue[i].sent = Payload => x.queue[i].acked < x.queue[i].ack
       /\ i > 1 => x.queue[i].sent = 0 /\ x.queue[i].ack = 0 /\ x.queue[i].acked = 0

\* While nothing went out twice and nothing failed, at most one frame is on the wire,
\* and its bytes are what the front control frame or the front message waits for.
Accounted(x) ==
  \/ x.wire = <<>> /\ BetweenFrames(x)
  \/ /\ x.wire \in Seq(Frames) /\ Len(x.wire) = 1 /\ x.wire[1].op \in {"PONG", "CLOSE"}
     /\ ControlDone(x) /\ BetweenFrames(x)
  \/ /\ x.wire \in Seq(Frames) /\ Len(x.wire) = 1 /\ x.wire[1].op = "TEXT"
     /\ ~ ControlDone(x) /\ x.queue # <<>>
     /\ x.queue[1].ack = x.queue[1].acked + Header + Payload /\ x.queue[1].sent = Payload

Sound(x) == ClientOK(x) /\ (~ x.hurt => Accounted(x))

LEMMA ReplacedFirst ==
  ASSUME NEW S, NEW s \in Seq(S), Len(s) >= 1, NEW e \in S, NEW r, r = [s EXCEPT ![1] = e]
  PROVE  /\ r \in Seq(S) /\ Len(r) = Len(s) /\ r[1] = e /\ DOMAIN r = DOMAIN s
         /\ \A i \in 2 .. Len(s) : r[i] = s[i]
<1>1. 1 \in 1 .. Len(s)
  OBVIOUS
<1>2. /\ [s EXCEPT ![1] = e] \in Seq(S) /\ Len([s EXCEPT ![1] = e]) = Len(s)
      /\ \A j \in 1 .. Len(s) : [s EXCEPT ![1] = e][j] = IF j = 1 THEN e ELSE s[j]
  BY <1>1, ExceptSeq
<1> QED
  BY <1>1, <1>2

\* A message that has bytes on the way keeps the queues from running.
LEMMA FrontAcked ==
  ASSUME NEW x, ClientOK(x), BetweenFrames(x), x.queue # <<>>
  PROVE  x.queue[1].ack # x.queue[1].acked + Header + Payload
<1>1. x.queue \in Seq(Messages) /\ Head(x.queue) = x.queue[1] /\ x.queue[1] \in Messages
  BY DEF ClientOK, Client
<1>2. x.queue[1].acked \in Nat
  BY <1>1 DEF Messages
<1> QED
  BY <1>1, <1>2 DEF BetweenFrames, Header, Payload

LEMMA FreshSound == Sound(Fresh)
<1>1. /\ Fresh \in Client /\ Fresh.queue = <<>> /\ Fresh.wire = <<>>
  BY DEF Fresh, Client, NoText
<1> QED
  BY <1>1, LedAssumption DEF Sound, ClientOK, Accounted, BetweenFrames

LEMMA SendControlSound ==
  ASSUME NEW x, Sound(x), NEW w \in Outcomes, x.control # <<>>, BetweenFrames(x),
         Len(x.wire) < Window
  PROVE  Sound(SendControl(x, w))
<1> DEFINE y == SendControl(x, w)
           control == [x.control EXCEPT ![1].finished = TRUE]
           frame == Frame(Head(x.control).op, NoText)
           wire == IF w = "nothing" THEN x.wire ELSE Append(x.wire, frame)
           hurt == x.hurt \/ Head(x.control).finished
<1>1. /\ x \in Client /\ x.control \in Seq(Controls) /\ Len(x.control) >= 1
      /\ x.wire \in Seq(Frames) /\ x.control[1] \in Controls /\ Head(x.control) = x.control[1]
  BY DEF Sound, ClientOK, Client
<1>2. control \in Seq(Controls) /\ Len(control) = Len(x.control) /\ control[1].finished = TRUE
  <2> DEFINE first == [x.control[1] EXCEPT !.finished = TRUE]
  <2>1. first \in Controls /\ first.finished = TRUE
    BY <1>1 DEF Controls
  <2>2. control = [x.control EXCEPT ![1] = first]
    OBVIOUS
  <2> HIDE DEF first, control
  <2> QED
    BY <1>1, <2>1, <2>2, ReplacedFirst
<1>3. frame \in Frames /\ frame.op \in {"PONG", "CLOSE"}
  BY <1>1 DEF Frame, Frames, Controls
<1>4. wire \in Seq(Frames) /\ Len(wire) <= Window
  BY <1>1, <1>3, LedAssumption
<1>5. y = [x EXCEPT !.control = control, !.wire = wire, !.hurt = hurt]
  BY DEF SendControl
<1>6. hurt \in BOOLEAN
  BY <1>1 DEF Client, Controls
<1> HIDE DEF y, control, wire, hurt, frame
<1>7. /\ y \in Client /\ y.control = control /\ y.wire = wire /\ y.hurt = hurt /\ y.queue = x.queue
  BY <1>1, <1>2, <1>4, <1>5, <1>6 DEF Client
<1>8. ClientOK(y)
  BY <1>4, <1>7 DEF Sound, ClientOK
<1>9. ASSUME ~ y.hurt PROVE Accounted(y)
  <2>1. ~ x.hurt /\ ~ ControlDone(x)
    BY <1>7, <1>9 DEF hurt, ControlDone
  <2>2. x.wire = <<>>
    BY <2>1, FrontAcked DEF Sound, Accounted
  <2>3. BetweenFrames(y) /\ ControlDone(y)
    BY <1>1, <1>2, <1>7 DEF BetweenFrames, ControlDone
  <2>4. wire = <<>> \/ (Len(wire) = 1 /\ wire[1] = frame)
    BY <1>3, <2>2 DEF wire
  <2> QED
    BY <1>3, <1>4, <1>7, <2>3, <2>4 DEF Accounted
<1> QED
  BY <1>8, <1>9 DEF Sound, y

\* The front message, when the queues may run.
LEMMA FrontFree ==
  ASSUME NEW x, ClientOK(x), BetweenFrames(x), x.queue # <<>>
  PROVE  /\ x.queue \in Seq(Messages) /\ Len(x.queue) >= 1 /\ Head(x.queue) = x.queue[1]
         /\ x.queue[1] \in Messages /\ x.queue[1].acked = x.queue[1].ack
         /\ x.queue[1].sent = 0
<1>1. /\ x.queue \in Seq(Messages) /\ Len(x.queue) >= 1 /\ Head(x.queue) = x.queue[1]
      /\ x.queue[1] \in Messages /\ 1 \in DOMAIN x.queue
  BY DEF ClientOK, Client
<1>2. x.queue[1].acked = x.queue[1].ack
  BY <1>1 DEF BetweenFrames
<1>3. x.queue[1].sent \in {0, Payload} /\ x.queue[1].ack \in Nat
  BY <1>1 DEF Messages
<1> QED
  BY <1>1, <1>2, <1>3 DEF ClientOK

LEMMA TriedIs ==
  ASSUME NEW message \in Messages, message.sent = 0, NEW sent \in {0, Payload}, NEW ack \in Nat
  PROVE  LET tried == Tried(message, sent, ack)
         IN  /\ tried \in Messages /\ tried.sent = sent /\ tried.acked = message.acked
             /\ tried.ack = message.ack + ack
<1> DEFINE s == message.sent + sent
           a == message.ack + ack
           tried == Tried(message, sent, ack)
<1>1. s = sent /\ s \in {0, Payload} /\ a \in Nat
  BY DEF Messages, Payload
<1>2. tried = [message EXCEPT !.sent = s, !.ack = a]
  BY DEF Tried
<1> HIDE DEF s, a, tried
<1>3. tried \in Messages /\ tried.sent = s /\ tried.acked = message.acked /\ tried.ack = a
  BY <1>1, <1>2 DEF Messages
<1> QED
  BY <1>1, <1>3 DEF a, tried

LEMMA SendMessageSound ==
  ASSUME NEW x, Sound(x), NEW w \in Outcomes, x.control = <<>>, x.queue # <<>>,
         BetweenFrames(x), Len(x.wire) < Window
  PROVE  Sound(SendMessage(x, w))
<1> DEFINE front == Head(x.queue)
           y == SendMessage(x, w)
<1>1. /\ x \in Client /\ x.wire \in Seq(Frames) /\ ClientOK(x)
      /\ x.queue \in Seq(Messages) /\ Len(x.queue) >= 1 /\ x.queue[1] = front
      /\ front \in Messages /\ front.acked = front.ack /\ front.sent = 0
      /\ front.ack \in Nat /\ front.text \in Texts
  <2>1. /\ x \in Client /\ x.wire \in Seq(Frames) /\ ClientOK(x)
    BY DEF Sound, ClientOK, Client
  <2>2. /\ x.queue \in Seq(Messages) /\ Len(x.queue) >= 1 /\ Head(x.queue) = x.queue[1]
        /\ x.queue[1] \in Messages /\ x.queue[1].acked = x.queue[1].ack
        /\ x.queue[1].sent = 0
    BY <2>1, FrontFree
  <2> HIDE DEF front
  <2>3. front = x.queue[1]
    BY <2>2 DEF front
  <2>4. front.ack \in Nat /\ front.text \in Texts
    BY <2>2, <2>3 DEF Messages
  <2> QED
    BY <2>1, <2>2, <2>3, <2>4
<1>2. CASE w = "written"
  <2> DEFINE tried == Tried(front, Payload, Header + Payload)
             queue == [x.queue EXCEPT ![1] = tried]
             frame == Frame("TEXT", front.text)
             wire == Append(x.wire, frame)
  <2>1. y = [x EXCEPT !.queue = queue, !.wire = wire]
    BY <1>2 DEF SendMessage
  <2> HIDE DEF front, y
  <2>2. /\ tried \in Messages /\ tried.sent = Payload /\ tried.acked = front.acked
        /\ tried.ack = front.acked + Header + Payload
    <3>1. Payload \in {0, Payload} /\ Header + Payload \in Nat
      BY DEF Header, Payload
    <3>2. /\ tried \in Messages /\ tried.sent = Payload /\ tried.acked = front.acked
          /\ tried.ack = front.ack + (Header + Payload)
      BY <1>1, <3>1, TriedIs
    <3> QED
      BY <1>1, <3>2 DEF Header, Payload
  <2>3. frame \in Frames /\ frame.op = "TEXT"
    BY <1>1 DEF Frame, Frames
  <2> HIDE DEF tried
  <2>4. /\ queue \in Seq(Messages) /\ Len(queue) = Len(x.queue) /\ queue[1] = tried
        /\ DOMAIN queue = DOMAIN x.queue /\ \A i \in 2 .. Len(x.queue) : queue[i] = x.queue[i]
    BY <1>1, <2>2, ReplacedFirst
  <2> HIDE DEF queue, frame
  <2>5. wire \in Seq(Frames) /\ Len(wire) <= Window /\ (x.wire = <<>> => Len(wire) = 1 /\ wire[1] = frame)
    BY <1>1, <2>3, LedAssumption
  <2> HIDE DEF wire
  <2>6. /\ y \in Client /\ y.queue = queue /\ y.wire = wire /\ y.control = <<>> /\ y.hurt = x.hurt
    BY <1>1, <2>1, <2>4, <2>5 DEF Client
  <2>7. ClientOK(y)
    <3>1. \A i \in DOMAIN queue :
            /\ queue[i].sent = Payload => queue[i].acked < queue[i].ack
            /\ i > 1 => queue[i].sent = 0 /\ queue[i].ack = 0 /\ queue[i].acked = 0
      <4>1. tried.acked < tried.ack
        BY <1>1, <2>2 DEF Header, Payload
      <4>2. \A i \in DOMAIN queue : i = 1 \/ i \in 2 .. Len(x.queue)
        BY <1>1, <2>4
      <4> QED
        BY <1>1, <2>4, <4>1, <4>2 DEF ClientOK
    <3> QED
      BY <1>1, <2>4, <2>5, <2>6, <3>1 DEF ClientOK
  <2>8. ASSUME ~ y.hurt PROVE Accounted(y)
    <3>1. ~ ControlDone(x) /\ ~ ControlDone(y)
      BY <2>6 DEF ControlDone
    <3>2. x.wire = <<>>
      BY <1>1, <2>6, <2>8, <3>1, FrontAcked DEF Sound, Accounted
    <3>3. y.queue # <<>>
      BY <1>1, <2>4, <2>6
    <3> QED
      BY <2>2, <2>3, <2>4, <2>5, <2>6, <3>1, <3>2, <3>3 DEF Accounted
  <2> QED
    BY <2>7, <2>8 DEF Sound, y
<1>3. CASE w # "written"
  <2> DEFINE tried == Tried(front, 0, Header)
             queue == [x.queue EXCEPT ![1] = tried]
             frame == IF w = "header" THEN Frame("HEADER", NoText) ELSE Frame("TEXT", front.text)
             wire == IF w = "nothing" THEN x.wire ELSE Append(x.wire, frame)
  <2>1. y = [x EXCEPT !.queue = queue, !.wire = wire, !.hurt = TRUE]
    BY <1>3 DEF SendMessage, Outcomes
  <2>0. front.text \in Texts
    BY <1>1 DEF Messages
  <2> HIDE DEF front, y
  <2>2. tried \in Messages /\ tried.sent = 0
    BY <1>1, TriedIs DEF Payload, Header
  <2>3. frame \in Frames
    BY <2>0 DEF Frame, Frames, NoText
  <2> HIDE DEF tried
  <2>4. /\ queue \in Seq(Messages) /\ Len(queue) = Len(x.queue) /\ queue[1] = tried
        /\ DOMAIN queue = DOMAIN x.queue /\ \A i \in 2 .. Len(x.queue) : queue[i] = x.queue[i]
    BY <1>1, <2>2, ReplacedFirst
  <2> HIDE DEF queue, frame
  <2>5. wire \in Seq(Frames) /\ Len(wire) <= Window
    BY <1>1, <2>3, LedAssumption
  <2> HIDE DEF wire
  <2>6. y \in Client /\ y.queue = queue /\ y.wire = wire /\ y.hurt
    BY <1>1, <2>1, <2>4, <2>5 DEF Client
  <2>7. \A i \in DOMAIN queue :
          /\ queue[i].sent = Payload => queue[i].acked < queue[i].ack
          /\ i > 1 => queue[i].sent = 0 /\ queue[i].ack = 0 /\ queue[i].acked = 0
    <3>1. \A i \in DOMAIN queue : i = 1 \/ i \in 2 .. Len(x.queue)
      BY <1>1, <2>4
    <3> QED
      BY <1>1, <2>2, <2>4, <3>1 DEF ClientOK, Payload
  <2> QED
    BY <1>1, <2>4, <2>5, <2>6, <2>7 DEF ClientOK, Sound, y
<1> QED
  BY <1>2, <1>3

LEMMA RunQueueSound ==
  ASSUME NEW x, Sound(x), NEW w \in Outcomes
  PROVE  Sound(RunQueue(x, w))
<1>1. Len(x.wire) \in Nat /\ Window \in Nat
  BY LedAssumption DEF Sound, ClientOK, Client
<1> QED
  BY <1>1, SendControlSound, SendMessageSound DEF RunQueue

LEMMA ControlQueued ==
  ASSUME NEW x, Sound(x), NEW op \in {"PONG", "CLOSE"}
  PROVE  LET y == [x EXCEPT !.control = Append(@, Control(op))]
         IN  /\ Sound(y) /\ y.queue = x.queue /\ y.wire = x.wire
             /\ y.status = x.status /\ y.told = x.told /\ y.deaf = x.deaf
             /\ y.inStep = x.inStep
<1> DEFINE new == Control(op)
           control == Append(x.control, new)
           y == [x EXCEPT !.control = control]
<1>1. x \in Client /\ x.control \in Seq(Controls) /\ new \in Controls /\ new.finished = FALSE
  BY DEF Sound, ClientOK, Client, Control, Controls
<1> HIDE DEF new
<1>2. /\ control \in Seq(Controls)
      /\ x.control = <<>> => Head(control) = new
      /\ x.control # <<>> => Head(control) = Head(x.control)
      /\ control # <<>>
  <2>1. /\ control \in Seq(Controls) /\ Len(control) = Len(x.control) + 1
        /\ control[Len(x.control) + 1] = new
        /\ \A i \in 1 .. Len(x.control) : control[i] = x.control[i]
    BY <1>1, AppendProperties
  <2>2. Len(x.control) \in Nat /\ (x.control = <<>> <=> Len(x.control) = 0)
    BY <1>1, EmptySeq
  <2> HIDE DEF control
  <2>3. control # <<>> /\ Head(control) = control[1]
    BY <2>1, <2>2
  <2>4. x.control # <<>> => Head(x.control) = x.control[1] /\ 1 \in 1 .. Len(x.control)
    BY <1>1, <2>2
  <2> QED
    BY <2>1, <2>2, <2>3, <2>4
<1> HIDE DEF control
<1>3. /\ y \in Client /\ y.control = control /\ y.queue = x.queue /\ y.wire = x.wire
      /\ y.hurt = x.hurt /\ y.status = x.status /\ y.told = x.told /\ y.deaf = x.deaf
      /\ y.inStep = x.inStep
  BY <1>1, <1>2 DEF Client
<1> HIDE DEF y
<1>4. ControlDone(y) <=> ControlDone(x)
  BY <1>1, <1>2, <1>3 DEF ControlDone
<1>5. Sound(y)
  BY <1>3, <1>4 DEF Sound, ClientOK, Accounted, BetweenFrames
<1> QED
  BY <1>3, <1>5 DEF y, control, new

LEMMA QueueControlSound ==
  ASSUME NEW x, Sound(x), NEW w \in Outcomes, NEW op \in {"PONG", "CLOSE"}
  PROVE  Sound(QueueControl(x, op, w))
BY ControlQueued, RunQueueSound DEF QueueControl

\* textAll() for one client, before its queues run.
Queued(x, text) ==
  IF Len(x.queue) >= MaxQueued THEN [x EXCEPT !.deaf = TRUE]
  ELSE [x EXCEPT !.queue = Append(@, Message(text)), !.deaf = FALSE]

LEMMA MessageQueued ==
  ASSUME NEW x, Sound(x), NEW text \in Texts
  PROVE  LET y == Queued(x, text)
         IN  /\ Sound(y) /\ y.wire = x.wire /\ y.status = x.status /\ y.told = x.told
             /\ y.inStep = x.inStep
             /\ Len(x.queue) >= MaxQueued => y.queue = x.queue /\ y.deaf
             /\ ~ (Len(x.queue) >= MaxQueued) => y.queue = Append(x.queue, Message(text))
<1>1. CASE Len(x.queue) >= MaxQueued
  <2> DEFINE y == [x EXCEPT !.deaf = TRUE]
  <2>1. /\ y \in Client /\ y.control = x.control /\ y.queue = x.queue /\ y.wire = x.wire
        /\ y.hurt = x.hurt /\ y.status = x.status /\ y.told = x.told /\ y.deaf
        /\ y.inStep = x.inStep
    BY DEF Sound, ClientOK, Client
  <2> HIDE DEF y
  <2>2. Sound(y)
    BY <2>1 DEF Sound, ClientOK, Accounted, BetweenFrames, ControlDone
  <2> QED
    BY <1>1, <2>1, <2>2 DEF Queued, y
<1>2. CASE ~ (Len(x.queue) >= MaxQueued)
  <2> DEFINE new == Message(text)
             n == Len(x.queue)
             queue == Append(x.queue, new)
             y == [x EXCEPT !.queue = queue, !.deaf = FALSE]
  <2>1. /\ x \in Client /\ x.queue \in Seq(Messages) /\ n \in Nat /\ n < MaxQueued
        /\ MaxQueued \in Nat /\ DOMAIN x.queue = 1 .. n
    BY <1>2, LedAssumption DEF Sound, ClientOK, Client
  <2>2. new \in Messages /\ new.sent = 0 /\ new.ack = 0 /\ new.acked = 0
    BY DEF Message, Messages
  <2> HIDE DEF new
  <2>3. /\ queue \in Seq(Messages) /\ Len(queue) = n + 1 /\ DOMAIN queue = 1 .. n + 1
        /\ queue # <<>> /\ Head(queue) = queue[1]
        /\ queue[n + 1] = new /\ \A i \in 1 .. n : queue[i] = x.queue[i]
    BY <2>1, <2>2
  <2>8. /\ x.queue = <<>> => Head(queue) = new
        /\ x.queue # <<>> => Head(queue) = Head(x.queue) /\ queue[1] = x.queue[1]
    BY <2>1, <2>3
  <2> HIDE DEF queue
  <2>4. /\ y \in Client /\ y.control = x.control /\ y.queue = queue /\ y.wire = x.wire
        /\ y.hurt = x.hurt /\ y.status = x.status /\ y.told = x.told
        /\ y.inStep = x.inStep
    BY <2>1, <2>3 DEF Client
  <2> HIDE DEF y, n
  <2>5. BetweenFrames(y) <=> BetweenFrames(x)
    BY <2>2, <2>3, <2>4, <2>8 DEF BetweenFrames
  <2>6. ClientOK(y)
    <3>1. \A i \in DOMAIN queue : i \in DOMAIN x.queue \/ queue[i] = new
      BY <2>1, <2>3
    <3>2. \A i \in DOMAIN x.queue : queue[i] = x.queue[i]
      BY <2>1, <2>3
    <3>3. \A i \in DOMAIN queue :
            /\ queue[i].sent = Payload => queue[i].acked < queue[i].ack
            /\ i > 1 => queue[i].sent = 0 /\ queue[i].ack = 0 /\ queue[i].acked = 0
      BY <2>2, <3>1, <3>2 DEF Sound, ClientOK, Payload
    <3> QED
      BY <2>1, <2>3, <2>4, <3>3 DEF Sound, ClientOK
  <2>7. ASSUME ~ y.hurt PROVE Accounted(y)
    BY <2>3, <2>4, <2>5, <2>7, <2>8 DEF Sound, Accounted, ControlDone
  <2> QED
    BY <1>2, <2>4, <2>6, <2>7 DEF Sound, Queued, y, queue, new
<1> QED
  BY <1>1, <1>2

LEMMA QueueMessageSound ==
  ASSUME NEW x, Sound(x), NEW w \in Outcomes, NEW text \in Texts
  PROVE  Sound(QueueMessage(x, text, w))
BY MessageQueued, RunQueueSound DEF QueueMessage, Queued

-----------------------------------------------------------------------------
(* The acknowledgement. *)

LEMMA LargestExists ==
  ASSUME NEW n \in Nat, NEW T \in SUBSET (1 .. n), T # {}
  PROVE  \E i \in T : \A j \in T : j <= i
<1> DEFINE R == OpToRel(<, Nat)
           D == {d \in Nat : n - d \in T}
<1>1. PICK k \in T : TRUE
  OBVIOUS
<1>2. D # {}
  <2>1. n - k \in Nat /\ n - (n - k) = k
    BY <1>1
  <2> QED
    BY <1>1, <2>1
<1>3. PICK d \in D : \A e \in D : ~ (<< e, d >> \in R)
  <2>1. IsWellFoundedOn(R, Nat)
    BY NatLessThanWellFounded
  <2> HIDE DEF R
  <2>2. D \subseteq Nat
    OBVIOUS
  <2> HIDE DEF D
  <2> QED
    BY <1>2, <2>1, <2>2, WFMin
<1>4. \A e \in D : ~ (e < d)
  BY <1>3 DEF OpToRel
<1>5. d \in Nat /\ n - d \in T
  BY <1>3
<1> HIDE DEF R
<1>6. \A j \in T : n - j \in D
  OBVIOUS
<1>7. \A j \in T : j <= n - d
  <2> TAKE j \in T
  <2>1. n - j \in Nat /\ ~ (n - j < d)
    BY <1>4, <1>6
  <2>2. j \in Int
    OBVIOUS
  <2>3. d \in Int /\ n \in Int
    BY <1>5
  <2> HIDE DEF D
  <2> QED
    BY <2>1, <2>2, <2>3
<1> QED
  BY <1>5, <1>7

LEMMA ReadIs ==
  ASSUME NEW x \in Client, NEW n \in DOMAIN x.wire
  PROVE  LET read == Read(x, n)
         IN  /\ read \in Client /\ read.control = x.control /\ read.queue = x.queue
             /\ read.hurt = x.hurt /\ read.status = x.status
             /\ Len(read.wire) = Len(x.wire) - n
<1> DEFINE texts == {i \in 1 .. n : x.wire[i].op = "TEXT" /\ InStep(x, i)}
           last == CHOOSE i \in texts : \A j \in texts : j <= i
           told == IF texts = {} THEN x.told ELSE x.wire[last].text
           wire == SubSeq(x.wire, n + 1, Len(x.wire))
           step == InStep(x, n)
           read == Read(x, n)
<1>1. /\ x.wire \in Seq(Frames) /\ Len(x.wire) \in Nat /\ n \in 1 .. Len(x.wire)
      /\ x.told \in Texts \cup {NoText}
  BY DEF Client
<1>2. wire \in Seq(Frames) /\ Len(wire) = Len(x.wire) - n
  BY <1>1, SubSeqProperties
<1>3. ASSUME texts # {} PROVE x.wire[last].text \in Texts \cup {NoText}
  <2>1. texts \in SUBSET (1 .. n) /\ n \in Nat
    BY <1>1
  <2> HIDE DEF texts
  <2>2. \E i \in texts : \A j \in texts : j <= i
    BY <1>3, <2>1, LargestExists
  <2>3. last \in texts
    BY <2>2
  <2> HIDE DEF last
  <2>4. last \in 1 .. Len(x.wire)
    BY <1>1, <2>1, <2>3
  <2>5. x.wire[last] \in Frames
    BY <1>1, <2>4, ElementOfSeq
  <2> QED
    BY <2>5 DEF Frames
<1> HIDE DEF last
<1>4. told \in Texts \cup {NoText}
  BY <1>1, <1>3
<1>5. read = [x EXCEPT !.wire = wire, !.inStep = step, !.told = told] /\ step \in BOOLEAN
  BY DEF Read, last, InStep
<1> HIDE DEF wire, told, step, read
<1>6. /\ read \in Client /\ read.control = x.control /\ read.queue = x.queue
      /\ read.hurt = x.hurt /\ read.status = x.status /\ read.wire = wire
  BY <1>2, <1>4, <1>5 DEF Client
<1> QED
  BY <1>2, <1>6 DEF read

LEMMA BytesAre ==
  ASSUME NEW frames \in Seq(Frames)
  PROVE  /\ Bytes(frames) \in Nat
         /\ Len(frames) >= 1 => Bytes(frames) >= Header
         /\ Len(frames) = 1 /\ frames[1].op = "TEXT" => Bytes(frames) = Header + Payload
         /\ Len(frames) = 1 /\ frames[1].op # "TEXT" => Bytes(frames) = Header
<1> DEFINE n == Len(frames)
           texts == {i \in DOMAIN frames : frames[i].op = "TEXT"}
           k == Cardinality(texts)
<1>1. n \in Nat /\ DOMAIN frames = 1 .. n
  OBVIOUS
<1>2. IsFiniteSet(1 .. n)
  BY <1>1, FS_Interval
<1>3. IsFiniteSet(texts)
  BY <1>1, <1>2, FS_Subset
<1>4. k \in Nat
  BY <1>3, FS_CardinalityType
<1>5. ASSUME n = 1, frames[1].op = "TEXT" PROVE k = 1
  <2>1. texts = {1}
    BY <1>1, <1>5
  <2> QED
    BY <2>1, FS_Singleton
<1>6. ASSUME n = 1, frames[1].op # "TEXT" PROVE k = 0
  <2>1. texts = {}
    BY <1>1, <1>6
  <2> QED
    BY <2>1, FS_EmptySet
<1>7. Bytes(frames) = Header * n + Payload * k
  BY DEF Bytes
<1> HIDE DEF n, k, texts
<1>8. /\ Bytes(frames) \in Nat
      /\ n >= 1 => Bytes(frames) >= Header
      /\ n = 1 /\ k = 1 => Bytes(frames) = Header + Payload
      /\ n = 1 /\ k = 0 => Bytes(frames) = Header
  BY <1>1, <1>4, <1>7 DEF Header, Payload
<1> QED
  BY <1>5, <1>6, <1>8 DEF n

LEMMA CreditedIs ==
  ASSUME NEW x \in Client, NEW bytes \in Nat, bytes >= Header
  PROVE  LET credited == Credited(x, bytes)
             rest == Rest(x, bytes)
         IN  /\ credited \in Client /\ rest \in Nat
             /\ credited.wire = x.wire /\ credited.hurt = x.hurt
             /\ Len(credited.queue) = Len(x.queue)
             /\ \A i \in 2 .. Len(x.queue) : credited.queue[i] = x.queue[i]
             /\ x.queue # <<>> =>
                  /\ credited.queue[1].sent = x.queue[1].sent
                  /\ credited.queue[1].ack = x.queue[1].ack
                  /\ credited.queue[1].acked = x.queue[1].acked + rest
<1> DEFINE credited == Credited(x, bytes)
           rest == Rest(x, bytes)
           message == Acked(Head(x.queue), rest)
           control == IF ControlDone(x) THEN Tail(x.control) ELSE x.control
           queue == IF x.queue = <<>> THEN <<>> ELSE [x.queue EXCEPT ![1] = message]
<1>1. /\ x.control \in Seq(Controls) /\ x.queue \in Seq(Messages) /\ Len(x.queue) \in Nat
  BY DEF Client
<1>2. rest \in Nat
  BY DEF Rest, Header
<1>3. control \in Seq(Controls)
  BY <1>1 DEF ControlDone
<1>4. credited = [x EXCEPT !.control = control, !.queue = queue]
  BY DEF Credited
<1> HIDE DEF rest, control, credited
<1>5. ASSUME x.queue # <<>>
      PROVE  /\ message \in Messages /\ message.sent = x.queue[1].sent
             /\ message.ack = x.queue[1].ack /\ message.acked = x.queue[1].acked + rest
  <2> DEFINE acked == x.queue[1].acked + rest
  <2>1. x.queue[1] \in Messages /\ Head(x.queue) = x.queue[1]
    BY <1>1, <1>5
  <2>2. acked \in Nat
    BY <1>2, <2>1 DEF Messages
  <2>3. message = [x.queue[1] EXCEPT !.acked = acked]
    BY <2>1 DEF Acked
  <2> HIDE DEF acked, message
  <2>4. /\ message \in Messages /\ message.sent = x.queue[1].sent
        /\ message.ack = x.queue[1].ack /\ message.acked = acked
    BY <2>1, <2>2, <2>3 DEF Messages
  <2> QED
    BY <2>4 DEF acked
<1> HIDE DEF message
<1>6. ASSUME x.queue # <<>>
      PROVE  /\ queue \in Seq(Messages) /\ Len(queue) = Len(x.queue) /\ queue[1] = message
             /\ \A i \in 2 .. Len(x.queue) : queue[i] = x.queue[i]
  <2>1. Len(x.queue) >= 1
    BY <1>1, <1>6
  <2> QED
    BY <1>1, <1>5, <1>6, <2>1, ReplacedFirst
<1>7. ASSUME x.queue = <<>>
      PROVE  /\ queue \in Seq(Messages) /\ Len(queue) = Len(x.queue)
             /\ \A i \in 2 .. Len(x.queue) : queue[i] = x.queue[i]
  BY <1>7
<1> HIDE DEF queue
<1>8. /\ credited \in Client /\ credited.queue = queue /\ credited.wire = x.wire
      /\ credited.hurt = x.hurt
  <2>1. queue \in Seq(Messages)
    BY <1>6, <1>7
  <2> QED
    BY <1>3, <1>4, <2>1 DEF Client
<1> QED
  BY <1>2, <1>5, <1>6, <1>7, <1>8 DEF rest, credited

\* A message that was acknowledged whole leaves its queue.
LEMMA ShortenedIs ==
  ASSUME NEW x \in Client
  PROVE  LET z == Shortened(x)
         IN  /\ z \in Client /\ z.wire = x.wire /\ z.hurt = x.hurt
             /\ ~ MessageDone(x) => z.queue = x.queue
             /\ MessageDone(x) => z.queue = Tail(x.queue)
<1> DEFINE queue == IF MessageDone(x) THEN Tail(x.queue) ELSE x.queue
           z == Shortened(x)
<1>1. queue \in Seq(Messages)
  BY DEF Client, MessageDone
<1>2. z = [x EXCEPT !.queue = queue]
  BY DEF Shortened
<1> HIDE DEF z, queue
<1>3. z \in Client /\ z.wire = x.wire /\ z.hurt = x.hurt /\ z.queue = queue
  BY <1>1, <1>2 DEF Client
<1> QED
  BY <1>3 DEF z, queue

LEMMA AckSound ==
  ASSUME NEW x, Sound(x), NEW n \in DOMAIN x.wire
  PROVE  LET credited == Credited(Read(x, n), Bytes(SubSeq(x.wire, 1, n)))
         IN  credited \in Client /\ Sound(Shortened(credited))
<1> DEFINE read == Read(x, n)
           frames == SubSeq(x.wire, 1, n)
           bytes == Bytes(frames)
           rest == Rest(read, bytes)
           credited == Credited(read, bytes)
           z == Shortened(credited)
<1>1. /\ x \in Client /\ ClientOK(x) /\ x.wire \in Seq(Frames) /\ x.queue \in Seq(Messages)
      /\ Len(x.wire) \in Nat /\ n \in 1 .. Len(x.wire) /\ Len(x.queue) \in Nat
      /\ DOMAIN x.queue = 1 .. Len(x.queue) /\ MaxQueued \in Nat /\ Window \in Nat
  BY LedAssumption DEF Sound, ClientOK, Client
<1>2. /\ read \in Client /\ read.control = x.control /\ read.queue = x.queue
      /\ read.hurt = x.hurt /\ Len(read.wire) = Len(x.wire) - n
  BY <1>1, ReadIs
<1>3. frames \in Seq(Frames) /\ Len(frames) = n /\ frames[1] = x.wire[1]
  <2>1. 1 \in 1 .. Len(x.wire) + 1 /\ n \in 0 .. Len(x.wire) /\ n - 1 + 1 = n /\ 1 <= n
    BY <1>1
  <2>2. frames \in Seq(Frames) /\ Len(frames) = n
    BY <1>1, <2>1
  <2>3. frames[1] = x.wire[1]
    BY <1>1, <2>1
  <2> QED
    BY <2>2, <2>3
<1> HIDE DEF read, frames
<1>4. /\ bytes \in Nat /\ bytes >= Header
      /\ n = 1 /\ x.wire[1].op = "TEXT" => bytes = Header + Payload
      /\ n = 1 /\ x.wire[1].op # "TEXT" => bytes = Header
  <2>1. n >= 1
    BY <1>1
  <2>2. /\ Bytes(frames) \in Nat
        /\ Len(frames) >= 1 => Bytes(frames) >= Header
        /\ Len(frames) = 1 /\ frames[1].op = "TEXT" => Bytes(frames) = Header + Payload
        /\ Len(frames) = 1 /\ frames[1].op # "TEXT" => Bytes(frames) = Header
    BY <1>3, BytesAre
  <2> QED
    BY <1>3, <2>1, <2>2
<1> HIDE DEF bytes
<1>5. /\ credited \in Client /\ rest \in Nat
      /\ credited.wire = read.wire /\ credited.hurt = x.hurt
      /\ Len(credited.queue) = Len(x.queue)
      /\ \A i \in 2 .. Len(x.queue) : credited.queue[i] = x.queue[i]
      /\ x.queue # <<>> =>
           /\ credited.queue[1].sent = x.queue[1].sent
           /\ credited.queue[1].ack = x.queue[1].ack
           /\ credited.queue[1].acked = x.queue[1].acked + rest
  BY <1>2, <1>4, CreditedIs
<1>6. rest = bytes - (IF ControlDone(x) THEN Header ELSE 0)
  BY <1>2 DEF Rest, ControlDone
<1> HIDE DEF rest, credited
<1>7. /\ z \in Client /\ z.wire = read.wire /\ z.hurt = x.hurt
      /\ ~ MessageDone(credited) => z.queue = credited.queue
      /\ MessageDone(credited) => z.queue = Tail(credited.queue)
  BY <1>5, ShortenedIs
<1> HIDE DEF z
<1>8. /\ credited.queue \in Seq(Messages)
      /\ credited.queue # <<>> <=> x.queue # <<>>
      /\ credited.queue # <<>> => Head(credited.queue) = credited.queue[1]
  BY <1>1, <1>5 DEF Client
\* The messages behind the front one were not tried.
<1>9. \A i \in 2 .. Len(x.queue) :
        credited.queue[i].sent = 0 /\ credited.queue[i].ack = 0 /\ credited.queue[i].acked = 0
  <2>1. \A i \in 2 .. Len(x.queue) : i \in DOMAIN x.queue /\ i > 1
    BY <1>1
  <2>2. \A i \in DOMAIN x.queue :
          i > 1 => x.queue[i].sent = 0 /\ x.queue[i].ack = 0 /\ x.queue[i].acked = 0
    BY <1>1 DEF ClientOK
  <2> QED
    BY <1>5, <2>1, <2>2
<1>10. ASSUME MessageDone(credited)
       PROVE  /\ z.queue \in Seq(Messages) /\ Len(z.queue) <= MaxQueued
              /\ \A i \in DOMAIN z.queue :
                   z.queue[i].sent = 0 /\ z.queue[i].ack = 0 /\ z.queue[i].acked = 0
  <2>1. z.queue = Tail(credited.queue) /\ credited.queue # <<>>
    BY <1>7, <1>10 DEF MessageDone
  <2>2. /\ z.queue \in Seq(Messages) /\ Len(z.queue) = Len(x.queue) - 1
        /\ \A i \in 1 .. Len(z.queue) : z.queue[i] = credited.queue[i + 1]
    BY <1>5, <1>8, <2>1
  <2>3. \A i \in DOMAIN z.queue : i + 1 \in 2 .. Len(x.queue)
    BY <1>1, <2>2
  <2>4. Len(x.queue) <= MaxQueued
    BY <1>1 DEF ClientOK
  <2>5. Len(z.queue) <= MaxQueued
    BY <1>1, <2>2, <2>4
  <2>6. \A i \in DOMAIN z.queue : z.queue[i] = credited.queue[i + 1]
    BY <2>2
  <2> QED
    BY <1>9, <2>2, <2>3, <2>5, <2>6
<1>11. ClientOK(z)
  <2>1. Len(z.wire) <= Window
    BY <1>1, <1>2, <1>7 DEF ClientOK
  <2>2. CASE MessageDone(credited)
    BY <1>7, <1>10, <2>1, <2>2 DEF ClientOK, Payload
  <2>3. CASE ~ MessageDone(credited)
    <3>1. z.queue = credited.queue /\ DOMAIN z.queue = 1 .. Len(x.queue)
      BY <1>5, <1>7, <1>8, <2>3
    <3>2. ASSUME x.queue # <<>>, z.queue[1].sent = Payload
          PROVE  z.queue[1].acked < z.queue[1].ack
      <4>1. z.queue[1] \in Messages /\ z.queue[1] = Head(credited.queue)
        BY <1>8, <3>1, <3>2
      <4>2. ~ (z.queue[1].acked >= z.queue[1].ack)
        BY <1>8, <2>3, <3>1, <3>2, <4>1 DEF MessageDone, Payload
      <4> QED
        BY <4>1, <4>2 DEF Messages
    <3>3. \A i \in DOMAIN z.queue : i \in 2 .. Len(x.queue) \/ (i = 1 /\ x.queue # <<>>)
      BY <1>1, <3>1
    <3>4. \A i \in DOMAIN z.queue :
            /\ z.queue[i].sent = Payload => z.queue[i].acked < z.queue[i].ack
            /\ i > 1 => z.queue[i].sent = 0 /\ z.queue[i].ack = 0 /\ z.queue[i].acked = 0
      BY <1>9, <3>1, <3>2, <3>3 DEF Payload
    <3>5. Len(z.queue) <= MaxQueued
      BY <1>1, <1>5, <3>1 DEF ClientOK
    <3> QED
      BY <1>7, <2>1, <3>4, <3>5 DEF ClientOK
  <2> QED
    BY <2>2, <2>3
<1>12. ASSUME ~ z.hurt PROVE Accounted(z)
  <2>1. Accounted(x)
    BY <1>7, <1>12 DEF Sound
  <2>2. Len(x.wire) = 1 /\ n = 1 /\ z.wire = <<>>
    <3>1. Len(x.wire) = 1
      BY <1>1, <2>1 DEF Accounted
    <3>2. n = 1 /\ Len(z.wire) = 0
      BY <1>1, <1>2, <1>7, <3>1
    <3>3. z.wire \in Seq(Frames)
      BY <1>7 DEF Client
    <3> QED
      BY <3>1, <3>2, <3>3
  <2>3. CASE x.wire[1].op # "TEXT"
    <3>1. ControlDone(x) /\ BetweenFrames(x)
      BY <2>1, <2>2, <2>3 DEF Accounted
    <3>2. rest = 0
      BY <1>4, <1>6, <2>2, <2>3, <3>1 DEF Header
    <3>3. CASE x.queue = <<>>
      BY <1>7, <1>8, <2>2, <3>3 DEF Accounted, BetweenFrames, MessageDone
    <3>4. CASE x.queue # <<>>
      <4>1. /\ x.queue[1].acked = x.queue[1].ack /\ x.queue[1].sent = 0
            /\ x.queue[1] \in Messages
        BY <1>1, <3>1, <3>4, FrontFree
      <4>2. credited.queue[1].acked = credited.queue[1].ack /\ credited.queue[1].sent = 0
        BY <1>5, <3>2, <3>4, <4>1 DEF Messages
      <4>3. ~ MessageDone(credited)
        BY <1>8, <3>4, <4>2 DEF MessageDone, Payload
      <4> QED
        BY <1>7, <1>8, <2>2, <3>4, <4>2, <4>3 DEF Accounted, BetweenFrames
    <3> QED
      BY <3>3, <3>4
  <2>4. CASE x.wire[1].op = "TEXT"
    <3>1. /\ ~ ControlDone(x) /\ x.queue # <<>> /\ x.queue[1].sent = Payload
          /\ x.queue[1].ack = x.queue[1].acked + Header + Payload
      BY <2>1, <2>2, <2>4 DEF Accounted
    <3>2. rest = Header + Payload
      BY <1>4, <1>6, <2>2, <2>4, <3>1 DEF Header, Payload
    <3>3. x.queue[1] \in Messages
      BY <1>1, <3>1
    <3>4. credited.queue[1].sent = Payload /\ credited.queue[1].acked = credited.queue[1].ack
      BY <1>5, <3>1, <3>2, <3>3 DEF Messages, Header, Payload
    <3>5. credited.queue[1] \in Messages
      BY <1>8, <3>1
    <3>6. MessageDone(credited)
      BY <1>8, <3>1, <3>4, <3>5 DEF MessageDone, Messages, Payload
    <3>7. z.queue = <<>> \/ Head(z.queue).acked = Head(z.queue).ack
      BY <1>10, <3>6
    <3> QED
      BY <2>2, <3>7 DEF Accounted, BetweenFrames
  <2> QED
    BY <2>3, <2>4
<1> QED
  BY <1>5, <1>11, <1>12 DEF Sound, z, credited, bytes, frames, read

-----------------------------------------------------------------------------
(* The whole. *)

Spending == [conns : SUBSET Conns, pings : 0 .. MaxPings, faults : 0 .. MaxFaults]

ConnsSound == conn \in [Conns -> Client] /\ \A c \in Conns : Sound(conn[c])

Listed ==
  /\ clients \in Seq(Conns) /\ Live \subseteq spent.conns
  /\ \A i, j \in DOMAIN clients : clients[i] = clients[j] => i = j

Shared == leds \in 0 .. MaxToggles /\ DOMAIN buffers \subseteq Texts /\ spent \in Spending

LedInv == Listed /\ Shared /\ ConnsSound

LEMMA LiveAreConns ==
  ASSUME Listed
  PROVE  Live \subseteq Conns
BY DEF Listed, Live

LEMMA LimitsAreNat == /\ MaxToggles \in Nat /\ MaxPings \in Nat /\ MaxFaults \in Nat
                      /\ MaxQueued \in Nat \ {0} /\ Window \in Nat \ {0}
BY LedAssumption

LEMMA CountedIs ==
  ASSUME spent \in Spending, NEW w \in Outcome
  PROVE  LET counted == Counted(w)
         IN  /\ counted \in Spending /\ counted.conns = spent.conns
             /\ counted.pings = spent.pings /\ w \in Outcomes
<1> DEFINE faults == spent.faults + (IF w = "written" THEN 0 ELSE 1)
           counted == Counted(w)
<1>1. faults \in 0 .. MaxFaults
  BY LimitsAreNat DEF Spending, Outcome
<1>2. w \in Outcomes
  BY DEF Outcome, Outcomes
<1>3. counted = [spent EXCEPT !.faults = faults]
  BY DEF Counted
<1> HIDE DEF faults, counted
<1>4. counted \in Spending /\ counted.conns = spent.conns /\ counted.pings = spent.pings
  BY <1>1, <1>3 DEF Spending
<1> QED
  BY <1>2, <1>4 DEF counted

LEMMA OneConnSound ==
  ASSUME ConnsSound, NEW c \in Conns, NEW y, Sound(y), conn' = [conn EXCEPT ![c] = y]
  PROVE  ConnsSound'
<1>1. y \in Client
  BY DEF Sound, ClientOK
<1>2. conn' \in [Conns -> Client]
  BY <1>1 DEF ConnsSound
<1>3. \A d \in Conns : Sound(conn'[d])
  BY DEF ConnsSound
<1> QED
  BY <1>2, <1>3 DEF ConnsSound

LEMMA RemoveAtIs ==
  ASSUME NEW s \in Seq(Conns), NEW i \in DOMAIN s,
         \A j, k \in DOMAIN s : s[j] = s[k] => j = k
  PROVE  LET r == RemoveAt(s, i)
         IN  /\ r \in Seq(Conns)
             /\ \A j \in DOMAIN r : \E k \in DOMAIN s : r[j] = s[k]
             /\ \A j, k \in DOMAIN r : r[j] = r[k] => j = k
<1> DEFINE r == RemoveAt(s, i)
           front == SubSeq(s, 1, i - 1)
           back == SubSeq(s, i + 1, Len(s))
           old == [j \in DOMAIN r |-> IF j < i THEN j ELSE j + 1]
<1>1. i \in 1 .. Len(s) /\ Len(s) \in Nat /\ DOMAIN s = 1 .. Len(s)
  OBVIOUS
<1>2. /\ front \in Seq(Conns) /\ Len(front) = i - 1
      /\ \A j \in 1 .. i - 1 : front[j] = s[j]
  BY <1>1
<1>3. /\ back \in Seq(Conns) /\ Len(back) = Len(s) - i
      /\ \A j \in 1 .. Len(s) - i : back[j] = s[j + i]
  BY <1>1
<1>4. r = front \o back
  BY DEF RemoveAt
<1> HIDE DEF r, front, back
<1>5. r \in Seq(Conns) /\ Len(r) = Len(s) - 1
  <2>1. r \in Seq(Conns) /\ Len(r) = Len(front) + Len(back)
    BY <1>2, <1>3, <1>4, ConcatProperties
  <2> QED
    BY <1>1, <1>2, <1>3, <2>1
<1>6. DOMAIN r = 1 .. Len(s) - 1
  BY <1>5
<1>7. \A j \in DOMAIN r : old[j] \in DOMAIN s /\ r[j] = s[old[j]]
  <2> TAKE j \in DOMAIN r
  <2>1. j \in 1 .. Len(s) - 1 /\ Len(s) \in Nat
    BY <1>1, <1>6
  <2>2. CASE j < i
    <3>1. r[j] = front[j] /\ j \in 1 .. i - 1
      BY <1>1, <1>2, <1>3, <1>4, <2>1, <2>2
    <3> QED
      BY <1>1, <1>2, <2>1, <2>2, <3>1
  <2>3. CASE ~ (j < i)
    <3>1. r[j] = back[j - (i - 1)] /\ j - (i - 1) \in 1 .. Len(s) - i
      BY <1>1, <1>2, <1>3, <1>4, <2>1, <2>3
    <3>2. j - (i - 1) + i = j + 1
      BY <1>1, <2>1
    <3> QED
      BY <1>1, <1>3, <2>1, <2>3, <3>1, <3>2
  <2> QED
    BY <2>2, <2>3
<1>8. \A j, k \in DOMAIN r : old[j] = old[k] => j = k
  BY <1>1, <1>6
<1> HIDE DEF old
<1> QED
  BY <1>5, <1>7, <1>8 DEF r

LEMMA DropSound ==
  ASSUME LedInv, NEW c \in Conns, Drop(c), UNCHANGED spent, UNCHANGED leds
  PROVE  LedInv'
<1>1. PICK i \in DOMAIN clients : clients[i] = c /\ clients' = RemoveAt(clients, i)
  BY DEF Drop
<1>2. Listed'
  <2>1. /\ clients' \in Seq(Conns)
        /\ \A j \in DOMAIN clients' : \E k \in DOMAIN clients : clients'[j] = clients[k]
        /\ \A j, k \in DOMAIN clients' : clients'[j] = clients'[k] => j = k
    BY <1>1, RemoveAtIs DEF LedInv, Listed
  <2>2. Live' \subseteq Live
    BY <2>1 DEF Live
  <2> QED
    BY <2>1, <2>2 DEF LedInv, Listed
<1>3. ConnsSound'
  BY FreshSound, OneConnSound DEF LedInv, Drop
<1>4. Shared'
  BY DEF LedInv, Shared, Drop, Released
<1> QED
  BY <1>2, <1>3, <1>4 DEF LedInv

LEMMA ConnectSound ==
  ASSUME LedInv, NEW c \in Conns, Connect(c)
  PROVE  LedInv'
<1> DEFINE used == spent.conns \cup {c}
<1>1. clients \in Seq(Conns) /\ Len(clients) \in Nat /\ c \notin Live
  BY DEF LedInv, Listed, Connect
<1>2. clients' = Append(clients, c) /\ clients' \in Seq(Conns)
  BY <1>1 DEF Connect
<1>3. spent' \in Spending /\ spent'.conns = used
  <2>1. spent' = [spent EXCEPT !.conns = used] /\ spent \in Spending
    BY DEF Connect, LedInv, Shared
  <2>2. used \in SUBSET Conns
    BY DEF LedInv, Shared, Spending
  <2> HIDE DEF used
  <2> QED
    BY <2>1, <2>2 DEF Spending
<1>4. /\ DOMAIN clients' = 1 .. Len(clients) + 1
      /\ clients'[Len(clients) + 1] = c
      /\ \A j \in DOMAIN clients : j \in DOMAIN clients' /\ clients'[j] = clients[j]
      /\ \A j \in DOMAIN clients' : j \in DOMAIN clients \/ j = Len(clients) + 1
  BY <1>1, <1>2
<1>5. Live' \subseteq used
  BY <1>4 DEF LedInv, Listed, Live
<1>6. \A j, k \in DOMAIN clients' : clients'[j] = clients'[k] => j = k
  <2>1. \A j \in DOMAIN clients : clients[j] # c
    BY <1>1 DEF Live
  <2> QED
    BY <1>4, <2>1 DEF LedInv, Listed
<1>7. Listed'
  BY <1>2, <1>3, <1>5, <1>6 DEF Listed
<1> QED
  BY <1>3, <1>7 DEF LedInv, Shared, ConnsSound, Connect

\* A handler that touches one client and leaves the list of clients alone.
LEMMA HandlerSound ==
  ASSUME LedInv, NEW c \in Conns, NEW y, Sound(y), conn' = [conn EXCEPT ![c] = y],
         UNCHANGED <<leds, clients>>, DOMAIN buffers' \subseteq Texts,
         spent' \in Spending, spent'.conns = spent.conns
  PROVE  LedInv'
BY OneConnSound DEF LedInv, Listed, Shared, Live

LEMMA PingSound ==
  ASSUME LedInv, NEW c \in Conns, NEW w \in Outcome, Ping(c, w)
  PROVE  LedInv'
<1> DEFINE counted == Counted(w)
           pings == spent.pings + 1
           y == QueueControl(conn[c], "PONG", w)
<1>1. /\ counted \in Spending /\ counted.conns = spent.conns /\ counted.pings = spent.pings
      /\ w \in Outcomes /\ pings \in 0 .. MaxPings
  BY CountedIs, LimitsAreNat DEF LedInv, Shared, Ping, Spending
<1>2. Sound(y)
  BY <1>1, QueueControlSound DEF LedInv, ConnsSound
<1>3. conn' = [conn EXCEPT ![c] = y]
  BY DEF Ping
<1>4. spent' = [counted EXCEPT !.pings = pings]
  BY <1>1 DEF Ping
<1> HIDE DEF counted, pings, y
<1>5. spent' \in Spending /\ spent'.conns = spent.conns
  BY <1>1, <1>4 DEF Spending
<1> QED
  BY <1>2, <1>3, <1>5, HandlerSound DEF Ping, LedInv, Shared

LEMMA PeerClosesSound ==
  ASSUME LedInv, NEW c \in Conns, NEW w \in Outcome, PeerCloses(c, w)
  PROVE  LedInv'
<1> DEFINE x == conn[c]
           closing == [x EXCEPT !.status = "DISCONNECTING"]
           y == QueueControl(closing, "CLOSE", w)
<1>1. Counted(w) \in Spending /\ Counted(w).conns = spent.conns /\ w \in Outcomes
  BY CountedIs DEF LedInv, Shared
<1>2. Sound(x) /\ x \in Client
  BY DEF LedInv, ConnsSound
<1>3. conn' = [conn EXCEPT ![c] = y]
  BY DEF PeerCloses
<1> HIDE DEF x
<1>4. /\ closing \in Client /\ closing.control = x.control /\ closing.queue = x.queue
      /\ closing.wire = x.wire /\ closing.hurt = x.hurt
  BY <1>2 DEF Client
<1> HIDE DEF closing
<1>5. Sound(closing)
  BY <1>2, <1>4 DEF Sound, ClientOK, Accounted, BetweenFrames, ControlDone
<1>6. Sound(y)
  BY <1>1, <1>5, QueueControlSound
<1> QED
  BY <1>1, <1>3, <1>6, HandlerSound DEF PeerCloses, LedInv, Shared

LEMMA PollSound ==
  ASSUME LedInv, NEW c \in Conns, NEW w \in Outcome, Poll(c, w)
  PROVE  LedInv'
<1>1. Counted(w) \in Spending /\ Counted(w).conns = spent.conns /\ w \in Outcomes
  BY CountedIs DEF LedInv, Shared
<1>2. Sound(RunQueue(conn[c], w))
  BY <1>1, RunQueueSound DEF LedInv, ConnsSound
<1> QED
  BY <1>1, <1>2, HandlerSound DEF Poll, LedInv, Shared

LEMMA CleanupSound ==
  ASSUME LedInv, NEW w \in Outcome, Cleanup(w)
  PROVE  LedInv'
<1> DEFINE c == Head(clients)
           y == QueueControl(conn[c], "CLOSE", w)
<1>1. Counted(w) \in Spending /\ Counted(w).conns = spent.conns /\ w \in Outcomes
  BY CountedIs DEF LedInv, Shared
<1>2. c \in Conns
  BY LiveAreConns DEF LedInv, Cleanup, Connected
<1>3. conn' = [conn EXCEPT ![c] = y]
  BY DEF Cleanup
<1> HIDE DEF c
<1>4. Sound(y)
  BY <1>1, <1>2, QueueControlSound DEF LedInv, ConnsSound
<1> QED
  BY <1>1, <1>2, <1>3, <1>4, HandlerSound DEF Cleanup, LedInv, Shared

LEMMA ToggleSound ==
  ASSUME LedInv, NEW c \in Conns, NEW failing \in Conns, NEW w \in Outcome,
         Toggle(c, failing, w)
  PROVE  LedInv'
<1> DEFINE text == leds + 1
           how(d) == IF d = failing THEN w ELSE "written"
<1>1. Counted(w) \in Spending /\ Counted(w).conns = spent.conns /\ w \in Outcomes
  BY CountedIs DEF LedInv, Shared
<1>2. text \in Texts /\ leds' \in 0 .. MaxToggles
  BY LimitsAreNat DEF LedInv, Shared, Toggle, Texts
<1>3. \A d \in Conns : how(d) \in Outcomes
  BY <1>1 DEF Outcomes
<1>4. conn' = [d \in Conns |-> IF Connected(d) THEN QueueMessage(conn[d], text, how(d))
                               ELSE conn[d]]
  BY DEF Toggle
<1> HIDE DEF how, text
<1>5. \A d \in Conns : Sound(conn'[d])
  BY <1>2, <1>3, <1>4, QueueMessageSound DEF LedInv, ConnsSound
<1>6. ConnsSound'
  <2>1. \A d \in Conns : conn'[d] \in Client
    BY <1>5 DEF Sound, ClientOK
  <2> QED
    BY <1>4, <1>5, <2>1 DEF ConnsSound
<1>7. DOMAIN buffers' \subseteq Texts
  BY <1>2 DEF Toggle, Clean, LedInv, Shared, text
<1> QED
  BY <1>1, <1>2, <1>6, <1>7 DEF LedInv, Listed, Shared, Live, Toggle

LEMMA OnAckSound ==
  ASSUME LedInv, NEW c \in Conns, NEW w \in Outcome, NEW n \in DOMAIN conn[c].wire,
         OnAck(c, n, w)
  PROVE  LedInv'
<1> DEFINE x == conn[c]
           read == Read(x, n)
           bytes == Bytes(SubSeq(x.wire, 1, n))
           credited == Credited(read, bytes)
           y == RunQueue(Shortened(credited), w)
<1>1. Counted(w) \in Spending /\ Counted(w).conns = spent.conns /\ w \in Outcomes
  BY CountedIs DEF LedInv, Shared
<1>2. Sound(x)
  BY DEF LedInv, ConnsSound
<1>3. Sound(Shortened(credited))
  BY <1>2, AckSound
<1>4. Sound(y)
  BY <1>1, <1>3, RunQueueSound
<1>5. ASSUME Drop(c), UNCHANGED spent PROVE LedInv'
  BY <1>5, DropSound DEF OnAck
<1>6. ASSUME conn' = [conn EXCEPT ![c] = y], DOMAIN buffers' \subseteq Texts,
             spent' = Counted(w), UNCHANGED <<leds, clients>>
      PROVE  LedInv'
  <2> HIDE DEF y
  <2> QED
    BY <1>1, <1>4, <1>6, HandlerSound
<1>7. \A done : DOMAIN Released(Clean(buffers), done) \subseteq Texts
  BY DEF Released, Clean, LedInv, Shared
<1>8. UNCHANGED leds
  BY DEF OnAck
<1>9. \/ Drop(c) /\ UNCHANGED spent
      \/ /\ conn' = [conn EXCEPT ![c] = y] /\ UNCHANGED clients /\ spent' = Counted(w)
         /\ \E done : buffers' = Released(Clean(buffers), done)
  BY Zenon DEF OnAck
<1> QED
  BY <1>5, <1>6, <1>7, <1>8, <1>9

LEMMA LedStep ==
  ASSUME LedInv, [Next]_vars
  PROVE  LedInv'
<1>1. ASSUME NEW c \in Conns, Connect(c) PROVE LedInv'
  BY <1>1, ConnectSound
<1>2. ASSUME NEW c \in Conns, Disconnect(c) PROVE LedInv'
  BY <1>2, DropSound DEF Disconnect
<1>3. ASSUME NEW c \in Conns, NEW failing \in Conns, NEW w \in Outcome,
             Toggle(c, failing, w)
      PROVE  LedInv'
  BY <1>3, ToggleSound
<1>4. ASSUME NEW c \in Conns, NEW w \in Outcome, Ping(c, w) PROVE LedInv'
  BY <1>4, PingSound
<1>5. ASSUME NEW c \in Conns, NEW w \in Outcome, PeerCloses(c, w) PROVE LedInv'
  BY <1>5, PeerClosesSound
<1>6. ASSUME NEW c \in Conns, NEW w \in Outcome, Acks(c, w) PROVE LedInv'
  BY <1>6, OnAckSound DEF Acks
<1>7. ASSUME NEW c \in Conns, NEW w \in Outcome, Poll(c, w) PROVE LedInv'
  BY <1>7, PollSound
<1>8. ASSUME NEW w \in Outcome, Cleanup(w) PROVE LedInv'
  BY <1>8, CleanupSound
<1>9. CASE UNCHANGED vars
  BY <1>9 DEF vars, LedInv, Listed, Shared, ConnsSound, Live
<1> QED
  BY <1>1, <1>2, <1>3, <1>4, <1>5, <1>6, <1>7, <1>8, <1>9 DEF Next

LEMMA LedInit ==
  ASSUME Init
  PROVE  LedInv
<1>1. Listed /\ Shared
  BY LimitsAreNat DEF Init, Listed, Shared, Live, Spending
<1>2. Fresh \in Client
  BY FreshSound DEF Sound, ClientOK
<1>3. ConnsSound
  BY <1>2, FreshSound DEF Init, ConnsSound
<1> QED
  BY <1>1, <1>3 DEF LedInv

LEMMA LedInvHolds == Spec => []LedInv
<1>1. Init => LedInv
  BY LedInit
<1>2. LedInv /\ [Next]_vars => LedInv'
  BY LedStep
<1> QED
  BY <1>1, <1>2, PTL DEF Spec

\* Queues, streams and lists of clients keep their shapes, no queue outgrows its limit
\* and no stream its buffer, whatever is queued, fails, is acknowledged or goes
\* (AsyncWebSocket.cpp:494-535, 541-564, 866-875).
THEOREM TypeCorrect == Spec => []TypeOK
<1>1. LedInv => TypeOK
  <2> SUFFICES ASSUME LedInv PROVE TypeOK
    OBVIOUS
  <2>1. \A c \in Conns : conn[c] \in Client /\ Len(conn[c].queue) <= MaxQueued
                                              /\ Len(conn[c].wire) <= Window
    BY DEF LedInv, ConnsSound, Sound, ClientOK
  <2> QED
    BY <2>1 DEF LedInv, Listed, Shared, Spending, TypeOK, Client, Controls, Frames
<1> QED
  BY <1>1, LedInvHolds, PTL

\* A client to which nothing more will be sent had a control frame sent twice, or a
\* write that failed: the bytes of any other acknowledgement are what its frame waits
\* for (AsyncWebSocket.cpp:494-535).
THEOREM JamsHaveACause == Spec => []JamNeedsCause
<1>1. LedInv => JamNeedsCause
  <2> SUFFICES ASSUME LedInv, NEW c \in Conns, Jammed(c) PROVE conn[c].hurt
    BY LiveAreConns DEF LedInv, JamNeedsCause
  <2>1. Sound(conn[c])
    BY DEF LedInv, ConnsSound
  <2>2. ~ Accounted(conn[c])
    BY DEF Accounted, Jammed
  <2> QED
    BY <2>1, <2>2 DEF Sound
<1> QED
  BY <1>1, LedInvHolds, PTL

=============================================================================
