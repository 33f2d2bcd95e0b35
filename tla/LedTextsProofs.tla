---------------------------- MODULE LedTextsProofs ----------------------------
(***************************************************************************)
(* The texts of LedSocket: in which order a client is told of the LEDs,    *)
(* and who counts the references to a text.                                *)
(***************************************************************************)
EXTENDS LedSocketProofs, FunctionTheorems

-----------------------------------------------------------------------------
(* The texts of one client. *)

OnWire(x) == {i \in DOMAIN x.wire : x.wire[i].op = "TEXT"}

\* From what the peer has read, along the wire, to what is queued, no text is older than
\* the one before it, nor newer than the last toggle.
InOrder(x, top) ==
  /\ x.told <= top
  /\ \A i \in OnWire(x) : x.told <= x.wire[i].text /\ x.wire[i].text <= top
  /\ \A i, j \in OnWire(x) : i <= j => x.wire[i].text <= x.wire[j].text
  /\ \A k \in DOMAIN x.queue : x.told <= x.queue[k].text /\ x.queue[k].text <= top
  /\ \A i \in OnWire(x), k \in DOMAIN x.queue : x.wire[i].text <= x.queue[k].text
  /\ \A k, l \in DOMAIN x.queue : k <= l => x.queue[k].text <= x.queue[l].text

\* The text was written, and its peer may have read it.
Carried(x, text) == x.told = text \/ \E i \in OnWire(x) : x.wire[i].text = text

\* No header went out without its payload: the peer reads all that is on the wire.
Legible(x) == InStep(x, Len(x.wire))

\* A message that went out stays in front until it is acknowledged.
FrontCarried(x) ==
  x.queue # <<>> /\ x.queue[1].sent = Payload /\ Legible(x) => Carried(x, x.queue[1].text)

\* The last toggle is at the end of the queue, or on its way, or was read.
Latest(x, top) ==
  x.status = "CONNECTED" /\ ~ x.deaf /\ Legible(x) =>
    IF x.queue = <<>> THEN Carried(x, top) ELSE x.queue[Len(x.queue)].text = top

Tidy(x, top) == InOrder(x, top) /\ FrontCarried(x)

\* Connections that never came up are as they were made; the others are told in order.
TextsInv ==
  /\ LedInv
  /\ \A c \in Conns : Tidy(conn[c], leds)
  /\ \A c \in Live : Latest(conn[c], leds)
  /\ \A c \in Conns \ spent.conns : conn[c] = Fresh

-----------------------------------------------------------------------------
(* The queues run: at most the front text goes, and stays in its queue. *)

SameTexts(q, r) == DOMAIN r = DOMAIN q /\ \A k \in DOMAIN q : r[k].text = q[k].text

Ran(x, y) ==
  /\ y \in Client /\ y.status = x.status /\ y.told = x.told /\ y.deaf = x.deaf
  /\ Legible(y) => Legible(x)
  /\ SameTexts(x.queue, y.queue)
  /\ \A i \in OnWire(x) : i \in OnWire(y) /\ y.wire[i].text = x.wire[i].text
  /\ \A i \in OnWire(y) :
       \/ i \in OnWire(x)
       \/ i = Len(x.wire) + 1 /\ x.queue # <<>> /\ y.wire[i].text = x.queue[1].text
  /\ \/ \A k \in DOMAIN x.queue : y.queue[k].sent = x.queue[k].sent
     \/ x.queue # <<>> /\ Carried(y, x.queue[1].text)

LEMMA AppendIs ==
  ASSUME NEW s \in Seq(Frames), NEW f \in Frames, NEW r, r = Append(s, f)
  PROVE  /\ DOMAIN r = 1 .. Len(s) + 1 /\ DOMAIN s = 1 .. Len(s) /\ Len(s) \in Nat
         /\ r[Len(s) + 1] = f /\ Len(s) + 1 \in DOMAIN r
         /\ \A i \in DOMAIN s : i \in DOMAIN r /\ r[i] = s[i]
         /\ \A i \in DOMAIN r : i \in DOMAIN s \/ i = Len(s) + 1
OBVIOUS

LEMMA AppendLegible ==
  ASSUME NEW x, NEW y, x.wire \in Seq(Frames), NEW f \in Frames,
         y.wire = Append(x.wire, f), y.inStep = x.inStep
  PROVE  Legible(y) => Legible(x)
<1>1. /\ Len(y.wire) = Len(x.wire) + 1 /\ Len(x.wire) \in Nat
      /\ \A i \in 1 .. Len(x.wire) : y.wire[i] = x.wire[i]
  BY AppendProperties
<1>2. \A i \in 1 .. Len(x.wire) : i \in 1 .. Len(y.wire)
  BY <1>1
<1> QED
  BY <1>1, <1>2 DEF Legible, InStep

LEMMA WrittenRan ==
  ASSUME NEW x \in Client, NEW y \in Client, y.status = x.status, y.told = x.told,
         y.deaf = x.deaf, y.inStep = x.inStep, SameTexts(x.queue, y.queue),
         \/ /\ y.wire = x.wire
            /\ \A k \in DOMAIN x.queue : y.queue[k].sent = x.queue[k].sent
         \/ /\ \E f \in Frames : f.op # "TEXT" /\ y.wire = Append(x.wire, f)
            /\ \A k \in DOMAIN x.queue : y.queue[k].sent = x.queue[k].sent
         \/ /\ x.queue # <<>>
            /\ \E f \in Frames : /\ f.op = "TEXT" /\ f.text = x.queue[1].text
                                 /\ y.wire = Append(x.wire, f)
  PROVE  Ran(x, y)
<1>1. x.wire \in Seq(Frames)
  BY DEF Client
<1>2. CASE /\ y.wire = x.wire
           /\ \A k \in DOMAIN x.queue : y.queue[k].sent = x.queue[k].sent
  BY <1>2 DEF Ran, OnWire, Legible, InStep
<1>3. CASE /\ \E f \in Frames : f.op # "TEXT" /\ y.wire = Append(x.wire, f)
           /\ \A k \in DOMAIN x.queue : y.queue[k].sent = x.queue[k].sent
  <2>1. PICK f \in Frames : f.op # "TEXT" /\ y.wire = Append(x.wire, f)
    BY <1>3
  <2>2. /\ y.wire[Len(x.wire) + 1] = f /\ \A i \in DOMAIN x.wire : i \in DOMAIN y.wire /\ y.wire[i] = x.wire[i]
        /\ \A i \in DOMAIN y.wire : i \in DOMAIN x.wire \/ i = Len(x.wire) + 1
    BY <1>1, <2>1, AppendIs
  <2>3. Legible(y) => Legible(x)
    BY <1>1, <2>1, AppendLegible
  <2> QED
    BY <1>3, <2>1, <2>2, <2>3 DEF Ran, OnWire
<1>4. CASE /\ x.queue # <<>>
           /\ \E f \in Frames : /\ f.op = "TEXT" /\ f.text = x.queue[1].text
                                /\ y.wire = Append(x.wire, f)
  <2>1. PICK f \in Frames : f.op = "TEXT" /\ f.text = x.queue[1].text /\ y.wire = Append(x.wire, f)
    BY <1>4
  <2>2. /\ y.wire[Len(x.wire) + 1] = f /\ \A i \in DOMAIN x.wire : i \in DOMAIN y.wire /\ y.wire[i] = x.wire[i]
        /\ \A i \in DOMAIN y.wire : i \in DOMAIN x.wire \/ i = Len(x.wire) + 1
        /\ Len(x.wire) + 1 \in DOMAIN y.wire
    BY <1>1, <2>1, AppendIs
  <2>3. Len(x.wire) + 1 \in OnWire(y) /\ y.wire[Len(x.wire) + 1].text = x.queue[1].text
    BY <2>1, <2>2 DEF OnWire
  <2>4. Carried(y, x.queue[1].text)
    BY <2>3 DEF Carried
  <2>5. Legible(y) => Legible(x)
    BY <1>1, <2>1, AppendLegible
  <2> QED
    BY <1>4, <2>1, <2>2, <2>3, <2>4, <2>5 DEF Ran, OnWire
<1> QED
  BY <1>2, <1>3, <1>4

LEMMA SendControlRan ==
  ASSUME NEW x, Sound(x), NEW w \in Outcomes, x.control # <<>>
  PROVE  Ran(x, SendControl(x, w))
<1> DEFINE y == SendControl(x, w)
           control == [x.control EXCEPT ![1].finished = TRUE]
           frame == Frame(Head(x.control).op, NoText)
           wire == IF w = "nothing" THEN x.wire ELSE Append(x.wire, frame)
           hurt == x.hurt \/ Head(x.control).finished
<1>1. /\ x \in Client /\ x.control \in Seq(Controls) /\ Len(x.control) >= 1
      /\ x.wire \in Seq(Frames) /\ x.control[1] \in Controls /\ Head(x.control) = x.control[1]
  BY DEF Sound, ClientOK, Client
<1>2. control \in Seq(Controls)
  <2> DEFINE first == [x.control[1] EXCEPT !.finished = TRUE]
  <2>1. first \in Controls
    BY <1>1 DEF Controls
  <2>2. control = [x.control EXCEPT ![1] = first]
    OBVIOUS
  <2> HIDE DEF first, control
  <2> QED
    BY <1>1, <2>1, <2>2, ReplacedFirst
<1>3. frame \in Frames /\ frame.op # "TEXT"
  BY <1>1 DEF Frame, Frames, Controls
<1>4. wire \in Seq(Frames)
  BY <1>1, <1>3
<1>5. y = [x EXCEPT !.control = control, !.wire = wire, !.hurt = hurt]
  BY DEF SendControl
<1>6. hurt \in BOOLEAN
  BY <1>1 DEF Client, Controls
<1>7. wire = x.wire \/ wire = Append(x.wire, frame)
  OBVIOUS
<1> HIDE DEF y, control, wire, hurt, frame
<1>8. /\ y \in Client /\ y.wire = wire /\ y.queue = x.queue
      /\ y.status = x.status /\ y.told = x.told /\ y.deaf = x.deaf /\ y.inStep = x.inStep
  BY <1>1, <1>2, <1>4, <1>5, <1>6 DEF Client
<1>9. SameTexts(x.queue, y.queue)
  BY <1>8 DEF SameTexts
<1>10. \A k \in DOMAIN x.queue : y.queue[k].sent = x.queue[k].sent
  BY <1>8
<1> QED
  BY <1>1, <1>3, <1>7, <1>8, <1>9, <1>10, WrittenRan DEF y

LEMMA SendMessageRan ==
  ASSUME NEW x, Sound(x), NEW w \in Outcomes, x.queue # <<>>, BetweenFrames(x)
  PROVE  Ran(x, SendMessage(x, w))
<1> DEFINE front == Head(x.queue)
           y == SendMessage(x, w)
           tried == IF w = "written" THEN Tried(front, Payload, Header + Payload)
                    ELSE Tried(front, 0, Header)
           queue == [x.queue EXCEPT ![1] = tried]
           whole == w \in {"written", "unsent"}
           frame == IF whole THEN Frame("TEXT", front.text) ELSE Frame("HEADER", NoText)
           wire == IF w = "nothing" THEN x.wire ELSE Append(x.wire, frame)
           hurt == IF w = "written" THEN x.hurt ELSE TRUE
<1>1. /\ x \in Client /\ x.wire \in Seq(Frames) /\ ClientOK(x) /\ x.hurt \in BOOLEAN
  BY DEF Sound, ClientOK, Client
<1>2. /\ x.queue \in Seq(Messages) /\ Len(x.queue) >= 1 /\ Head(x.queue) = x.queue[1]
      /\ x.queue[1] \in Messages /\ x.queue[1].sent = 0
  BY <1>1, FrontFree
<1>3. front = x.queue[1] /\ front \in Messages /\ front.sent = 0 /\ front.text \in Texts
  <2>1. front = x.queue[1]
    BY <1>2
  <2> HIDE DEF front
  <2> QED
    BY <1>2, <2>1 DEF Messages
<1>4. y = [x EXCEPT !.queue = queue, !.wire = wire, !.hurt = hurt]
  <2>1. CASE w = "written"
    <3>1. y = [x EXCEPT !.queue = queue, !.wire = wire]
      BY <2>1 DEF SendMessage
    <3> HIDE DEF y, queue, wire, front
    <3>2. hurt = x.hurt
      BY <2>1
    <3> HIDE DEF hurt
    <3> QED
      BY <1>1, <3>1, <3>2 DEF Client
  <2>2. CASE w # "written"
    <3>1. \/ w = "nothing" /\ ~ whole
          \/ w = "header" /\ ~ whole
          \/ w = "unsent" /\ whole
      BY <2>2 DEF Outcomes
    <3>2. CASE w = "nothing" /\ ~ whole
      BY <2>2, <3>2 DEF SendMessage
    <3>3. CASE w = "header" /\ ~ whole
      BY <2>2, <3>3 DEF SendMessage
    <3>4. CASE w = "unsent" /\ whole
      BY <2>2, <3>4 DEF SendMessage
    <3> QED
      BY <3>1, <3>2, <3>3, <3>4
  <2> QED
    BY <2>1, <2>2
<1> HIDE DEF front, y
<1>5. tried \in Messages /\ tried.text = front.text /\ (w # "written" => tried.sent = 0)
  <2>1. 0 \in {0, Payload} /\ Payload \in {0, Payload} /\ Header + Payload \in Nat /\ Header \in Nat
    BY DEF Header, Payload
  <2>2. tried \in Messages /\ (w # "written" => tried.sent = 0)
    BY <1>3, <2>1, TriedIs
  <2>3. tried.text = front.text
    BY <1>3 DEF Tried, Messages
  <2> QED
    BY <2>2, <2>3
<1> HIDE DEF tried
<1>6. /\ queue \in Seq(Messages) /\ Len(queue) = Len(x.queue) /\ queue[1] = tried
      /\ DOMAIN queue = DOMAIN x.queue /\ \A i \in 2 .. Len(x.queue) : queue[i] = x.queue[i]
  BY <1>2, <1>5, ReplacedFirst
<1>7. /\ frame \in Frames
      /\ whole => frame.op = "TEXT" /\ frame.text = front.text
      /\ ~ whole => frame.op # "TEXT"
  BY <1>3 DEF Frame, Frames, NoText
<1> HIDE DEF queue, frame
<1>8. /\ wire \in Seq(Frames) /\ hurt \in BOOLEAN
      /\ wire = x.wire \/ wire = Append(x.wire, frame)
      /\ whole => wire = Append(x.wire, frame)
  <2>1. Append(x.wire, frame) \in Seq(Frames)
    BY <1>1, <1>7
  <2> QED
    BY <1>1, <2>1
<1> HIDE DEF wire, hurt
<1>9. /\ y \in Client /\ y.queue = queue /\ y.wire = wire
      /\ y.status = x.status /\ y.told = x.told /\ y.deaf = x.deaf /\ y.inStep = x.inStep
  BY <1>1, <1>4, <1>6, <1>8 DEF Client
<1>10. \A k \in DOMAIN x.queue : k = 1 \/ k \in 2 .. Len(x.queue)
  BY <1>2
<1>11. SameTexts(x.queue, y.queue)
  BY <1>3, <1>5, <1>6, <1>9, <1>10 DEF SameTexts
<1>12. ~ whole => \A k \in DOMAIN x.queue : y.queue[k].sent = x.queue[k].sent
  BY <1>2, <1>5, <1>6, <1>9, <1>10
<1> HIDE DEF whole
<1> QED
  BY <1>1, <1>3, <1>7, <1>8, <1>9, <1>11, <1>12, WrittenRan DEF y

LEMMA RunQueueRan ==
  ASSUME NEW x, Sound(x), NEW w \in Outcomes
  PROVE  Ran(x, RunQueue(x, w))
<1>1. x \in Client
  BY DEF Sound, ClientOK
<1>2. Ran(x, x)
  BY <1>1, WrittenRan DEF SameTexts
<1> QED
  BY <1>2, SendControlRan, SendMessageRan DEF RunQueue

LEMMA ClientTexts ==
  ASSUME NEW x \in Client
  PROVE  /\ x.wire \in Seq(Frames) /\ x.queue \in Seq(Messages) /\ x.told \in Nat
         /\ Len(x.wire) \in Nat /\ DOMAIN x.wire = 1 .. Len(x.wire)
         /\ Len(x.queue) \in Nat /\ DOMAIN x.queue = 1 .. Len(x.queue)
         /\ \A i \in OnWire(x) : /\ i \in 1 .. Len(x.wire) /\ x.wire[i].text \in Nat
                                 /\ x.wire[i].op = "TEXT"
         /\ \A k \in DOMAIN x.queue : x.queue[k].text \in Nat /\ x.queue[k].text \in Texts
         /\ x.queue # <<>> <=> 1 \in DOMAIN x.queue
         /\ x.queue # <<>> <=> Len(x.queue) \in DOMAIN x.queue
<1>1. x.wire \in Seq(Frames) /\ x.queue \in Seq(Messages) /\ x.told \in Texts \cup {NoText}
  BY DEF Client
<1>2. \A k \in DOMAIN x.queue : x.queue[k] \in Messages
  BY <1>1
<1>3. \A i \in DOMAIN x.wire : x.wire[i] \in Frames
  BY <1>1
<1>4. Texts \subseteq Nat /\ NoText \in Nat
  BY LimitsAreNat DEF Texts, NoText
<1>5. \A k \in DOMAIN x.queue : x.queue[k].text \in Nat /\ x.queue[k].text \in Texts
  BY <1>2, <1>4 DEF Messages
<1>6. \A i \in DOMAIN x.wire : x.wire[i].text \in Nat
  BY <1>3, <1>4 DEF Frames
<1>7. /\ Len(x.wire) \in Nat /\ DOMAIN x.wire = 1 .. Len(x.wire)
      /\ Len(x.queue) \in Nat /\ DOMAIN x.queue = 1 .. Len(x.queue)
      /\ x.queue # <<>> <=> 1 \in DOMAIN x.queue
      /\ x.queue # <<>> <=> Len(x.queue) \in DOMAIN x.queue
  BY <1>1
<1>8. x.told \in Nat
  BY <1>1, <1>4
<1> QED
  BY <1>1, <1>5, <1>6, <1>7, <1>8 DEF OnWire

\* What the queues send is the oldest text that was not sent yet.
LEMMA RanTidy ==
  ASSUME NEW x \in Client, NEW y, Ran(x, y), NEW top \in Nat, Tidy(x, top)
  PROVE  Tidy(y, top) /\ (Latest(x, top) => Latest(y, top))
<1>1. /\ x.told \in Nat /\ Len(x.wire) \in Nat
      /\ \A i \in OnWire(x) : i \in 1 .. Len(x.wire) /\ x.wire[i].text \in Nat
      /\ \A k \in DOMAIN x.queue : x.queue[k].text \in Nat
      /\ DOMAIN x.queue = 1 .. Len(x.queue) /\ Len(x.queue) \in Nat
      /\ x.queue # <<>> <=> 1 \in DOMAIN x.queue
      /\ x.queue # <<>> <=> Len(x.queue) \in DOMAIN x.queue
  BY ClientTexts
<1>2. /\ y \in Client /\ y.status = x.status /\ y.told = x.told /\ y.deaf = x.deaf
      /\ Legible(y) => Legible(x)
      /\ DOMAIN y.queue = DOMAIN x.queue
      /\ \A k \in DOMAIN x.queue : y.queue[k].text = x.queue[k].text
      /\ \A i \in OnWire(x) : i \in OnWire(y) /\ y.wire[i].text = x.wire[i].text
      /\ \A i \in OnWire(y) :
           \/ i \in OnWire(x)
           \/ i = Len(x.wire) + 1 /\ x.queue # <<>> /\ y.wire[i].text = x.queue[1].text
  BY DEF Ran, SameTexts
<1>3. /\ DOMAIN y.queue = 1 .. Len(y.queue) /\ Len(y.queue) \in Nat
      /\ y.queue # <<>> <=> 1 \in DOMAIN y.queue
  BY <1>2, ClientTexts
<1>4. Len(y.queue) = Len(x.queue) /\ (y.queue # <<>> <=> x.queue # <<>>)
  BY <1>1, <1>2, <1>3
<1>5. \A text : Carried(x, text) => Carried(y, text)
  BY <1>2 DEF Carried
<1>6. InOrder(y, top)
  <2>1. /\ x.told <= top
        /\ \A i \in OnWire(x) : x.told <= x.wire[i].text /\ x.wire[i].text <= top
        /\ \A i, j \in OnWire(x) : i <= j => x.wire[i].text <= x.wire[j].text
        /\ \A k \in DOMAIN x.queue : x.told <= x.queue[k].text /\ x.queue[k].text <= top
        /\ \A i \in OnWire(x), k \in DOMAIN x.queue : x.wire[i].text <= x.queue[k].text
        /\ \A k, l \in DOMAIN x.queue : k <= l => x.queue[k].text <= x.queue[l].text
    BY DEF Tidy, InOrder
  <2>2. \A i \in OnWire(y) : y.told <= y.wire[i].text /\ y.wire[i].text <= top
    BY <1>1, <1>2, <2>1
  <2>3. \A i, j \in OnWire(y) : i <= j => y.wire[i].text <= y.wire[j].text
    <3> TAKE i, j \in OnWire(y)
    <3> HAVE i <= j
    <3>1. CASE i \in OnWire(x) /\ j \in OnWire(x)
      BY <1>2, <2>1, <3>1
    <3>2. CASE i \in OnWire(x) /\ j \notin OnWire(x)
      BY <1>1, <1>2, <2>1, <3>2
    <3>3. CASE i \notin OnWire(x) /\ j \in OnWire(x)
      BY <1>1, <1>2, <3>3
    <3>4. CASE i \notin OnWire(x) /\ j \notin OnWire(x)
      BY <1>1, <1>2, <3>4
    <3> QED
      BY <3>1, <3>2, <3>3, <3>4
  <2>4. \A i \in OnWire(y), k \in DOMAIN y.queue : y.wire[i].text <= y.queue[k].text
    <3> TAKE i \in OnWire(y), k \in DOMAIN y.queue
    <3>1. CASE i \in OnWire(x)
      BY <1>2, <2>1, <3>1
    <3>2. CASE i \notin OnWire(x)
      <4>1. y.wire[i].text = x.queue[1].text /\ 1 \in DOMAIN x.queue /\ k \in DOMAIN x.queue
        BY <1>1, <1>2, <3>2
      <4>2. 1 <= k
        BY <1>1, <4>1
      <4> QED
        BY <1>2, <2>1, <4>1, <4>2
    <3> QED
      BY <3>1, <3>2
  <2> QED
    BY <1>2, <2>1, <2>2, <2>3, <2>4 DEF InOrder
<1>7. FrontCarried(y)
  <2> SUFFICES ASSUME y.queue # <<>>, y.queue[1].sent = Payload, Legible(y)
               PROVE  Carried(y, y.queue[1].text)
    BY DEF FrontCarried
  <2>1. x.queue # <<>> /\ 1 \in DOMAIN x.queue /\ y.queue[1].text = x.queue[1].text
    BY <1>1, <1>2, <1>4
  <2>2. x.queue[1].sent = Payload => Carried(x, x.queue[1].text)
    BY <1>2, <2>1 DEF Tidy, FrontCarried
  <2>3. y.queue[1].sent = x.queue[1].sent \/ Carried(y, x.queue[1].text)
    BY <2>1 DEF Ran
  <2> QED
    BY <1>5, <2>1, <2>2, <2>3
<1>8. Latest(x, top) => Latest(y, top)
  BY <1>1, <1>2, <1>4, <1>5 DEF Latest
<1> QED
  BY <1>6, <1>7, <1>8 DEF Tidy

LEMMA RunQueueTidy ==
  ASSUME NEW x, Sound(x), NEW w \in Outcomes, NEW top \in Nat, Tidy(x, top)
  PROVE  LET y == RunQueue(x, w)
         IN  Tidy(y, top) /\ (Latest(x, top) => Latest(y, top))
<1>1. x \in Client /\ Ran(x, RunQueue(x, w))
  BY RunQueueRan DEF Sound, ClientOK
<1> QED
  BY <1>1, RanTidy

-----------------------------------------------------------------------------
(* Messages and control frames are queued. *)

\* What a client is told depends on these alone.
LEMMA AsTidy ==
  ASSUME NEW x, NEW y, NEW top, y.queue = x.queue, y.wire = x.wire, y.told = x.told,
         y.inStep = x.inStep, Tidy(x, top)
  PROVE  Tidy(y, top)
BY DEF Tidy, InOrder, FrontCarried, Carried, OnWire, Legible, InStep

LEMMA LaterTidy ==
  ASSUME NEW x \in Client, NEW top \in Nat, Tidy(x, top)
  PROVE  Tidy(x, top + 1)
<1>1. InOrder(x, top) /\ FrontCarried(x)
  BY DEF Tidy
<1>2. /\ x.told \in Nat
      /\ \A i \in OnWire(x) : x.wire[i].text \in Nat
      /\ \A k \in DOMAIN x.queue : x.queue[k].text \in Nat
  BY ClientTexts
<1>3. \A n \in Nat : n <= top => n <= top + 1
  OBVIOUS
<1>4. InOrder(x, top + 1)
  BY <1>1, <1>2, <1>3 DEF InOrder
<1> QED
  BY <1>1, <1>4 DEF Tidy

LEMMA MessageAppended ==
  ASSUME NEW q \in Seq(Messages), NEW text \in Texts, NEW r, r = Append(q, Message(text))
  PROVE  /\ r \in Seq(Messages) /\ Len(r) = Len(q) + 1 /\ Len(q) \in Nat
         /\ DOMAIN r = 1 .. Len(q) + 1 /\ DOMAIN q = 1 .. Len(q) /\ r # <<>>
         /\ r[Len(q) + 1].text = text /\ r[Len(q) + 1].sent = 0
         /\ \A k \in 1 .. Len(q) : r[k] = q[k]
<1> DEFINE new == Message(text)
<1>1. new \in Messages /\ new.text = text /\ new.sent = 0
  BY DEF Message, Messages
<1> HIDE DEF new
<1>2. r = Append(q, new)
  BY DEF new
<1>3. r \in Seq(Messages) /\ Len(r) = Len(q) + 1 /\ Len(q) \in Nat
  BY <1>1, <1>2
<1>4. DOMAIN r = 1 .. Len(q) + 1 /\ DOMAIN q = 1 .. Len(q) /\ r # <<>>
  BY <1>3
<1>5. r[Len(q) + 1] = new /\ \A k \in 1 .. Len(q) : r[k] = q[k]
  BY <1>1, <1>2, AppendProperties
<1> QED
  BY <1>1, <1>3, <1>4, <1>5

\* The new text is newer than all before it, and a full queue makes its client deaf.
LEMMA QueuedTidy ==
  ASSUME NEW x, Sound(x), NEW top \in Nat, top + 1 \in Texts, Tidy(x, top)
  PROVE  Tidy(Queued(x, top + 1), top + 1) /\ Latest(Queued(x, top + 1), top + 1)
<1> DEFINE text == top + 1
           y == Queued(x, text)
<1>1. x \in Client /\ Tidy(x, text)
  BY LaterTidy DEF Sound, ClientOK
<1>2. /\ Sound(y) /\ y.wire = x.wire /\ y.status = x.status /\ y.told = x.told
      /\ y.inStep = x.inStep
      /\ Len(x.queue) >= MaxQueued => y.queue = x.queue /\ y.deaf
      /\ ~ (Len(x.queue) >= MaxQueued) => y.queue = Append(x.queue, Message(text))
  BY MessageQueued
<1> HIDE DEF y
<1>3. CASE Len(x.queue) >= MaxQueued
  BY <1>1, <1>2, <1>3, AsTidy DEF y, Latest
<1>4. CASE ~ (Len(x.queue) >= MaxQueued)
  <2> DEFINE q == x.queue
             r == y.queue
             n == Len(q)
  <2>1. q \in Seq(Messages) /\ r = Append(q, Message(text))
    BY <1>1, <1>2, <1>4, ClientTexts
  <2>2. /\ r \in Seq(Messages) /\ Len(r) = n + 1 /\ n \in Nat
        /\ DOMAIN r = 1 .. n + 1 /\ DOMAIN q = 1 .. n /\ r # <<>>
        /\ r[n + 1].text = text /\ r[n + 1].sent = 0
        /\ \A k \in 1 .. n : r[k] = q[k]
    BY <2>1, MessageAppended
  <2>3. /\ x.told \in Nat
        /\ \A i \in OnWire(x) : x.wire[i].text \in Nat
        /\ \A k \in DOMAIN q : q[k].text \in Nat
        /\ q # <<>> <=> 1 \in DOMAIN q
    BY <1>1, ClientTexts
  <2>4. OnWire(y) = OnWire(x)
    BY <1>2 DEF OnWire
  <2>5. InOrder(x, text) /\ FrontCarried(x)
    BY <1>1 DEF Tidy
  <2> HIDE DEF text
  <2>6. \A k \in DOMAIN r : (k \in DOMAIN q /\ r[k] = q[k]) \/ k = n + 1
    BY <2>2
  <2> HIDE DEF n, r, q
  <2>7. /\ x.told <= text
        /\ \A i \in OnWire(x) : x.told <= x.wire[i].text /\ x.wire[i].text <= text
        /\ \A i, j \in OnWire(x) : i <= j => x.wire[i].text <= x.wire[j].text
        /\ \A k \in DOMAIN q : x.told <= q[k].text /\ q[k].text <= text
        /\ \A i \in OnWire(x), k \in DOMAIN q : x.wire[i].text <= q[k].text
        /\ \A k, l \in DOMAIN q : k <= l => q[k].text <= q[l].text
    BY <2>5 DEF InOrder, q
  <2>8. \A k \in DOMAIN r : x.told <= r[k].text /\ r[k].text <= text
    <3>1. text <= text
      BY DEF text
    <3> QED
      BY <2>2, <2>6, <2>7, <3>1
  <2>9. \A i \in OnWire(x), k \in DOMAIN r : x.wire[i].text <= r[k].text
    BY <2>2, <2>6, <2>7
  <2>10. \A k, l \in DOMAIN r : k <= l => r[k].text <= r[l].text
    <3> TAKE k, l \in DOMAIN r
    <3> HAVE k <= l
    <3>1. CASE l = n + 1
      BY <2>2, <2>8, <3>1
    <3>2. CASE l # n + 1
      <4>1. l \in DOMAIN q /\ r[l] = q[l] /\ k # n + 1
        BY <2>2, <2>6, <3>2
      <4> QED
        BY <2>6, <2>7, <4>1
    <3> QED
      BY <3>1, <3>2
  <2>11. InOrder(y, text)
    BY <1>2, <2>4, <2>7, <2>8, <2>9, <2>10 DEF InOrder, r
  <2>12. FrontCarried(y)
    <3> SUFFICES ASSUME r[1].sent = Payload, Legible(y) PROVE Carried(y, r[1].text)
      BY DEF FrontCarried, r
    <3>1. 1 \in DOMAIN r /\ 1 # n + 1
      BY <2>2 DEF Payload
    <3>2. 1 \in DOMAIN q /\ r[1] = q[1]
      BY <2>6, <3>1
    <3>3. Legible(x)
      BY <1>2 DEF Legible, InStep
    <3>4. Carried(x, r[1].text)
      BY <2>3, <2>5, <3>2, <3>3 DEF FrontCarried, q
    <3> QED
      BY <1>2, <2>4, <3>4 DEF Carried
  <2>13. Latest(y, text)
    BY <2>2 DEF Latest, r
  <2> QED
    BY <2>11, <2>12, <2>13 DEF Tidy, text, y
<1> QED
  BY <1>3, <1>4

LEMMA QueueMessageTidy ==
  ASSUME NEW x, Sound(x), NEW w \in Outcomes, NEW top \in Nat, top + 1 \in Texts,
         Tidy(x, top)
  PROVE  LET y == QueueMessage(x, top + 1, w)
         IN  Tidy(y, top + 1) /\ Latest(y, top + 1) /\ Ran(Queued(x, top + 1), y)
<1> DEFINE z == Queued(x, top + 1)
<1>1. Sound(z)
  BY MessageQueued
<1>2. Tidy(z, top + 1) /\ Latest(z, top + 1)
  BY QueuedTidy
<1>3. QueueMessage(x, top + 1, w) = RunQueue(z, w)
  BY DEF QueueMessage, Queued
<1> HIDE DEF z
<1> QED
  BY <1>1, <1>2, <1>3, RunQueueTidy, RunQueueRan DEF z

LEMMA QueueControlTidy ==
  ASSUME NEW x, Sound(x), NEW w \in Outcomes, NEW op \in {"PONG", "CLOSE"},
         NEW top \in Nat, Tidy(x, top)
  PROVE  LET y == QueueControl(x, op, w)
         IN  /\ Tidy(y, top) /\ (Latest(x, top) => Latest(y, top))
             /\ SameTexts(x.queue, y.queue)
<1> DEFINE z == [x EXCEPT !.control = Append(@, Control(op))]
           y == RunQueue(z, w)
<1>1. /\ Sound(z) /\ z.queue = x.queue /\ z.wire = x.wire
      /\ z.status = x.status /\ z.told = x.told /\ z.deaf = x.deaf /\ z.inStep = x.inStep
  BY ControlQueued
<1>2. QueueControl(x, op, w) = y
  BY DEF QueueControl
<1> HIDE DEF z
<1>3. Tidy(z, top) /\ (Latest(x, top) => Latest(z, top))
  BY <1>1, AsTidy DEF Latest, Carried, OnWire, Legible, InStep
<1>4. Tidy(y, top) /\ (Latest(z, top) => Latest(y, top)) /\ Ran(z, y)
  BY <1>1, <1>3, RunQueueTidy, RunQueueRan
<1> HIDE DEF y
<1> QED
  BY <1>1, <1>2, <1>3, <1>4 DEF Ran

-----------------------------------------------------------------------------
(* The peer reads, and acknowledges. *)

\* The peer knows the last text among the frames it has read, the others stay in order; it
\* misses none as long as it is in step.
LEMMA ReadTexts ==
  ASSUME NEW x \in Client, NEW n \in DOMAIN x.wire
  PROVE  LET read == Read(x, n)
         IN  /\ read.deaf = x.deaf /\ (Legible(read) => Legible(x))
             /\ \A i \in OnWire(read) : i + n \in OnWire(x)
                                        /\ read.wire[i].text = x.wire[i + n].text
             /\ \A i \in OnWire(x) : i > n => /\ i - n \in OnWire(read)
                                             /\ read.wire[i - n].text = x.wire[i].text
             /\ \/ /\ read.told = x.told
                   /\ Legible(x) => \A i \in OnWire(x) : i > n
                \/ \E last \in OnWire(x) :
                     /\ last <= n /\ read.told = x.wire[last].text
                     /\ Legible(x) => \A i \in OnWire(x) : i <= n => i <= last
<1> DEFINE texts == {i \in 1 .. n : x.wire[i].op = "TEXT" /\ InStep(x, i)}
           last == CHOOSE i \in texts : \A j \in texts : j <= i
           told == IF texts = {} THEN x.told ELSE x.wire[last].text
           wire == SubSeq(x.wire, n + 1, Len(x.wire))
           step == InStep(x, n)
           read == Read(x, n)
<1>1. x.wire \in Seq(Frames) /\ Len(x.wire) \in Nat /\ n \in 1 .. Len(x.wire)
      /\ DOMAIN x.wire = 1 .. Len(x.wire)
  BY DEF Client
<1>2. read = [x EXCEPT !.wire = wire, !.inStep = step, !.told = told]
  BY DEF Read
<1>3. /\ wire \in Seq(Frames) /\ DOMAIN wire = 1 .. Len(x.wire) - n
      /\ \A i \in 1 .. Len(x.wire) - n : wire[i] = x.wire[i + n]
  <2>1. /\ wire \in Seq(Frames) /\ Len(wire) = Len(x.wire) - n
    BY <1>1, SubSeqProperties
  <2>2. \A i \in 1 .. Len(x.wire) - n : wire[i] = x.wire[i + n]
    BY <1>1, <2>1
  <2>3. DOMAIN wire = 1 .. Len(x.wire) - n
    BY <2>1
  <2> QED
    BY <2>1, <2>2, <2>3
<1>4. texts # {} => last \in texts /\ \A j \in texts : j <= last
  <2> SUFFICES ASSUME texts # {} PROVE last \in texts /\ \A j \in texts : j <= last
    OBVIOUS
  <2>1. texts \in SUBSET (1 .. n) /\ n \in Nat
    BY <1>1
  <2> HIDE DEF texts
  <2>2. \E i \in texts : \A j \in texts : j <= i
    BY <2>1, LargestExists
  <2> QED
    BY <2>2
<1>5. /\ \A i \in texts : i \in OnWire(x) /\ i <= n
      /\ Legible(x) => \A i \in OnWire(x) : i <= n => i \in texts
  <2>1. \A i : i \in texts <=> i \in OnWire(x) /\ i <= n /\ InStep(x, i)
    BY <1>1 DEF OnWire
  <2>2. ASSUME Legible(x), NEW i \in 1 .. n PROVE InStep(x, i)
    <3>1. \A j \in 1 .. i : j \in 1 .. Len(x.wire)
      BY <1>1
    <3> QED
      BY <2>2, <3>1 DEF Legible, InStep
  <2>3. \A i \in OnWire(x) : i <= n => i \in 1 .. n
    BY <1>1 DEF OnWire
  <2> HIDE DEF texts
  <2> QED
    BY <2>1, <2>2, <2>3
<1>6. \A i \in OnWire(x) : i \in 1 .. Len(x.wire)
  BY <1>1 DEF OnWire
<1> HIDE DEF texts, last, wire, told, step, read
<1>7. read.wire = wire /\ read.told = told /\ read.deaf = x.deaf /\ read.inStep = step
  BY <1>2 DEF Client
<1>10. Legible(read) => Legible(x)
  <2> SUFFICES ASSUME Legible(read), NEW i \in 1 .. Len(x.wire)
               PROVE  x.inStep /\ x.wire[i].op # "HEADER"
    BY <1>1 DEF Legible, InStep
  <2>1. Len(wire) = Len(x.wire) - n
    BY <1>1, <1>3
  <2>2. InStep(x, n) /\ \A j \in 1 .. Len(x.wire) - n : wire[j].op # "HEADER"
    BY <1>7, <2>1 DEF Legible, InStep, step
  <2>3. CASE i <= n
    BY <1>1, <2>2, <2>3 DEF InStep
  <2>4. CASE ~ (i <= n)
    <3>1. i - n \in 1 .. Len(x.wire) - n /\ i - n + n = i
      BY <1>1, <2>4
    <3>2. wire[i - n] = x.wire[i]
      BY <1>3, <3>1
    <3> QED
      BY <2>2, <3>1, <3>2 DEF InStep
  <2> QED
    BY <2>3, <2>4
<1>8. \A i \in OnWire(read) : i + n \in OnWire(x) /\ read.wire[i].text = x.wire[i + n].text
  <2> TAKE i \in OnWire(read)
  <2>1. i \in 1 .. Len(x.wire) - n /\ wire[i].op = "TEXT"
    BY <1>3, <1>7 DEF OnWire
  <2>2. i + n \in 1 .. Len(x.wire) /\ wire[i] = x.wire[i + n]
    BY <1>1, <1>3, <2>1
  <2> QED
    BY <1>1, <1>7, <2>1, <2>2 DEF OnWire
<1>9. \A i \in OnWire(x) : i > n => /\ i - n \in OnWire(read)
                                    /\ read.wire[i - n].text = x.wire[i].text
  <2> TAKE i \in OnWire(x)
  <2> HAVE i > n
  <2>1. i - n \in 1 .. Len(x.wire) - n /\ i - n + n = i
    BY <1>1, <1>6
  <2>2. wire[i - n] = x.wire[i] /\ i - n \in DOMAIN wire
    BY <1>3, <2>1
  <2>3. x.wire[i].op = "TEXT"
    BY DEF OnWire
  <2> QED
    BY <1>7, <2>2, <2>3 DEF OnWire
<1>11. CASE texts = {}
  <2>1. Legible(x) => \A i \in OnWire(x) : ~ (i <= n)
    BY <1>5, <1>11
  <2>2. Legible(x) => \A i \in OnWire(x) : i > n
    BY <1>1, <1>6, <2>1
  <2> QED
    BY <1>7, <1>8, <1>9, <1>11, <1>10, <2>2 DEF read, told
<1>12. CASE texts # {}
  <2>1. /\ last \in OnWire(x) /\ last <= n
        /\ Legible(x) => \A i \in OnWire(x) : i <= n => i <= last
    BY <1>4, <1>5, <1>12
  <2>2. read.told = x.wire[last].text
    BY <1>7, <1>12 DEF told
  <2> QED
    BY <1>7, <1>8, <1>9, <1>10, <2>1, <2>2 DEF read
<1> QED
  BY <1>11, <1>12

LEMMA ReadTidy ==
  ASSUME NEW x \in Client, NEW n \in DOMAIN x.wire, NEW top \in Nat, Tidy(x, top)
  PROVE  LET read == Read(x, n)
         IN  Tidy(read, top) /\ (Latest(x, top) => Latest(read, top))
<1> DEFINE read == Read(x, n)
<1>1. read \in Client /\ read.queue = x.queue /\ read.status = x.status
  BY ReadIs
<1>2. /\ read.deaf = x.deaf /\ (Legible(read) => Legible(x))
      /\ \A i \in OnWire(read) : i + n \in OnWire(x) /\ read.wire[i].text = x.wire[i + n].text
      /\ \A i \in OnWire(x) : i > n => /\ i - n \in OnWire(read)
                                       /\ read.wire[i - n].text = x.wire[i].text
      /\ \/ /\ read.told = x.told
            /\ Legible(x) => \A i \in OnWire(x) : i > n
         \/ \E last \in OnWire(x) :
              /\ last <= n /\ read.told = x.wire[last].text
              /\ Legible(x) => \A i \in OnWire(x) : i <= n => i <= last
  BY ReadTexts
<1> HIDE DEF read
<1>3. /\ x.told \in Nat /\ n \in Nat
      /\ \A i \in OnWire(x) : i \in Nat /\ x.wire[i].text \in Nat
      /\ \A k \in DOMAIN x.queue : x.queue[k].text \in Nat
      /\ x.queue # <<>> <=> 1 \in DOMAIN x.queue
  BY ClientTexts
<1>4. /\ x.told <= top
      /\ \A i \in OnWire(x) : x.told <= x.wire[i].text /\ x.wire[i].text <= top
      /\ \A i, j \in OnWire(x) : i <= j => x.wire[i].text <= x.wire[j].text
      /\ \A k \in DOMAIN x.queue : x.told <= x.queue[k].text /\ x.queue[k].text <= top
      /\ \A i \in OnWire(x), k \in DOMAIN x.queue : x.wire[i].text <= x.queue[k].text
      /\ \A k, l \in DOMAIN x.queue : k <= l => x.queue[k].text <= x.queue[l].text
  BY DEF Tidy, InOrder
<1>5. \A i \in OnWire(read) : i \in Nat /\ i > 0
  BY <1>1, ClientTexts
<1>6. /\ read.told \in Nat /\ x.told <= read.told
      /\ Legible(x) => \A i \in OnWire(x) : i <= n => x.wire[i].text <= read.told
  BY <1>2, <1>3, <1>4
<1>7. /\ read.told <= top
      /\ \A k \in DOMAIN x.queue : read.told <= x.queue[k].text
      /\ \A i \in OnWire(x) : i > n => read.told <= x.wire[i].text
  <2>1. CASE read.told = x.told
    BY <1>4, <2>1
  <2>2. CASE read.told # x.told
    <3>1. PICK last \in OnWire(x) : last <= n /\ read.told = x.wire[last].text
      BY <1>2, <2>2
    <3>2. \A i \in OnWire(x) : i > n => last <= i
      BY <1>3, <3>1
    <3> QED
      BY <1>4, <3>1, <3>2
  <2> QED
    BY <2>1, <2>2
<1>8. InOrder(read, top)
  <2>1. \A i \in OnWire(read) : i + n > n
    BY <1>3, <1>5
  <2>2. \A i \in OnWire(read) : read.told <= read.wire[i].text /\ read.wire[i].text <= top
    BY <1>2, <1>4, <1>7, <2>1
  <2>3. \A i, j \in OnWire(read) : i <= j => read.wire[i].text <= read.wire[j].text
    <3> TAKE i, j \in OnWire(read)
    <3> HAVE i <= j
    <3>1. i + n <= j + n
      BY <1>3, <1>5
    <3> QED
      BY <1>2, <1>4, <3>1
  <2>4. \A i \in OnWire(read), k \in DOMAIN read.queue : read.wire[i].text <= read.queue[k].text
    BY <1>1, <1>2, <1>4
  <2> QED
    BY <1>1, <1>4, <1>7, <2>2, <2>3, <2>4 DEF InOrder
<1>9. \A text \in Nat :
        /\ Carried(x, text) /\ read.told <= text /\ Legible(read)
        => Carried(read, text)
  <2> SUFFICES ASSUME NEW text \in Nat, Carried(x, text), read.told <= text, Legible(x)
               PROVE  Carried(read, text)
    BY <1>2
  <2>1. CASE x.told = text
    BY <1>3, <1>6, <2>1 DEF Carried
  <2>2. CASE \E i \in OnWire(x) : x.wire[i].text = text
    <3>1. PICK i \in OnWire(x) : x.wire[i].text = text
      BY <2>2
    <3>2. CASE i <= n
      BY <1>3, <1>6, <3>1, <3>2 DEF Carried
    <3>3. CASE i > n
      BY <1>2, <3>1, <3>3 DEF Carried
    <3> QED
      BY <1>3, <3>1, <3>2, <3>3
  <2> QED
    BY <2>1, <2>2 DEF Carried
<1>10. FrontCarried(read)
  BY <1>1, <1>2, <1>3, <1>7, <1>9 DEF Tidy, FrontCarried
<1>11. Latest(x, top) => Latest(read, top)
  BY <1>1, <1>2, <1>7, <1>9 DEF Latest
<1> QED
  BY <1>8, <1>10, <1>11 DEF Tidy, read

LEMMA CreditedRan ==
  ASSUME NEW x \in Client, NEW bytes \in Nat, bytes >= Header
  PROVE  LET credited == Credited(x, bytes)
         IN  /\ Ran(x, credited)
             /\ \A k \in DOMAIN x.queue : credited.queue[k].sent = x.queue[k].sent
<1> DEFINE credited == Credited(x, bytes)
           rest == Rest(x, bytes)
           message == Acked(Head(x.queue), rest)
           control == IF ControlDone(x) THEN Tail(x.control) ELSE x.control
           queue == IF x.queue = <<>> THEN <<>> ELSE [x.queue EXCEPT ![1] = message]
<1>1. /\ credited \in Client /\ credited.wire = x.wire /\ Len(credited.queue) = Len(x.queue)
      /\ \A i \in 2 .. Len(x.queue) : credited.queue[i] = x.queue[i]
      /\ x.queue # <<>> => credited.queue[1].sent = x.queue[1].sent
  BY CreditedIs
<1>2. credited = [x EXCEPT !.control = control, !.queue = queue]
  BY DEF Credited
<1>3. x.queue # <<>> => credited.queue[1].text = x.queue[1].text
  <2> SUFFICES ASSUME x.queue # <<>> PROVE credited.queue[1].text = x.queue[1].text
    OBVIOUS
  <2>1. x.queue \in Seq(Messages) /\ Head(x.queue) = x.queue[1] /\ x.queue[1] \in Messages
        /\ 1 \in DOMAIN x.queue
    BY DEF Client
  <2>2. message.text = x.queue[1].text
    BY <2>1 DEF Acked, Messages
  <2> HIDE DEF message
  <2>3. queue[1] = message
    BY <2>1
  <2> HIDE DEF queue, control, credited
  <2>4. credited.queue = queue
    BY <1>2 DEF Client
  <2> QED
    BY <2>2, <2>3, <2>4
<1>4. /\ credited.status = x.status /\ credited.told = x.told /\ credited.deaf = x.deaf
      /\ credited.inStep = x.inStep
  <2> HIDE DEF credited, control, queue
  <2> QED
    BY <1>2 DEF Client
<1> HIDE DEF credited, rest, message, control, queue
<1>5. /\ DOMAIN x.queue = 1 .. Len(x.queue) /\ Len(x.queue) \in Nat
      /\ x.queue # <<>> <=> 1 \in DOMAIN x.queue
      /\ DOMAIN credited.queue = 1 .. Len(credited.queue)
  BY <1>1, ClientTexts
<1>6. \A k \in DOMAIN x.queue : k = 1 \/ k \in 2 .. Len(x.queue)
  BY <1>5
<1>7. \A k \in DOMAIN x.queue : /\ credited.queue[k].sent = x.queue[k].sent
                                /\ credited.queue[k].text = x.queue[k].text
  BY <1>1, <1>3, <1>5, <1>6
<1>8. SameTexts(x.queue, credited.queue)
  BY <1>1, <1>5, <1>7 DEF SameTexts
<1> QED
  BY <1>1, <1>4, <1>7, <1>8, WrittenRan DEF credited

LEMMA TailOf ==
  ASSUME NEW q \in Seq(Messages), q # <<>>, NEW r, r = Tail(q)
  PROVE  /\ r \in Seq(Messages) /\ Len(r) = Len(q) - 1 /\ Len(q) \in Nat /\ Len(q) >= 1
         /\ DOMAIN q = 1 .. Len(q) /\ DOMAIN r = 1 .. Len(q) - 1
         /\ \A k \in DOMAIN r : k + 1 \in DOMAIN q /\ r[k] = q[k + 1]
         /\ r # <<>> => Len(r) + 1 = Len(q) /\ Len(r) \in DOMAIN r /\ 1 \in DOMAIN r
         /\ r = <<>> => Len(q) = 1
<1>1. Len(q) \in Nat /\ Len(q) >= 1 /\ DOMAIN q = 1 .. Len(q)
  OBVIOUS
<1>2. /\ r \in Seq(Messages) /\ Len(r) = Len(q) - 1
      /\ \A k \in 1 .. Len(q) - 1 : r[k] = q[k + 1]
  BY HeadTailProperties
<1>3. DOMAIN r = 1 .. Len(q) - 1
  BY <1>2
<1>4. \A k \in DOMAIN r : k + 1 \in DOMAIN q /\ r[k] = q[k + 1]
  BY <1>1, <1>2, <1>3
<1>5. r # <<>> => Len(r) # 0
  BY <1>2
<1>6. r = <<>> => Len(r) = 0
  OBVIOUS
<1>7. Len(r) \in Nat
  BY <1>2
<1>8. /\ r # <<>> => Len(r) + 1 = Len(q) /\ Len(r) \in DOMAIN r /\ 1 \in DOMAIN r
      /\ r = <<>> => Len(q) = 1
  BY <1>1, <1>2, <1>3, <1>5, <1>6, <1>7
<1> QED
  BY <1>1, <1>2, <1>3, <1>4, <1>8

\* A message leaves the queue when it went out: its text is on the wire still, or read.
LEMMA ShortenedTidy ==
  ASSUME NEW x \in Client, NEW top \in Nat, Tidy(x, top),
         \A k \in DOMAIN x.queue : k > 1 => x.queue[k].sent = 0
  PROVE  LET z == Shortened(x)
         IN  Tidy(z, top) /\ (Latest(x, top) => Latest(z, top))
<1> DEFINE z == Shortened(x)
           q == x.queue
           r == z.queue
<1>1. /\ z \in Client /\ z.wire = x.wire
      /\ ~ MessageDone(x) => r = q
      /\ MessageDone(x) => r = Tail(q)
  BY ShortenedIs
<1>2. z.status = x.status /\ z.told = x.told /\ z.deaf = x.deaf /\ z.inStep = x.inStep
  <2> DEFINE queue == IF MessageDone(x) THEN Tail(x.queue) ELSE x.queue
  <2>1. z = [x EXCEPT !.queue = queue]
    BY DEF Shortened
  <2> HIDE DEF z, queue
  <2> QED
    BY <2>1 DEF Client
<1> HIDE DEF z
<1>3. CASE ~ MessageDone(x)
  <2>1. Tidy(z, top)
    BY <1>1, <1>2, <1>3, AsTidy
  <2>2. Latest(x, top) => Latest(z, top)
    BY <1>1, <1>2, <1>3 DEF Latest, Carried, OnWire, Legible, InStep
  <2> QED
    BY <2>1, <2>2 DEF z
<1>4. CASE MessageDone(x)
  <2>1. q \in Seq(Messages) /\ q # <<>>
    BY <1>4, ClientTexts DEF MessageDone
  <2>2. /\ r \in Seq(Messages) /\ Len(r) = Len(q) - 1 /\ Len(q) \in Nat /\ Len(q) >= 1
        /\ DOMAIN q = 1 .. Len(q) /\ DOMAIN r = 1 .. Len(q) - 1
        /\ \A k \in DOMAIN r : k + 1 \in DOMAIN q /\ r[k] = q[k + 1]
        /\ r # <<>> => Len(r) + 1 = Len(q) /\ Len(r) \in DOMAIN r /\ 1 \in DOMAIN r
        /\ r = <<>> => Len(q) = 1
    BY <1>1, <1>4, <2>1, TailOf
  <2>3. q[1].sent = Payload
    <3>1. Head(q) = q[1] /\ q[1] \in Messages
      BY <2>1
    <3>2. q[1].sent \in {0, Payload} /\ q[1].sent >= Payload
      BY <1>4, <3>1 DEF MessageDone, Messages
    <3> QED
      BY <3>2 DEF Payload
  <2>4. Legible(x) => Carried(x, q[1].text)
    BY <2>1, <2>3 DEF Tidy, FrontCarried
  <2>5. /\ OnWire(z) = OnWire(x) /\ \A text : Carried(x, text) => Carried(z, text)
        /\ Legible(z) => Legible(x)
    BY <1>1, <1>2 DEF OnWire, Carried, Legible, InStep
  <2>6. InOrder(x, top)
    BY DEF Tidy
  <2>7. \A k \in DOMAIN q : k > 1 => q[k].sent = 0
    OBVIOUS
  <2> HIDE DEF q, r
  <2>8. InOrder(z, top)
    <3>1. \A k, l \in DOMAIN r : k <= l => k + 1 <= l + 1
      BY <2>2
    <3>2. /\ \A k \in DOMAIN r : x.told <= r[k].text /\ r[k].text <= top
          /\ \A i \in OnWire(x), k \in DOMAIN r : x.wire[i].text <= r[k].text
      BY <2>2, <2>6 DEF InOrder, q
    <3>3. \A k, l \in DOMAIN r : k <= l => r[k].text <= r[l].text
      BY <2>2, <2>6, <3>1 DEF InOrder, q
    <3> QED
      BY <1>1, <1>2, <2>5, <2>6, <3>2, <3>3 DEF InOrder, r
  <2>9. FrontCarried(z)
    <3> SUFFICES ASSUME r # <<>>, r[1].sent = Payload PROVE FALSE
      BY DEF FrontCarried, r
    <3>1. 1 + 1 \in DOMAIN q /\ r[1] = q[1 + 1]
      BY <2>2
    <3>2. q[1 + 1].sent = 0
      BY <2>7, <3>1
    <3> QED
      BY <3>1, <3>2 DEF Payload
  <2>10. ASSUME Latest(x, top), z.status = "CONNECTED", ~ z.deaf, Legible(z)
         PROVE  IF r = <<>> THEN Carried(z, top) ELSE r[Len(r)].text = top
    <3>1. q[Len(q)].text = top
      BY <1>2, <2>1, <2>5, <2>10 DEF Latest, q
    <3>2. CASE r = <<>>
      BY <2>2, <2>4, <2>5, <2>10, <3>1, <3>2
    <3>3. CASE r # <<>>
      BY <2>2, <3>1, <3>3
    <3> QED
      BY <3>2, <3>3
  <2> QED
    BY <2>8, <2>9, <2>10 DEF Tidy, Latest, r, z
<1> QED
  BY <1>3, <1>4

\* The whole of the acknowledgement, for one client.
LEMMA AckTidy ==
  ASSUME NEW x, Sound(x), NEW n \in DOMAIN x.wire, NEW w \in Outcomes, NEW top \in Nat,
         Tidy(x, top)
  PROVE  LET credited == Credited(Read(x, n), Bytes(SubSeq(x.wire, 1, n)))
             y == RunQueue(Shortened(credited), w)
         IN  /\ Tidy(y, top) /\ (Latest(x, top) => Latest(y, top))
             /\ credited \in Client /\ SameTexts(x.queue, credited.queue)
             /\ SameTexts(Shortened(credited).queue, y.queue)
<1> DEFINE frames == SubSeq(x.wire, 1, n)
           bytes == Bytes(frames)
           read == Read(x, n)
           credited == Credited(read, bytes)
           z == Shortened(credited)
           y == RunQueue(z, w)
<1>1. x \in Client /\ n \in 1 .. Len(x.wire) /\ Len(x.wire) \in Nat /\ x.wire \in Seq(Frames)
  BY DEF Sound, ClientOK, Client
<1>2. bytes \in Nat /\ bytes >= Header
  <2>1. frames \in Seq(Frames) /\ Len(frames) = n
    BY <1>1, SubSeqProperties
  <2> HIDE DEF frames
  <2>2. Len(frames) >= 1
    BY <1>1, <2>1
  <2> QED
    BY <2>1, <2>2, BytesAre
<1>3. credited \in Client /\ Sound(z)
  BY AckSound
<1>4. read \in Client /\ read.queue = x.queue
  BY <1>1, ReadIs
<1>5. Tidy(read, top) /\ (Latest(x, top) => Latest(read, top))
  BY <1>1, ReadTidy
<1> HIDE DEF read, bytes
<1>6. /\ Ran(read, credited)
      /\ \A k \in DOMAIN read.queue : credited.queue[k].sent = read.queue[k].sent
  BY <1>2, <1>4, CreditedRan
<1>7. Tidy(credited, top) /\ (Latest(read, top) => Latest(credited, top))
  BY <1>4, <1>5, <1>6, RanTidy
<1>8. SameTexts(x.queue, credited.queue)
  BY <1>4, <1>6 DEF Ran
<1> HIDE DEF credited
<1>9. \A k \in DOMAIN credited.queue : k > 1 => credited.queue[k].sent = 0
  BY <1>4, <1>6, <1>8 DEF SameTexts, Sound, ClientOK
<1>10. Tidy(z, top) /\ (Latest(credited, top) => Latest(z, top))
  BY <1>3, <1>7, <1>9, ShortenedTidy
<1> HIDE DEF z
<1>11. /\ Tidy(y, top) /\ (Latest(z, top) => Latest(y, top))
       /\ Ran(z, y)
  BY <1>3, <1>10, RunQueueTidy, RunQueueRan
<1>12. SameTexts(z.queue, y.queue)
  BY <1>11 DEF Ran
<1> HIDE DEF y
<1> QED
  BY <1>3, <1>5, <1>7, <1>8, <1>10, <1>11, <1>12 DEF y, z, credited, read, bytes

-----------------------------------------------------------------------------
(* Every client is told in order. *)

LEMMA OneConnTidy ==
  ASSUME TextsInv, LedInv', NEW c \in Live, NEW y, conn' = [conn EXCEPT ![c] = y],
         Tidy(y, leds), Latest(conn[c], leds) => Latest(y, leds),
         leds' = leds, Live' \subseteq Live, spent'.conns = spent.conns
  PROVE  TextsInv'
<1>1. c \in Conns /\ Live \subseteq spent.conns /\ Live \subseteq Conns
  BY LiveAreConns DEF TextsInv, LedInv, Listed
<1>2. DOMAIN conn = Conns
  BY DEF TextsInv, LedInv, ConnsSound
<1>3. conn'[c] = y /\ \A d \in Conns : d # c => conn'[d] = conn[d]
  BY <1>1, <1>2
<1>4. \A d \in Conns : Tidy(conn'[d], leds')
  BY <1>3 DEF TextsInv
<1>5. \A d \in Live' : Latest(conn'[d], leds')
  BY <1>1, <1>3 DEF TextsInv
<1>6. \A d \in Conns \ spent'.conns : conn'[d] = Fresh
  BY <1>1, <1>3 DEF TextsInv
<1> QED
  BY <1>4, <1>5, <1>6 DEF TextsInv

LEMMA FreshTidy ==
  ASSUME NEW top \in Nat
  PROVE  Tidy(Fresh, top) /\ Latest(Fresh, top)
<1>1. /\ Fresh.queue = <<>> /\ Fresh.wire = <<>> /\ Fresh.told = 0 /\ Fresh.deaf
  BY DEF Fresh, NoText
<1>2. OnWire(Fresh) = {}
  BY <1>1 DEF OnWire
<1> QED
  BY <1>1, <1>2 DEF Tidy, InOrder, FrontCarried, Latest

LEMMA DropTidy ==
  ASSUME TextsInv, LedInv', NEW c \in Live, Drop(c), UNCHANGED <<spent, leds>>
  PROVE  TextsInv'
<1>1. PICK i \in DOMAIN clients : clients' = RemoveAt(clients, i)
  BY DEF Drop
<1>2. \A j \in DOMAIN clients' : \E k \in DOMAIN clients : clients'[j] = clients[k]
  BY <1>1, RemoveAtIs DEF TextsInv, LedInv, Listed
<1>3. Live' \subseteq Live
  BY <1>2 DEF Live
<1>4. leds \in Nat
  BY LimitsAreNat DEF TextsInv, LedInv, Shared
<1> QED
  BY <1>3, <1>4, FreshTidy, OneConnTidy DEF Drop

LEMMA ConnectTidy ==
  ASSUME TextsInv, LedInv', NEW c \in Conns, Connect(c)
  PROVE  TextsInv'
<1>1. clients \in Seq(Conns) /\ clients' = Append(clients, c)
  BY DEF TextsInv, LedInv, Listed, Connect
<1>2. \A j \in DOMAIN clients' :
        (j \in DOMAIN clients /\ clients'[j] = clients[j]) \/ clients'[j] = c
  BY <1>1
<1>3. Live' \subseteq Live \cup {c}
  BY <1>2 DEF Live
<1>4. conn[c] = Fresh
  BY DEF TextsInv, Connect
<1>5. conn' = conn /\ leds' = leds /\ leds \in Nat
  BY LimitsAreNat DEF TextsInv, LedInv, Shared, Connect
<1>6. Latest(conn[c], leds)
  BY <1>4, <1>5, FreshTidy
<1>7. spent.conns \subseteq spent'.conns
  BY DEF Connect, TextsInv, LedInv, Shared, Spending
<1>8. \A d \in Live' : Latest(conn'[d], leds')
  BY <1>3, <1>5, <1>6 DEF TextsInv
<1>9. \A d \in Conns \ spent'.conns : conn'[d] = Fresh
  BY <1>5, <1>7 DEF TextsInv
<1>10. \A d \in Conns : Tidy(conn'[d], leds')
  BY <1>5 DEF TextsInv
<1> QED
  BY <1>8, <1>9, <1>10 DEF TextsInv

\* The state the handlers share.
LEMMA HandlerFacts ==
  ASSUME TextsInv, NEW c \in Live, NEW w \in Outcome
  PROVE  /\ c \in Conns /\ w \in Outcomes /\ leds \in Nat /\ Counted(w).conns = spent.conns
         /\ Sound(conn[c]) /\ Tidy(conn[c], leds) /\ spent \in Spending /\ Counted(w) \in Spending
<1>1. c \in Conns /\ leds \in Nat /\ spent \in Spending
  BY LiveAreConns, LimitsAreNat DEF TextsInv, LedInv, Shared
<1> QED
  BY <1>1, CountedIs DEF TextsInv, LedInv, ConnsSound

LEMMA PingTidy ==
  ASSUME TextsInv, LedInv', NEW c \in Conns, NEW w \in Outcome, Ping(c, w)
  PROVE  TextsInv'
<1> DEFINE counted == Counted(w)
           pings == spent.pings + 1
           y == QueueControl(conn[c], "PONG", w)
<1>1. c \in Live
  BY DEF Ping, Connected
<1>2. /\ w \in Outcomes /\ leds \in Nat /\ counted.conns = spent.conns /\ counted \in Spending
      /\ Sound(conn[c]) /\ Tidy(conn[c], leds)
  BY <1>1, HandlerFacts
<1>3. Tidy(y, leds) /\ (Latest(conn[c], leds) => Latest(y, leds))
  BY <1>2, QueueControlTidy
<1>4. conn' = [conn EXCEPT ![c] = y] /\ leds' = leds /\ Live' = Live
  BY DEF Ping, Live
<1>5. spent' = [counted EXCEPT !.pings = @ + 1]
  BY DEF Ping
<1> HIDE DEF counted, y
<1>6. spent'.conns = spent.conns
  BY <1>2, <1>5 DEF Spending
<1> QED
  BY <1>1, <1>3, <1>4, <1>6, OneConnTidy

LEMMA PeerClosesTidy ==
  ASSUME TextsInv, LedInv', NEW c \in Conns, NEW w \in Outcome, PeerCloses(c, w)
  PROVE  TextsInv' /\ SameTexts(conn[c].queue, conn'[c].queue)
<1> DEFINE x == conn[c]
           closing == [x EXCEPT !.status = "DISCONNECTING"]
           y == QueueControl(closing, "CLOSE", w)
<1>1. c \in Live
  BY DEF PeerCloses, Connected
<1>2. /\ w \in Outcomes /\ leds \in Nat /\ Counted(w).conns = spent.conns
      /\ Sound(x) /\ Tidy(x, leds)
  BY <1>1, HandlerFacts
<1>3. conn' = [conn EXCEPT ![c] = y] /\ leds' = leds /\ Live' = Live /\ spent' = Counted(w)
  BY DEF PeerCloses, Live
<1>4. DOMAIN conn = Conns
  BY DEF TextsInv, LedInv, ConnsSound
<1> HIDE DEF x
<1>5. x \in Client
  BY <1>2 DEF Sound, ClientOK
<1>6. /\ closing \in Client /\ closing.control = x.control /\ closing.queue = x.queue
      /\ closing.wire = x.wire /\ closing.hurt = x.hurt /\ closing.told = x.told
      /\ closing.status = "DISCONNECTING" /\ closing.inStep = x.inStep
  BY <1>5 DEF Client
<1> HIDE DEF closing
<1>7. Sound(closing)
  BY <1>2, <1>6 DEF Sound, ClientOK, Accounted, BetweenFrames, ControlDone
<1>8. Tidy(closing, leds) /\ Latest(closing, leds)
  BY <1>2, <1>6, AsTidy DEF Latest
<1>9. Tidy(y, leds) /\ Latest(y, leds) /\ SameTexts(x.queue, y.queue)
  BY <1>2, <1>6, <1>7, <1>8, QueueControlTidy
<1> HIDE DEF y
<1>10. TextsInv'
  BY <1>1, <1>2, <1>3, <1>9, OneConnTidy
<1>11. conn'[c] = y
  BY <1>3, <1>4
<1> QED
  BY <1>9, <1>10, <1>11 DEF x

LEMMA PollTidy ==
  ASSUME TextsInv, LedInv', NEW c \in Conns, NEW w \in Outcome, Poll(c, w)
  PROVE  TextsInv'
<1> DEFINE y == RunQueue(conn[c], w)
<1>1. c \in Live
  BY DEF Poll
<1>2. /\ w \in Outcomes /\ leds \in Nat /\ Counted(w).conns = spent.conns
      /\ Sound(conn[c]) /\ Tidy(conn[c], leds)
  BY <1>1, HandlerFacts
<1>3. Tidy(y, leds) /\ (Latest(conn[c], leds) => Latest(y, leds))
  BY <1>2, RunQueueTidy
<1>4. conn' = [conn EXCEPT ![c] = y] /\ leds' = leds /\ Live' = Live /\ spent' = Counted(w)
  BY DEF Poll, Live
<1> HIDE DEF y
<1> QED
  BY <1>1, <1>2, <1>3, <1>4, OneConnTidy

LEMMA CleanupTidy ==
  ASSUME TextsInv, LedInv', NEW w \in Outcome, Cleanup(w)
  PROVE  TextsInv'
<1> DEFINE c == Head(clients)
           y == QueueControl(conn[c], "CLOSE", w)
<1>1. c \in Live
  BY DEF Cleanup, Connected
<1>2. conn' = [conn EXCEPT ![c] = y] /\ leds' = leds /\ Live' = Live /\ spent' = Counted(w)
  BY DEF Cleanup, Live
<1> HIDE DEF c
<1>3. /\ w \in Outcomes /\ leds \in Nat /\ Counted(w).conns = spent.conns
      /\ Sound(conn[c]) /\ Tidy(conn[c], leds)
  BY <1>1, HandlerFacts
<1>4. Tidy(y, leds) /\ (Latest(conn[c], leds) => Latest(y, leds))
  BY <1>3, QueueControlTidy
<1> HIDE DEF y
<1> QED
  BY <1>1, <1>2, <1>3, <1>4, OneConnTidy

LEMMA OnAckTidy ==
  ASSUME TextsInv, LedInv', NEW c \in Conns, NEW w \in Outcome,
         NEW n \in DOMAIN conn[c].wire, OnAck(c, n, w)
  PROVE  TextsInv'
<1> DEFINE x == conn[c]
           read == Read(x, n)
           credited == Credited(read, Bytes(SubSeq(x.wire, 1, n)))
           y == RunQueue(Shortened(credited), w)
<1>1. c \in Live /\ leds' = leds
  BY DEF OnAck
<1>2. /\ w \in Outcomes /\ leds \in Nat /\ Counted(w).conns = spent.conns
      /\ Sound(x) /\ Tidy(x, leds)
  BY <1>1, HandlerFacts
<1>3. Tidy(y, leds) /\ (Latest(x, leds) => Latest(y, leds))
  BY <1>2, AckTidy
<1>4. \/ Drop(c) /\ UNCHANGED spent
      \/ conn' = [conn EXCEPT ![c] = y] /\ UNCHANGED clients /\ spent' = Counted(w)
  BY Zenon DEF OnAck
<1> HIDE DEF y
<1>5. CASE Drop(c) /\ UNCHANGED spent
  BY <1>1, <1>5, DropTidy
<1>6. CASE conn' = [conn EXCEPT ![c] = y] /\ UNCHANGED clients /\ spent' = Counted(w)
  <2>1. Live' = Live
    BY <1>6 DEF Live
  <2> QED
    BY <1>1, <1>2, <1>3, <1>6, <2>1, OneConnTidy
<1> QED
  BY <1>4, <1>5, <1>6

LEMMA ToggleTidy ==
  ASSUME TextsInv, LedInv', NEW c \in Conns, NEW failing \in Conns, NEW w \in Outcome,
         Toggle(c, failing, w)
  PROVE  TextsInv'
<1> DEFINE text == leds + 1
           how(d) == IF d = failing THEN w ELSE "written"
<1>1. leds \in Nat /\ text \in Texts /\ leds' = text /\ Live' = Live
  BY LimitsAreNat DEF TextsInv, LedInv, Shared, Toggle, Texts, Live
<1>2. \A d \in Conns : how(d) \in Outcomes
  <2>1. w \in Outcomes
    BY DEF Outcome, Outcomes
  <2> QED
    BY <2>1 DEF Outcomes
<1>3. conn' = [d \in Conns |-> IF Connected(d) THEN QueueMessage(conn[d], text, how(d))
                               ELSE conn[d]]
  BY DEF Toggle
<1>4. spent'.conns = spent.conns
  <2>1. spent' = Counted(w)
    BY DEF Toggle
  <2> QED
    BY <2>1, CountedIs DEF TextsInv, LedInv, Shared
<1> HIDE DEF how
<1>5. ASSUME NEW d \in Conns, Connected(d)
      PROVE  Tidy(conn'[d], text) /\ Latest(conn'[d], text)
  <2>1. conn'[d] = QueueMessage(conn[d], text, how(d))
    BY <1>3, <1>5
  <2>2. Sound(conn[d]) /\ Tidy(conn[d], leds)
    BY DEF TextsInv, LedInv, ConnsSound
  <2> QED
    BY <1>1, <1>2, <2>1, <2>2, QueueMessageTidy
<1>6. ASSUME NEW d \in Conns, ~ Connected(d)
      PROVE  conn'[d] = conn[d] /\ Tidy(conn'[d], text)
  <2>1. conn'[d] = conn[d]
    BY <1>3, <1>6
  <2>2. conn[d] \in Client /\ Tidy(conn[d], leds)
    BY DEF TextsInv, LedInv, ConnsSound, Sound, ClientOK
  <2> QED
    BY <1>1, <2>1, <2>2, LaterTidy
<1>7. \A d \in Conns : Tidy(conn'[d], leds')
  BY <1>1, <1>5, <1>6
<1>8. Live \subseteq Conns /\ Live \subseteq spent.conns
  BY LiveAreConns DEF TextsInv, LedInv, Listed
<1>9. \A d \in Live' : Latest(conn'[d], leds')
  <2> TAKE d \in Live'
  <2>1. d \in Live /\ d \in Conns
    BY <1>1, <1>8
  <2>2. CASE Connected(d)
    BY <1>1, <1>5, <2>1, <2>2
  <2>3. CASE ~ Connected(d)
    <3>1. conn'[d] = conn[d] /\ conn[d].status # "CONNECTED"
      BY <1>6, <2>1, <2>3 DEF Connected
    <3> QED
      BY <3>1 DEF Latest
  <2> QED
    BY <2>2, <2>3
<1>10. \A d \in Conns \ spent'.conns : conn'[d] = Fresh
  BY <1>4, <1>6, <1>8 DEF TextsInv, Connected
<1> QED
  BY <1>7, <1>9, <1>10 DEF TextsInv

LEMMA TextsStep ==
  ASSUME TextsInv, [Next]_vars
  PROVE  TextsInv'
<1>0. LedInv'
  BY LedStep DEF TextsInv
<1>1. ASSUME NEW c \in Conns, Connect(c) PROVE TextsInv'
  BY <1>0, <1>1, ConnectTidy
<1>2. ASSUME NEW c \in Conns, Disconnect(c) PROVE TextsInv'
  BY <1>0, <1>2, DropTidy DEF Disconnect
<1>3. ASSUME NEW c \in Conns, NEW failing \in Conns, NEW w \in Outcome,
             Toggle(c, failing, w)
      PROVE  TextsInv'
  BY <1>0, <1>3, ToggleTidy
<1>4. ASSUME NEW c \in Conns, NEW w \in Outcome, Ping(c, w) PROVE TextsInv'
  BY <1>0, <1>4, PingTidy
<1>5. ASSUME NEW c \in Conns, NEW w \in Outcome, PeerCloses(c, w) PROVE TextsInv'
  BY <1>0, <1>5, PeerClosesTidy
<1>6. ASSUME NEW c \in Conns, NEW w \in Outcome, Acks(c, w) PROVE TextsInv'
  BY <1>0, <1>6, OnAckTidy DEF Acks
<1>7. ASSUME NEW c \in Conns, NEW w \in Outcome, Poll(c, w) PROVE TextsInv'
  BY <1>0, <1>7, PollTidy
<1>8. ASSUME NEW w \in Outcome, Cleanup(w) PROVE TextsInv'
  BY <1>0, <1>8, CleanupTidy
<1>9. CASE UNCHANGED vars
  BY <1>0, <1>9 DEF vars, TextsInv, Live
<1> QED
  BY <1>1, <1>2, <1>3, <1>4, <1>5, <1>6, <1>7, <1>8, <1>9 DEF Next

LEMMA TextsInit ==
  ASSUME Init
  PROVE  TextsInv
<1>1. LedInv
  BY LedInit
<1>2. leds \in Nat /\ Live = {} /\ \A c \in Conns : conn[c] = Fresh
  BY DEF Init, Live
<1> QED
  BY <1>1, <1>2, FreshTidy DEF TextsInv

LEMMA TextsInvHolds == Spec => []TextsInv
<1>1. Init => TextsInv
  BY TextsInit
<1>2. TextsInv /\ [Next]_vars => TextsInv'
  BY TextsStep
<1> QED
  BY <1>1, <1>2, PTL DEF Spec

\* No client is ever told an older state of the LEDs after a newer one.  Unless its full
\* queue dropped the last toggle, or a header went out to it without its payload, the
\* present state is the last it read or is yet to be told: whatever else fails, is sent
\* twice, or is acknowledged to the wrong frame (AsyncWebSocket.cpp:100, 406, 494, 548).
THEOREM PeersAreToldInOrder == Spec => []PeersCatchUp
<1>1. TextsInv => PeersCatchUp
  <2> SUFFICES ASSUME TextsInv, NEW c \in Live
               PROVE  LET places == TextPlaces(conn[c])
                      IN  /\ \A p, q \in places :
                               p <= q => TextAt(conn[c], p) <= TextAt(conn[c], q)
                          /\ Connected(c) /\ ~ conn[c].deaf
                             /\ InStep(conn[c], Len(conn[c].wire)) =>
                               \E p \in places : /\ TextAt(conn[c], p) = leds
                                                 /\ \A q \in places : q <= p
    BY DEF PeersCatchUp
  <2> DEFINE x == conn[c]
             m == Len(x.wire)
             n == Len(x.queue)
             places == TextPlaces(x)
  <2>1. x \in Client /\ InOrder(x, leds) /\ Latest(x, leds) /\ leds \in Nat
    BY LiveAreConns, LimitsAreNat
    DEF TextsInv, LedInv, Shared, ConnsSound, Sound, ClientOK, Tidy
  <2>2. Connected(c) => x.status = "CONNECTED"
    BY DEF Connected
  <2> HIDE DEF x
  <2>3. /\ x.told \in Nat /\ m \in Nat /\ n \in Nat /\ DOMAIN x.wire = 1 .. m
        /\ DOMAIN x.queue = 1 .. n
        /\ \A i \in OnWire(x) : i \in 1 .. m /\ x.wire[i].text \in Nat
        /\ \A k \in DOMAIN x.queue : x.queue[k].text \in Nat
        /\ x.queue # <<>> <=> n \in DOMAIN x.queue
    BY <2>1, ClientTexts
  <2>4. \A p \in places :
          /\ p \in 0 .. m + n
          /\ p = 0 => TextAt(x, p) = x.told
          /\ p > 0 /\ p <= m => p \in OnWire(x) /\ TextAt(x, p) = x.wire[p].text
          /\ p > m => p - m \in DOMAIN x.queue /\ TextAt(x, p) = x.queue[p - m].text
    <3>1. \A p : p \in places => p \in 0 .. m + n /\ (p \in 1 .. m => p \in OnWire(x))
      BY <2>3 DEF TextPlaces, OnWire
    <3>2. \A p : TextAt(x, p) = IF p = 0 THEN x.told
                              ELSE IF p \in 1 .. m THEN x.wire[p].text
                              ELSE x.queue[p - m].text
      BY <2>3 DEF TextAt
    <3> HIDE DEF m, n, places
    <3> TAKE p \in places
    <3>3. p \in 0 .. m + n
      BY <3>1
    <3>4. p > 0 /\ p <= m => p \in 1 .. m
      BY <2>3, <3>3
    <3>5. p > m => p # 0 /\ p \notin 1 .. m /\ p - m \in 1 .. n
      BY <2>3, <3>3
    <3>6. p \in 1 .. m => p # 0
      BY <2>3
    <3> QED
      BY <2>3, <3>1, <3>2, <3>3, <3>4, <3>5, <3>6
  <2>5. /\ 0 \in places
        /\ \A i \in OnWire(x) : i \in places
        /\ \A k \in DOMAIN x.queue : k + m \in places
    <3>1. \A p : p \in places <=> p \in 0 .. m + n /\ (p \in 1 .. m => x.wire[p].op = "TEXT")
      BY <2>3 DEF TextPlaces
    <3> HIDE DEF m, n, places
    <3>2. 0 \in 0 .. m + n /\ 0 \notin 1 .. m
      BY <2>3
    <3>3. \A i \in OnWire(x) : i \in 0 .. m + n /\ x.wire[i].op = "TEXT"
      BY <2>3 DEF OnWire
    <3>4. \A k \in DOMAIN x.queue : k + m \in 0 .. m + n /\ k + m \notin 1 .. m
      BY <2>3
    <3> QED
      BY <3>1, <3>2, <3>3, <3>4
  <2> HIDE DEF m, n, places
  <2>6. \A p, q \in places : p <= q => TextAt(x, p) <= TextAt(x, q)
    <3> SUFFICES ASSUME NEW p \in places, NEW q \in places, p <= q
                 PROVE  TextAt(x, p) <= TextAt(x, q)
      OBVIOUS
    <3>1. p \in Nat /\ q \in Nat
      BY <2>3, <2>4
    <3>2. CASE q = 0
      <4>1. p = 0
        BY <3>1, <3>2
      <4> QED
        BY <2>3, <2>4, <3>2, <4>1
    <3>3. CASE q > 0 /\ q <= m
      <4>1. q \in OnWire(x) /\ TextAt(x, q) = x.wire[q].text
        BY <2>4, <3>3
      <4>2. p = 0 \/ (p > 0 /\ p <= m)
        BY <2>3, <3>1, <3>3
      <4> QED
        BY <2>1, <2>4, <4>1, <4>2 DEF InOrder
    <3>4. CASE q > m
      <4>1. q - m \in DOMAIN x.queue /\ TextAt(x, q) = x.queue[q - m].text
        BY <2>4, <3>4
      <4>2. CASE p = 0 \/ (p > 0 /\ p <= m)
        BY <2>1, <2>4, <4>1, <4>2 DEF InOrder
      <4>3. CASE p > m
        <5>1. p - m \in DOMAIN x.queue /\ TextAt(x, p) = x.queue[p - m].text
          BY <2>4, <4>3
        <5>2. p - m <= q - m
          BY <2>3, <3>1
        <5> QED
          BY <2>1, <4>1, <5>1, <5>2 DEF InOrder
      <4> QED
        BY <2>3, <3>1, <4>2, <4>3
    <3> QED
      BY <2>3, <3>1, <3>2, <3>3, <3>4
  <2>7. \A p \in places : TextAt(x, p) <= leds /\ TextAt(x, p) \in Nat
    <3> TAKE p \in places
    <3>1. CASE p = 0
      BY <2>1, <2>3, <2>4, <3>1 DEF InOrder
    <3>2. CASE p > 0 /\ p <= m
      BY <2>1, <2>3, <2>4, <3>2 DEF InOrder
    <3>3. CASE p > m
      <4>1. p - m \in DOMAIN x.queue /\ TextAt(x, p) = x.queue[p - m].text
        BY <2>4, <3>3
      <4> QED
        BY <2>1, <2>3, <4>1 DEF InOrder
    <3> QED
      BY <2>3, <2>4, <3>1, <3>2, <3>3
  <2>8. ASSUME Connected(c), ~ x.deaf, InStep(x, m)
        PROVE  \E p \in places : TextAt(x, p) = leds /\ \A q \in places : q <= p
    <3>1. CASE x.queue # <<>>
      <4>1. x.queue[n].text = leds /\ n \in DOMAIN x.queue
        BY <2>1, <2>2, <2>3, <2>8, <3>1 DEF Latest, Legible, m, n
      <4>2. n + m \in places /\ n + m > m /\ n + m - m = n
        BY <2>3, <2>5, <4>1
      <4>3. TextAt(x, n + m) = leds
        <5> SUFFICES ASSUME NEW p \in places, p = n + m PROVE TextAt(x, p) = leds
          BY <4>2
        <5>1. p > m /\ p - m = n
          BY <2>3, <4>2
        <5>2. TextAt(x, p) = x.queue[p - m].text
          BY <2>4, <5>1
        <5> QED
          BY <4>1, <5>1, <5>2
      <4>4. \A q \in places : q <= n + m
        BY <2>3, <2>4
      <4> QED
        BY <4>2, <4>3, <4>4
    <3>2. CASE x.queue = <<>>
      <4>1. Carried(x, leds)
        BY <2>1, <2>2, <2>8, <3>2 DEF Latest, Legible, m
      <4>2. \E p \in places : TextAt(x, p) = leds
        <5>1. CASE x.told = leds
          BY <2>4, <2>5, <5>1
        <5>2. CASE \E i \in OnWire(x) : x.wire[i].text = leds
          <6>1. PICK i \in OnWire(x) : x.wire[i].text = leds
            BY <5>2
          <6>2. i \in places /\ i > 0 /\ i <= m
            BY <2>3, <2>5
          <6> QED
            BY <2>4, <6>1, <6>2
        <5> QED
          BY <4>1, <5>1, <5>2 DEF Carried
      <4>3. \E last \in places : \A q \in places : q <= last
        <5>1. \A q \in places : q \in 0 .. m
          BY <2>3, <2>4, <3>2
        <5>2. CASE \A q \in places : q = 0
          BY <2>5, <5>2
        <5>3. CASE \E q \in places : q # 0
          <6> DEFINE T == {q \in places : q # 0}
          <6>1. T \in SUBSET (1 .. m) /\ T # {}
            BY <2>3, <5>1, <5>3
          <6>2. PICK last \in T : \A q \in T : q <= last
            BY <2>3, <6>1, LargestExists
          <6>3. last \in places /\ last >= 0 /\ \A q \in places : q = 0 \/ q \in T
            BY <2>3, <6>1
          <6> HIDE DEF T
          <6>4. \A q \in places : q <= last
            BY <6>2, <6>3
          <6> QED
            BY <6>3, <6>4
        <5> QED
          BY <5>2, <5>3
      <4>4. PICK p \in places : TextAt(x, p) = leds
        BY <4>2
      <4>5. PICK last \in places : \A q \in places : q <= last
        BY <4>3
      <4>6. leds <= TextAt(x, last) /\ TextAt(x, last) <= leds /\ TextAt(x, last) \in Nat
        BY <2>6, <2>7, <4>4, <4>5
      <4>7. TextAt(x, last) = leds
        BY <2>1, <4>6
      <4> QED
        BY <4>5, <4>7
    <3> QED
      BY <3>1, <3>2
  <2> QED
    BY <2>6, <2>8 DEF places, m, x
<1> QED
  BY <1>1, TextsInvHolds, PTL

-----------------------------------------------------------------------------
(* The references to a text. *)

\* The places of a text in one queue.
Points(q, t) == {i \in DOMAIN q : q[i].text = t}

PointersTo(f, t) ==
  {r \in Conns \X (1 .. MaxQueued) :
     r[2] \in DOMAIN f[r[1]].queue /\ f[r[1]].queue[r[2]].text = t}

LEMMA PointsFinite ==
  ASSUME NEW q \in Seq(Messages), NEW t
  PROVE  IsFiniteSet(Points(q, t)) /\ Cardinality(Points(q, t)) \in Nat
<1>1. IsFiniteSet(1 .. Len(q)) /\ DOMAIN q = 1 .. Len(q)
  BY FS_Interval
<1>2. Points(q, t) \in SUBSET (1 .. Len(q))
  BY <1>1 DEF Points
<1> QED
  BY <1>1, <1>2, FS_Subset, FS_CardinalityType

LEMMA Disjoint ==
  ASSUME NEW S, NEW T, NEW U, U = S \cup T, S \cap T = {}, IsFiniteSet(S), IsFiniteSet(T)
  PROVE  IsFiniteSet(U) /\ Cardinality(U) = Cardinality(S) + Cardinality(T)
<1>1. Cardinality(S) \in Nat /\ Cardinality(T) \in Nat /\ Cardinality({}) = 0
  BY FS_CardinalityType, FS_EmptySet
<1>2. /\ IsFiniteSet(S \cup T)
      /\ Cardinality(S \cup T) = Cardinality(S) + Cardinality(T) - Cardinality(S \cap T)
  BY FS_Union
<1>3. Cardinality(S \cap T) = 0
  BY <1>1
<1> DEFINE k == Cardinality(S)
           l == Cardinality(T)
           m == Cardinality(U)
           n == Cardinality(S \cap T)
<1>4. k \in Nat /\ l \in Nat /\ n = 0 /\ m = k + l - n
  BY <1>1, <1>2, <1>3
<1> HIDE DEF k, l, m, n
<1>5. m = k + l
  BY <1>4
<1> QED
  BY <1>2, <1>5 DEF k, l, m

LEMMA OneRow ==
  ASSUME NEW f \in [Conns -> Client], NEW c \in Conns, Len(f[c].queue) <= MaxQueued, NEW t
  PROVE  LET rest == {r \in PointersTo(f, t) : r[1] # c}
             row == {c} \X Points(f[c].queue, t)
         IN  PointersTo(f, t) = rest \cup row /\ rest \cap row = {}
<1> DEFINE rest == {r \in PointersTo(f, t) : r[1] # c}
           row == {c} \X Points(f[c].queue, t)
<1>1. /\ DOMAIN f[c].queue = 1 .. Len(f[c].queue) /\ Len(f[c].queue) \in Nat /\ MaxQueued \in Nat
  BY ClientTexts, LimitsAreNat
<1>2. DOMAIN f[c].queue \subseteq 1 .. MaxQueued
  BY <1>1
<1>3. \A r : r \in row => r \in PointersTo(f, t)
  <2> SUFFICES ASSUME NEW r \in row PROVE r \in PointersTo(f, t)
    OBVIOUS
  <2>1. PICK i \in Points(f[c].queue, t) : r = <<c, i>>
    OBVIOUS
  <2>2. i \in DOMAIN f[c].queue /\ f[c].queue[i].text = t /\ i \in 1 .. MaxQueued
    BY <1>2 DEF Points
  <2>3. r[1] = c /\ r[2] = i /\ r \in Conns \X (1 .. MaxQueued)
    BY <2>1, <2>2
  <2> QED
    BY <2>2, <2>3 DEF PointersTo
<1>4. \A r \in PointersTo(f, t) : r[1] = c => r \in row
  <2> SUFFICES ASSUME NEW r \in PointersTo(f, t), r[1] = c PROVE r \in row
    OBVIOUS
  <2>1. /\ r = <<r[1], r[2]>>
        /\ r[2] \in DOMAIN f[c].queue /\ f[c].queue[r[2]].text = t
    BY DEF PointersTo
  <2>2. r[2] \in Points(f[c].queue, t)
    BY <2>1 DEF Points
  <2> QED
    BY <2>1, <2>2
<1>5. \A r \in row : r[1] = c
  OBVIOUS
<1> QED
  BY <1>3, <1>4, <1>5

LEMMA ReferencesMoved ==
  ASSUME NEW f \in [Conns -> Client], NEW c \in Conns, NEW y \in Client, NEW t,
         Len(f[c].queue) <= MaxQueued, Len(y.queue) <= MaxQueued,
         IsFiniteSet(PointersTo(f, t)), NEW g, g = [f EXCEPT ![c] = y]
  PROVE  /\ IsFiniteSet(PointersTo(g, t))
         /\ Cardinality(PointersTo(g, t)) =
              Cardinality(PointersTo(f, t)) - Cardinality(Points(f[c].queue, t))
                + Cardinality(Points(y.queue, t))
<1> DEFINE others(h) == {r \in PointersTo(h, t) : r[1] # c}
           row(q) == {c} \X Points(q, t)
           R == others(f)
<1>1. g \in [Conns -> Client] /\ g[c] = y /\ \A d \in Conns : d # c => g[d] = f[d]
  OBVIOUS
<1>2. /\ PointersTo(f, t) = others(f) \cup row(f[c].queue)
      /\ others(f) \cap row(f[c].queue) = {}
  BY OneRow
<1>3. /\ PointersTo(g, t) = others(g) \cup row(y.queue)
      /\ others(g) \cap row(y.queue) = {}
  BY <1>1, OneRow
<1>4. others(g) = others(f)
  <2>1. \A r \in Conns \X (1 .. MaxQueued) :
          r[1] # c => g[r[1]] = f[r[1]]
    BY <1>1
  <2> QED
    BY <2>1 DEF PointersTo
<1>5. \A q \in Seq(Messages) : /\ IsFiniteSet(row(q))
                               /\ Cardinality(row(q)) = Cardinality(Points(q, t))
                               /\ Cardinality(Points(q, t)) \in Nat
  <2> TAKE q \in Seq(Messages)
  <2>1. IsFiniteSet(Points(q, t)) /\ Cardinality(Points(q, t)) \in Nat
    BY PointsFinite
  <2>2. IsFiniteSet({c}) /\ Cardinality({c}) = 1
    BY FS_Singleton
  <2>3. IsFiniteSet(row(q)) /\ Cardinality(row(q)) = 1 * Cardinality(Points(q, t))
    BY <2>1, <2>2, FS_Product
  <2> HIDE DEF row
  <2> QED
    BY <2>1, <2>3
<1>6. f[c].queue \in Seq(Messages) /\ y.queue \in Seq(Messages)
  BY ClientTexts
<1>7. IsFiniteSet(R) /\ Cardinality(R) \in Nat
  <2>1. R \in SUBSET PointersTo(f, t)
    OBVIOUS
  <2> HIDE DEF R
  <2> QED
    BY <2>1, FS_Subset, FS_CardinalityType
<1> HIDE DEF others, row
<1>8. /\ IsFiniteSet(PointersTo(f, t))
      /\ Cardinality(PointersTo(f, t)) = Cardinality(R) + Cardinality(row(f[c].queue))
  BY <1>2, <1>5, <1>6, <1>7, Disjoint
<1>9. /\ IsFiniteSet(PointersTo(g, t))
      /\ Cardinality(PointersTo(g, t)) = Cardinality(R) + Cardinality(row(y.queue))
  <2>1. others(g) = R
    BY <1>4
  <2>2. PointersTo(g, t) = R \cup row(y.queue) /\ R \cap row(y.queue) = {}
    BY <1>3, <2>1
  <2> QED
    BY <1>5, <1>6, <1>7, <2>2, Disjoint
<1> QED
  BY <1>5, <1>6, <1>7, <1>8, <1>9

LEMMA SamePoints ==
  ASSUME NEW q, NEW r, NEW t, SameTexts(q, r)
  PROVE  Points(r, t) = Points(q, t)
BY DEF Points, SameTexts

\* The front message leaves with its own reference.
LEMMA TailPoints ==
  ASSUME NEW q \in Seq(Messages), q # <<>>, NEW t
  PROVE  Cardinality(Points(q, t)) =
           Cardinality(Points(Tail(q), t)) + Cardinality(Points(<<Head(q)>>, t))
<1> DEFINE r == Tail(q)
           front == <<Head(q)>>
           back == Points(q, t) \ {1}
           shift == [i \in Points(r, t) |-> i + 1]
<1>1. /\ r \in Seq(Messages) /\ Len(r) = Len(q) - 1 /\ Len(q) \in Nat /\ Len(q) >= 1
      /\ DOMAIN q = 1 .. Len(q) /\ DOMAIN r = 1 .. Len(q) - 1
      /\ \A k \in DOMAIN r : k + 1 \in DOMAIN q /\ r[k] = q[k + 1]
  BY TailOf
<1>2. Head(q) = q[1] /\ 1 \in DOMAIN q /\ DOMAIN front = {1} /\ front[1] = q[1]
  BY <1>1
<1> HIDE DEF r, front
<1>3. /\ IsFiniteSet(Points(q, t)) /\ Cardinality(Points(q, t)) \in Nat
      /\ IsFiniteSet(Points(r, t)) /\ Cardinality(Points(r, t)) \in Nat
  BY <1>1, PointsFinite
<1>4. Cardinality(back) = Cardinality(Points(r, t))
  <2>1. \A i \in Points(r, t) : i \in Nat /\ i + 1 \in back
    BY <1>1 DEF Points
  <2>2. shift \in [Points(r, t) -> back]
    BY <2>1
  <2>3. \A i, j \in Points(r, t) : shift[i] = shift[j] => i = j
    BY <2>1
  <2>4. \A k \in back : \E i \in Points(r, t) : shift[i] = k
    <3> TAKE k \in back
    <3>1. k \in DOMAIN q /\ q[k].text = t /\ k # 1
      BY DEF Points
    <3>2. k - 1 \in DOMAIN r /\ k - 1 + 1 = k
      BY <1>1, <3>1
    <3>3. r[k - 1] = q[k]
      BY <1>1, <3>2
    <3>4. k - 1 \in Points(r, t)
      BY <3>1, <3>2, <3>3 DEF Points
    <3> QED
      BY <3>2, <3>4
  <2> HIDE DEF shift, back
  <2>5. shift \in Bijection(Points(r, t), back)
    BY <2>2, <2>3, <2>4, Fun_IsBij
  <2>6. ExistsBijection(Points(r, t), back)
    BY <2>5 DEF ExistsBijection
  <2> QED
    BY <1>3, <2>6, FS_Bijection
<1>5. CASE q[1].text = t
  <2>1. 1 \in Points(q, t) /\ Points(front, t) = {1}
    BY <1>2, <1>5 DEF Points
  <2>2. Cardinality(back) = Cardinality(Points(q, t)) - 1
    BY <1>3, <2>1, FS_RemoveElement
  <2>3. Cardinality(Points(front, t)) = 1
    BY <2>1, FS_Singleton
  <2> HIDE DEF back
  <2> QED
    BY <1>3, <1>4, <2>2, <2>3 DEF r, front
<1>6. CASE q[1].text # t
  <2>1. 1 \notin Points(q, t) /\ Points(front, t) = {}
    BY <1>2, <1>6 DEF Points
  <2>2. Cardinality(back) = Cardinality(Points(q, t))
    BY <1>3, <2>1, FS_RemoveElement
  <2>3. Cardinality(Points(front, t)) = 0
    BY <2>1, FS_EmptySet
  <2> HIDE DEF back
  <2> QED
    BY <1>3, <1>4, <2>2, <2>3 DEF r, front
<1> QED
  BY <1>5, <1>6

-----------------------------------------------------------------------------
(* The counts of the buffers. *)

\* Every count is the number of messages that point at its text, and only counted texts
\* are pointed at.
CountsHold(f, held) ==
  \A t \in Texts :
    /\ IsFiniteSet(PointersTo(f, t))
    /\ t \in DOMAIN held => held[t] = Cardinality(PointersTo(f, t))
    /\ t \notin DOMAIN held => PointersTo(f, t) = {}

BufferInv == TextsInv /\ CountsHold(conn, buffers)

LEMMA CleanCounts ==
  ASSUME NEW f, NEW held, CountsHold(f, held)
  PROVE  CountsHold(f, Clean(held))
<1> DEFINE clean == Clean(held)
<1>1. /\ \A t : t \in DOMAIN clean <=> t \in DOMAIN held /\ held[t] > 0
      /\ \A t \in DOMAIN clean : clean[t] = held[t]
  BY DEF Clean
<1> HIDE DEF clean
<1>2. ASSUME NEW t \in Texts, t \in DOMAIN held, ~ (held[t] > 0)
      PROVE  PointersTo(f, t) = {}
  <2>1. IsFiniteSet(PointersTo(f, t)) /\ held[t] = Cardinality(PointersTo(f, t))
    BY <1>2 DEF CountsHold
  <2>2. held[t] \in Nat
    BY <2>1, FS_CardinalityType
  <2>3. held[t] = 0
    BY <1>2, <2>2
  <2> QED
    BY <2>1, <2>3, FS_EmptySet
<1> QED
  BY <1>1, <1>2 DEF CountsHold, clean

\* The messages one queue loses give back their references, and no others.
LEMMA ReleasedCounts ==
  ASSUME NEW f \in [Conns -> Client], NEW held, CountsHold(f, held), NEW c \in Conns,
         NEW y \in Client, Len(f[c].queue) <= MaxQueued, Len(y.queue) <= MaxQueued,
         NEW g, g = [f EXCEPT ![c] = y], NEW gone \in Seq(Messages),
         \A t \in Texts : Cardinality(Points(f[c].queue, t)) =
                            Cardinality(Points(y.queue, t)) + Cardinality(Points(gone, t))
  PROVE  CountsHold(g, Released(held, gone))
<1> DEFINE left == Released(held, gone)
<1>1. /\ DOMAIN left = DOMAIN held
      /\ \A t \in DOMAIN held : left[t] = held[t] - Cardinality(Points(gone, t))
  BY DEF Released, Points
<1> HIDE DEF left
<1>0. ASSUME NEW t, IsFiniteSet(PointersTo(f, t))
      PROVE  /\ IsFiniteSet(PointersTo(g, t))
             /\ Cardinality(PointersTo(g, t)) =
                  Cardinality(PointersTo(f, t)) - Cardinality(Points(f[c].queue, t))
                    + Cardinality(Points(y.queue, t))
  BY <1>0, ReferencesMoved
<1> SUFFICES ASSUME NEW t \in Texts
             PROVE  /\ IsFiniteSet(PointersTo(g, t))
                    /\ t \in DOMAIN left => left[t] = Cardinality(PointersTo(g, t))
                    /\ t \notin DOMAIN left => PointersTo(g, t) = {}
  BY DEF CountsHold, left
<1> DEFINE m == Cardinality(PointersTo(f, t))
           n == Cardinality(PointersTo(g, t))
           p == Cardinality(Points(f[c].queue, t))
           q == Cardinality(Points(y.queue, t))
           d == Cardinality(Points(gone, t))
<1>2. /\ IsFiniteSet(PointersTo(f, t))
      /\ t \in DOMAIN held => held[t] = m
      /\ t \notin DOMAIN held => PointersTo(f, t) = {}
  BY DEF CountsHold
<1>3. IsFiniteSet(PointersTo(g, t)) /\ n = m - p + q
  BY <1>0, <1>2
<1>4. p \in Nat /\ q \in Nat /\ d \in Nat /\ m \in Nat /\ n \in Nat
  <2>1. f[c].queue \in Seq(Messages) /\ y.queue \in Seq(Messages)
    BY ClientTexts
  <2> QED
    BY <1>2, <1>3, <2>1, PointsFinite, FS_CardinalityType
<1>5. p = q + d
  OBVIOUS
<1>6. t \notin DOMAIN held => m = 0
  BY <1>2, FS_EmptySet
<1>7. n = 0 => PointersTo(g, t) = {}
  BY <1>3, FS_EmptySet
<1> HIDE DEF m, n, p, q
<1>8. n = m - d
  BY <1>3, <1>4, <1>5
<1>9. t \notin DOMAIN held => n = 0
  BY <1>4, <1>6, <1>8
<1> QED
  BY <1>1, <1>2, <1>3, <1>7, <1>8, <1>9 DEF n

LEMMA NoPoints ==
  ASSUME NEW t
  PROVE  Points(<<>>, t) = {} /\ Cardinality(Points(<<>>, t)) = 0
<1>1. Points(<<>>, t) = {}
  BY DEF Points
<1> QED
  BY <1>1, FS_EmptySet

\* A handler that leaves the texts of a queue as they are.
LEMMA KeptCounts ==
  ASSUME NEW f \in [Conns -> Client], NEW held, CountsHold(f, held), NEW c \in Conns,
         NEW y \in Client, Len(f[c].queue) <= MaxQueued, Len(y.queue) <= MaxQueued,
         NEW g, g = [f EXCEPT ![c] = y], SameTexts(f[c].queue, y.queue)
  PROVE  CountsHold(g, held)
<1>1. \A t \in Texts : /\ IsFiniteSet(PointersTo(g, t))
                       /\ Cardinality(PointersTo(g, t)) = Cardinality(PointersTo(f, t))
  <2> TAKE t \in Texts
  <2> DEFINE m == Cardinality(PointersTo(f, t))
             p == Cardinality(Points(f[c].queue, t))
  <2>1. IsFiniteSet(PointersTo(f, t))
    BY DEF CountsHold
  <2>2. Points(y.queue, t) = Points(f[c].queue, t)
    BY SamePoints
  <2>3. /\ IsFiniteSet(PointersTo(g, t))
        /\ Cardinality(PointersTo(g, t)) = m - p + p
    <3>1. /\ IsFiniteSet(PointersTo(g, t))
          /\ Cardinality(PointersTo(g, t)) = m - p + Cardinality(Points(y.queue, t))
      BY <2>1, ReferencesMoved
    <3> QED
      BY <2>2, <3>1
  <2>4. f[c].queue \in Seq(Messages)
    BY ClientTexts
  <2>5. m \in Nat /\ p \in Nat
    BY <2>1, <2>4, PointsFinite, FS_CardinalityType
  <2> HIDE DEF m, p
  <2>6. m - p + p = m
    BY <2>5
  <2> QED
    BY <2>3, <2>6 DEF m
<1> SUFFICES ASSUME NEW t \in Texts
             PROVE  /\ IsFiniteSet(PointersTo(g, t))
                    /\ t \in DOMAIN held => held[t] = Cardinality(PointersTo(g, t))
                    /\ t \notin DOMAIN held => PointersTo(g, t) = {}
  BY DEF CountsHold
<1>2. /\ t \in DOMAIN held => held[t] = Cardinality(PointersTo(f, t))
      /\ t \notin DOMAIN held => PointersTo(f, t) = {}
  BY DEF CountsHold
<1> QED
  BY <1>1, <1>2, FS_EmptySet

\* What a handler of one live client starts from.
LEMMA CountFacts ==
  ASSUME BufferInv, NEW c \in Live, NEW w \in Outcome
  PROVE  /\ c \in Conns /\ w \in Outcomes /\ leds \in Nat /\ conn \in [Conns -> Client]
         /\ Sound(conn[c]) /\ Tidy(conn[c], leds) /\ Len(conn[c].queue) <= MaxQueued
         /\ CountsHold(conn, buffers)
<1>1. /\ c \in Conns /\ w \in Outcomes /\ leds \in Nat
      /\ Sound(conn[c]) /\ Tidy(conn[c], leds)
  BY HandlerFacts DEF BufferInv
<1>2. conn \in [Conns -> Client]
  BY DEF BufferInv, TextsInv, LedInv, ConnsSound
<1> QED
  BY <1>1, <1>2 DEF BufferInv, Sound, ClientOK

LEMMA HandlerCounts ==
  ASSUME BufferInv, TextsInv', NEW c \in Live, NEW w \in Outcome, NEW y,
         conn' = [conn EXCEPT ![c] = y], SameTexts(conn[c].queue, y.queue),
         buffers' = buffers
  PROVE  BufferInv'
<1>1. /\ c \in Conns /\ conn \in [Conns -> Client] /\ Len(conn[c].queue) <= MaxQueued
      /\ CountsHold(conn, buffers)
  BY CountFacts
<1>2. y \in Client /\ Len(y.queue) <= MaxQueued
  <2>1. conn'[c] = y
    BY <1>1
  <2>2. Sound(conn'[c])
    BY <1>1 DEF TextsInv, LedInv, ConnsSound
  <2> QED
    BY <2>1, <2>2 DEF Sound, ClientOK
<1>3. CountsHold(conn', buffers)
  BY <1>1, <1>2, KeptCounts
<1> QED
  BY <1>3 DEF BufferInv

LEMMA PingCounts ==
  ASSUME BufferInv, TextsInv', NEW c \in Conns, NEW w \in Outcome, Ping(c, w)
  PROVE  BufferInv'
<1> DEFINE y == QueueControl(conn[c], "PONG", w)
<1>1. c \in Live /\ conn' = [conn EXCEPT ![c] = y] /\ buffers' = buffers
  BY DEF Ping, Connected
<1>2. SameTexts(conn[c].queue, y.queue)
  BY <1>1, CountFacts, QueueControlTidy
<1> HIDE DEF y
<1> QED
  BY <1>1, <1>2, HandlerCounts

LEMMA PeerClosesCounts ==
  ASSUME BufferInv, TextsInv', NEW c \in Conns, NEW w \in Outcome, PeerCloses(c, w)
  PROVE  BufferInv'
<1> DEFINE y == QueueControl([conn[c] EXCEPT !.status = "DISCONNECTING"], "CLOSE", w)
<1>1. c \in Live /\ conn' = [conn EXCEPT ![c] = y] /\ buffers' = buffers
  BY DEF PeerCloses, Connected
<1>2. SameTexts(conn[c].queue, conn'[c].queue)
  BY PeerClosesTidy DEF BufferInv, TextsInv
<1> HIDE DEF y
<1>3. conn'[c] = y
  BY <1>1 DEF BufferInv, TextsInv, LedInv, ConnsSound
<1> QED
  BY <1>1, <1>2, <1>3, HandlerCounts

LEMMA PollCounts ==
  ASSUME BufferInv, TextsInv', NEW c \in Conns, NEW w \in Outcome, Poll(c, w)
  PROVE  BufferInv'
<1> DEFINE y == RunQueue(conn[c], w)
<1>1. c \in Live /\ conn' = [conn EXCEPT ![c] = y] /\ buffers' = buffers
  BY DEF Poll
<1>2. SameTexts(conn[c].queue, y.queue)
  BY <1>1, CountFacts, RunQueueRan DEF Ran
<1> HIDE DEF y
<1> QED
  BY <1>1, <1>2, HandlerCounts

LEMMA CleanupCounts ==
  ASSUME BufferInv, TextsInv', NEW w \in Outcome, Cleanup(w)
  PROVE  BufferInv'
<1> DEFINE c == Head(clients)
           y == QueueControl(conn[c], "CLOSE", w)
<1>1. c \in Live /\ conn' = [conn EXCEPT ![c] = y] /\ buffers' = buffers
  BY DEF Cleanup, Connected
<1> HIDE DEF c
<1>2. SameTexts(conn[c].queue, y.queue)
  BY <1>1, CountFacts, QueueControlTidy
<1> HIDE DEF y
<1> QED
  BY <1>1, <1>2, HandlerCounts

LEMMA DropCounts ==
  ASSUME BufferInv, TextsInv', NEW c \in Live, Drop(c)
  PROVE  BufferInv'
<1>1. /\ c \in Conns /\ conn \in [Conns -> Client] /\ Len(conn[c].queue) <= MaxQueued
      /\ CountsHold(conn, buffers)
  BY LiveAreConns DEF BufferInv, TextsInv, LedInv, ConnsSound, Sound, ClientOK
<1>2. /\ conn' = [conn EXCEPT ![c] = Fresh]
      /\ buffers' = Released(buffers, conn[c].queue)
  BY DEF Drop
<1>3. Fresh \in Client /\ Fresh.queue = <<>> /\ Len(Fresh.queue) <= MaxQueued
  BY FreshSound, LimitsAreNat DEF Sound, ClientOK, Fresh
<1>4. conn[c].queue \in Seq(Messages)
  BY <1>1, ClientTexts
<1>5. \A t \in Texts : Cardinality(Points(conn[c].queue, t)) =
                         Cardinality(Points(Fresh.queue, t)) + Cardinality(Points(conn[c].queue, t))
  <2> TAKE t \in Texts
  <2>1. Cardinality(Points(conn[c].queue, t)) \in Nat
    BY <1>4, PointsFinite
  <2>2. Cardinality(Points(Fresh.queue, t)) = 0
    BY <1>3, NoPoints
  <2> QED
    BY <2>1, <2>2
<1>6. CountsHold(conn', Released(buffers, conn[c].queue))
  BY <1>1, <1>2, <1>3, <1>4, <1>5, ReleasedCounts
<1> QED
  BY <1>2, <1>6 DEF BufferInv

LEMMA OnAckCounts ==
  ASSUME BufferInv, TextsInv', NEW c \in Conns, NEW w \in Outcome,
         NEW n \in DOMAIN conn[c].wire, OnAck(c, n, w)
  PROVE  BufferInv'
<1> DEFINE x == conn[c]
           read == Read(x, n)
           credited == Credited(read, Bytes(SubSeq(x.wire, 1, n)))
           done == IF MessageDone(credited) THEN <<Head(credited.queue)>> ELSE <<>>
           z == Shortened(credited)
           y == RunQueue(z, w)
<1>1. c \in Live
  BY DEF OnAck
<1>2. /\ w \in Outcomes /\ leds \in Nat /\ conn \in [Conns -> Client]
      /\ Sound(x) /\ Tidy(x, leds) /\ Len(x.queue) <= MaxQueued
      /\ CountsHold(conn, buffers)
  BY <1>1, CountFacts
<1>3. /\ credited \in Client /\ SameTexts(x.queue, credited.queue)
      /\ SameTexts(z.queue, y.queue)
  BY <1>2, AckTidy
<1>4. \/ Drop(c)
      \/ conn' = [conn EXCEPT ![c] = y] /\ buffers' = Released(Clean(buffers), done)
  BY Zenon DEF OnAck
<1> HIDE DEF credited
<1>5. /\ ~ MessageDone(credited) => z.queue = credited.queue
      /\ MessageDone(credited) => z.queue = Tail(credited.queue)
  BY <1>3, ShortenedIs
<1> HIDE DEF z, y
<1>6. CASE Drop(c)
  BY <1>1, <1>6, DropCounts
<1>7. CASE conn' = [conn EXCEPT ![c] = y] /\ buffers' = Released(Clean(buffers), done)
  <2>1. y \in Client /\ Len(y.queue) <= MaxQueued
    <3>1. conn'[c] = y
      BY <1>2, <1>7
    <3>2. Sound(conn'[c])
      BY <1>1 DEF TextsInv, LedInv, ConnsSound
    <3> QED
      BY <3>1, <3>2 DEF Sound, ClientOK
  <2>2. credited.queue \in Seq(Messages)
    BY <1>3, ClientTexts
  <2>3. done \in Seq(Messages)
    <3>1. CASE MessageDone(credited)
      <4>1. Head(credited.queue) \in Messages
        BY <2>2, <3>1 DEF MessageDone
      <4>2. done = <<Head(credited.queue)>>
        BY <3>1
      <4> HIDE DEF done
      <4> QED
        BY <4>1, <4>2
    <3>2. CASE ~ MessageDone(credited)
      BY <3>2
    <3> QED
      BY <3>1, <3>2
  <2>4. \A t \in Texts : Cardinality(Points(x.queue, t)) =
                           Cardinality(Points(y.queue, t)) + Cardinality(Points(done, t))
    <3> TAKE t \in Texts
    <3>1. /\ Points(x.queue, t) = Points(credited.queue, t)
          /\ Points(y.queue, t) = Points(z.queue, t)
      BY <1>3, SamePoints
    <3>2. CASE MessageDone(credited)
      <4>1. credited.queue # <<>>
        BY <3>2 DEF MessageDone
      <4>2. done = <<Head(credited.queue)>> /\ z.queue = Tail(credited.queue)
        BY <1>5, <3>2
      <4> HIDE DEF done
      <4> QED
        BY <2>2, <3>1, <4>1, <4>2, TailPoints
    <3>3. CASE ~ MessageDone(credited)
      <4>1. done = <<>> /\ z.queue = credited.queue
        BY <1>5, <3>3
      <4>2. Cardinality(Points(credited.queue, t)) \in Nat
        BY <2>2, PointsFinite
      <4>3. Cardinality(Points(done, t)) = 0
        BY <4>1, NoPoints
      <4> HIDE DEF done
      <4> QED
        BY <3>1, <4>1, <4>2, <4>3
    <3> QED
      BY <3>2, <3>3
  <2> HIDE DEF done
  <2>5. CountsHold(conn, Clean(buffers))
    BY <1>2, CleanCounts
  <2>6. CountsHold(conn', Released(Clean(buffers), done))
    BY <1>1, <1>2, <1>7, <2>1, <2>3, <2>4, <2>5, ReleasedCounts
  <2> QED
    BY <1>7, <2>6 DEF BufferInv
<1> QED
  BY <1>4, <1>6, <1>7

LEMMA LiveFinite ==
  ASSUME clients \in Seq(Conns)
  PROVE  IsFiniteSet(Live)
<1> DEFINE n == Len(clients)
           f == [i \in 1 .. n |-> clients[i]]
<1>1. n \in Nat /\ DOMAIN clients = 1 .. n
  OBVIOUS
<1>2. f \in [1 .. n -> Live]
  BY <1>1 DEF Live
<1>3. \A c \in Live : \E i \in 1 .. n : f[i] = c
  BY <1>1 DEF Live
<1>4. IsFiniteSet(1 .. n)
  BY <1>1, FS_Interval
<1> HIDE DEF n, f
<1>5. f \in Surjection(1 .. n, Live)
  BY <1>2, <1>3, Fun_IsSurj
<1> QED
  BY <1>4, <1>5, FS_Surjection

\* A toggle appends its text to the queues that have room, and moves no other.
LEMMA ToggledPoints ==
  ASSUME NEW x, Sound(x), NEW top \in Nat, top + 1 \in Texts, Tidy(x, top),
         NEW w \in Outcomes
  PROVE  LET y == QueueMessage(x, top + 1, w)
         IN  /\ \A t \in Texts : t # top + 1 => Points(y.queue, t) = Points(x.queue, t)
             /\ Points(y.queue, top + 1) =
                  IF Len(x.queue) < MaxQueued THEN {Len(x.queue) + 1} ELSE {}
             /\ Points(x.queue, top + 1) = {}
<1> DEFINE text == top + 1
           z == Queued(x, text)
           y == QueueMessage(x, text, w)
           q == x.queue
           r == z.queue
           n == Len(q)
<1>1. /\ x \in Client /\ q \in Seq(Messages) /\ n \in Nat /\ DOMAIN q = 1 .. n
      /\ \A k \in DOMAIN q : q[k].text <= top /\ q[k].text \in Nat
      /\ MaxQueued \in Nat
  BY ClientTexts, LimitsAreNat DEF Sound, ClientOK, Tidy, InOrder
<1>2. /\ Len(x.queue) >= MaxQueued => z.queue = x.queue
      /\ ~ (Len(x.queue) >= MaxQueued) => z.queue = Append(x.queue, Message(text))
  BY MessageQueued
<1>3. SameTexts(z.queue, y.queue)
  BY QueueMessageTidy DEF Ran
<1>4. text \in Nat /\ \A k \in DOMAIN q : q[k].text # text
  BY <1>1
<1>5. Points(q, text) = {}
  BY <1>4 DEF Points
<1>6. \A t : Points(y.queue, t) = Points(r, t)
  BY <1>3, SamePoints
<1> HIDE DEF z, y
<1>7. CASE n >= MaxQueued
  <2>1. r = q /\ ~ (n < MaxQueued)
    BY <1>1, <1>2, <1>7
  <2> QED
    BY <1>5, <1>6, <2>1 DEF y
<1>8. CASE ~ (n >= MaxQueued)
  <2>1. r = Append(q, Message(text)) /\ n < MaxQueued
    BY <1>1, <1>2, <1>8
  <2>2. /\ DOMAIN r = 1 .. n + 1 /\ DOMAIN q = 1 .. n
        /\ r[n + 1].text = text /\ \A k \in 1 .. n : r[k] = q[k]
    BY <1>1, <2>1, MessageAppended
  <2> HIDE DEF text, r, q, n
  <2>3. \A k : k \in DOMAIN r <=> k \in DOMAIN q \/ k = n + 1
    BY <1>1, <2>2
  <2>4. n + 1 \notin DOMAIN q /\ \A k \in DOMAIN q : r[k] = q[k]
    BY <1>1, <2>2
  <2>5. \A t : t # text => Points(r, t) = Points(q, t)
    BY <2>2, <2>3, <2>4 DEF Points
  <2>6. Points(r, text) = {n + 1}
    BY <1>4, <2>2, <2>3, <2>4 DEF Points
  <2> QED
    BY <1>5, <1>6, <2>1, <2>5, <2>6 DEF y, text, q, n
<1> QED
  BY <1>7, <1>8

LEMMA PointersAre ==
  ASSUME NEW f, NEW t
  PROVE  PointersTo(f, t) = {r \in Conns \X (1 .. MaxQueued) : r[2] \in Points(f[r[1]].queue, t)}
BY DEF PointersTo, Points

LEMMA ToggleCounts ==
  ASSUME BufferInv, TextsInv', NEW c \in Conns, NEW failing \in Conns, NEW w \in Outcome,
         Toggle(c, failing, w)
  PROVE  BufferInv'
<1> DEFINE text == leds + 1
           how(d) == IF d = failing THEN w ELSE "written"
           takes == {d \in Conns : Connected(d) /\ Len(conn[d].queue) < MaxQueued}
           held == [t \in DOMAIN buffers \cup {text} |->
                      IF t = text THEN Cardinality(takes) ELSE buffers[t]]
           last == [d \in takes |-> <<d, Len(conn[d].queue) + 1>>]
<1>1. leds \in Nat /\ text \in Texts /\ MaxQueued \in Nat
  BY LimitsAreNat DEF BufferInv, TextsInv, LedInv, Shared, Toggle, Texts
<1>2. \A d \in Conns : how(d) \in Outcomes
  <2>1. w \in Outcomes
    BY DEF Outcome, Outcomes
  <2> QED
    BY <2>1 DEF Outcomes
<1>3. /\ conn' = [d \in Conns |-> IF Connected(d) THEN QueueMessage(conn[d], text, how(d))
                                  ELSE conn[d]]
      /\ buffers' = Clean(held)
  BY DEF Toggle
<1> HIDE DEF how, held
<1>4. \A d \in Conns : /\ Sound(conn[d]) /\ Tidy(conn[d], leds) /\ Len(conn[d].queue) \in Nat
  <2> TAKE d \in Conns
  <2>1. Sound(conn[d]) /\ Tidy(conn[d], leds)
    BY DEF BufferInv, TextsInv, LedInv, ConnsSound
  <2> QED
    BY <2>1, ClientTexts DEF Sound, ClientOK
<1>5. ASSUME NEW d \in Conns
      PROVE  /\ \A t \in Texts : t # text => Points(conn'[d].queue, t) = Points(conn[d].queue, t)
             /\ Points(conn'[d].queue, text) =
                  IF d \in takes THEN {Len(conn[d].queue) + 1} ELSE {}
  <2>1. CASE Connected(d)
    <3>1. conn'[d] = QueueMessage(conn[d], text, how(d))
      BY <1>3, <2>1
    <3>2. Sound(conn[d]) /\ Tidy(conn[d], leds) /\ how(d) \in Outcomes
      BY <1>2, <1>4
    <3>3. /\ \A t \in Texts : t # text => Points(conn'[d].queue, t) = Points(conn[d].queue, t)
          /\ Points(conn'[d].queue, text) =
               IF Len(conn[d].queue) < MaxQueued THEN {Len(conn[d].queue) + 1} ELSE {}
      <4> DEFINE x == conn[d]
                 h == how(d)
                 y == QueueMessage(x, leds + 1, h)
      <4>1. conn'[d] = y
        BY <3>1
      <4>2. Sound(x) /\ Tidy(x, leds) /\ h \in Outcomes
        BY <3>2
      <4> HIDE DEF x, h
      <4>3. /\ \A t \in Texts : t # leds + 1 => Points(y.queue, t) = Points(x.queue, t)
            /\ Points(y.queue, leds + 1) =
                 IF Len(x.queue) < MaxQueued THEN {Len(x.queue) + 1} ELSE {}
        BY <1>1, <4>2, ToggledPoints
      <4> HIDE DEF y
      <4> QED
        BY <4>1, <4>3 DEF x
    <3>4. d \in takes <=> Len(conn[d].queue) < MaxQueued
      BY <2>1
    <3> HIDE DEF takes
    <3> QED
      BY <3>3, <3>4
  <2>2. CASE ~ Connected(d)
    <3>1. conn'[d] = conn[d] /\ d \notin takes
      BY <1>3, <2>2
    <3>2. Points(conn[d].queue, text) = {}
      BY <1>1, <1>2, <1>4, ToggledPoints
    <3> QED
      BY <3>1, <3>2
  <2> QED
    BY <2>1, <2>2
<1>6. \A t \in Texts : t # text => PointersTo(conn', t) = PointersTo(conn, t)
  <2> TAKE t \in Texts
  <2> HAVE t # text
  <2>1. \A r \in Conns \X (1 .. MaxQueued) :
          Points(conn'[r[1]].queue, t) = Points(conn[r[1]].queue, t)
    BY <1>5
  <2> QED
    BY <2>1, PointersAre
<1>7. /\ IsFiniteSet(PointersTo(conn', text))
      /\ Cardinality(PointersTo(conn', text)) = Cardinality(takes)
  <2>1. IsFiniteSet(takes)
    <3>1. IsFiniteSet(Live)
      BY LiveFinite DEF BufferInv, TextsInv, LedInv, Listed
    <3>2. takes \in SUBSET Live
      BY DEF Connected
    <3> HIDE DEF takes
    <3> QED
      BY <3>1, <3>2, FS_Subset
  <2>2. \A d \in takes : d \in Conns /\ Len(conn[d].queue) + 1 \in 1 .. MaxQueued
    BY <1>1, <1>4
  <2> HIDE DEF takes
  <2>3. \A r \in Conns \X (1 .. MaxQueued) :
          r[2] \in Points(conn'[r[1]].queue, text)
            <=> r[1] \in takes /\ r[2] = Len(conn[r[1]].queue) + 1
    BY <1>5
  <2>4. last \in [takes -> PointersTo(conn', text)]
    <3> SUFFICES ASSUME NEW d \in takes
                 PROVE  <<d, Len(conn[d].queue) + 1>> \in PointersTo(conn', text)
      OBVIOUS
    <3> DEFINE k == Len(conn[d].queue) + 1
    <3>1. <<d, k>> \in Conns \X (1 .. MaxQueued)
      BY <2>2
    <3>2. k \in Points(conn'[d].queue, text)
      BY <1>5, <2>2
    <3> HIDE DEF k
    <3>3. <<d, k>> \in PointersTo(conn', text)
      BY <3>1, <3>2, PointersAre
    <3> QED
      BY <3>3 DEF k
  <2>5. \A d, e \in takes : last[d] = last[e] => d = e
    OBVIOUS
  <2>6. \A r \in PointersTo(conn', text) : \E d \in takes : last[d] = r
    <3> TAKE r \in PointersTo(conn', text)
    <3>1. r \in Conns \X (1 .. MaxQueued) /\ r[2] \in Points(conn'[r[1]].queue, text)
      BY PointersAre
    <3>2. r[1] \in takes /\ r[2] = Len(conn[r[1]].queue) + 1 /\ r = <<r[1], r[2]>>
      BY <2>3, <3>1
    <3> QED
      BY <3>2
  <2> HIDE DEF last
  <2>7. last \in Bijection(takes, PointersTo(conn', text))
    BY <2>4, <2>5, <2>6, Fun_IsBij
  <2>8. ExistsBijection(takes, PointersTo(conn', text))
    BY <2>7 DEF ExistsBijection
  <2> QED
    BY <2>1, <2>8, FS_Bijection
<1>8. CountsHold(conn, buffers)
  BY DEF BufferInv
<1>9. /\ DOMAIN held = DOMAIN buffers \cup {text} /\ held[text] = Cardinality(takes)
      /\ \A t \in DOMAIN buffers : t # text => held[t] = buffers[t]
  BY DEF held
<1>10. CountsHold(conn', held)
  <2> SUFFICES ASSUME NEW t \in Texts
               PROVE  /\ IsFiniteSet(PointersTo(conn', t))
                      /\ t \in DOMAIN held => held[t] = Cardinality(PointersTo(conn', t))
                      /\ t \notin DOMAIN held => PointersTo(conn', t) = {}
    BY DEF CountsHold
  <2> HIDE DEF text, takes
  <2>1. CASE t = text
    BY <1>7, <1>9, <2>1
  <2>2. CASE t # text
    BY <1>6, <1>8, <1>9, <2>2 DEF CountsHold
  <2> QED
    BY <2>1, <2>2
<1>11. CountsHold(conn', Clean(held))
  BY <1>10, CleanCounts
<1> QED
  BY <1>3, <1>11 DEF BufferInv

LEMMA BufferStep ==
  ASSUME BufferInv, [Next]_vars
  PROVE  BufferInv'
<1>0. TextsInv'
  BY TextsStep DEF BufferInv
<1>1. ASSUME NEW c \in Conns, Connect(c) PROVE BufferInv'
  BY <1>0, <1>1 DEF BufferInv, Connect
<1>2. ASSUME NEW c \in Conns, Disconnect(c) PROVE BufferInv'
  BY <1>0, <1>2, DropCounts DEF Disconnect
<1>3. ASSUME NEW c \in Conns, NEW failing \in Conns, NEW w \in Outcome,
             Toggle(c, failing, w)
      PROVE  BufferInv'
  BY <1>0, <1>3, ToggleCounts
<1>4. ASSUME NEW c \in Conns, NEW w \in Outcome, Ping(c, w) PROVE BufferInv'
  BY <1>0, <1>4, PingCounts
<1>5. ASSUME NEW c \in Conns, NEW w \in Outcome, PeerCloses(c, w) PROVE BufferInv'
  BY <1>0, <1>5, PeerClosesCounts
<1>6. ASSUME NEW c \in Conns, NEW w \in Outcome, Acks(c, w) PROVE BufferInv'
  BY <1>0, <1>6, OnAckCounts DEF Acks
<1>7. ASSUME NEW c \in Conns, NEW w \in Outcome, Poll(c, w) PROVE BufferInv'
  BY <1>0, <1>7, PollCounts
<1>8. ASSUME NEW w \in Outcome, Cleanup(w) PROVE BufferInv'
  BY <1>0, <1>8, CleanupCounts
<1>9. CASE UNCHANGED vars
  BY <1>0, <1>9 DEF vars, BufferInv
<1> QED
  BY <1>1, <1>2, <1>3, <1>4, <1>5, <1>6, <1>7, <1>8, <1>9 DEF Next

LEMMA BufferInit ==
  ASSUME Init
  PROVE  BufferInv
<1>1. TextsInv
  BY TextsInit
<1>2. \A c \in Conns : conn[c].queue = <<>>
  BY DEF Init, Fresh
<1>3. \A t : PointersTo(conn, t) = {}
  BY <1>2 DEF PointersTo
<1>4. DOMAIN buffers = {}
  BY DEF Init
<1> QED
  BY <1>1, <1>3, <1>4, FS_EmptySet DEF BufferInv, CountsHold

\* A text stays in memory exactly as long as some queue points at it: its count is the
\* number of those messages after every toggle, acknowledgement, drop and disconnection,
\* so that no message outlives its buffer (AsyncWebSocket.cpp:375, 1218).
THEOREM BuffersAreCounted == Spec => []BuffersCounted
<1>1. Init => BufferInv
  BY BufferInit
<1>2. BufferInv /\ [Next]_vars => BufferInv'
  BY BufferStep
<1>3. BufferInv => BuffersCounted
  <2> SUFFICES ASSUME BufferInv PROVE BuffersCounted
    OBVIOUS
  <2>1. \A t : References(t) = PointersTo(conn, t)
    BY DEF References, PointersTo
  <2>2. DOMAIN buffers \subseteq Texts /\ CountsHold(conn, buffers)
    BY DEF BufferInv, TextsInv, LedInv, Shared
  <2> QED
    BY <2>1, <2>2 DEF CountsHold, BuffersCounted
<1> QED
  BY <1>1, <1>2, <1>3, PTL DEF Spec

=============================================================================
