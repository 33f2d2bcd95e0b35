\* Three connections on three addresses, one of them with packets, and a queue shorter
\* than what comes.
CONSTANTS
  Objects = {a1, a2, a3}
  Conns = {c1, c2, c3}
  Talkers = {c1}
  MaxEvents = 3
  MaxData = 2
  Server = Server
  NoConn = NoConn
  NoEvent = NoEvent
SPECIFICATION FairSpec
INVARIANTS
  TypeOK
  DeliversAll
  StrayNeedsOverlap
  LeakNeedsOverlap
PROPERTIES
  ClientsEnd
\* All connections end, and the two threads can wait for each other.
CHECK_DEADLOCK FALSE
