\* Two connections of which one is too many; more toggles than a queue takes.
CONSTANTS
  Conns = {c1, c2}
  MaxClients = 1
  MaxQueued = 2
  MaxToggles = 3
  MaxPings = 1
  MaxFaults = 1
  MaxControls = 2
  Window = 2
SPECIFICATION Spec
SYMMETRY MCAny
INVARIANTS
  TypeOK
  BuffersCounted
  PeersCatchUp
  JamNeedsCause
\* Every connection may be used up and gone.
CHECK_DEADLOCK FALSE
