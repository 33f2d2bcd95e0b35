\* Two connections of which one is too many, no failed write: texts that wait leave.
CONSTANTS
  Conns = {c1, c2}
  MaxClients = 1
  MaxQueued = 2
  MaxToggles = 2
  MaxPings = 1
  MaxFaults = 0
  MaxControls = 2
  Window = 2
SPECIFICATION FairSpec
PROPERTIES
  Drains
\* Every connection may be used up and gone.
CHECK_DEADLOCK FALSE
