\* Two connections of which one is too many, and nothing else goes on.
CONSTANTS
  Conns = {c1, c2}
  MaxClients = 1
  MaxQueued = 2
  MaxToggles = 0
  MaxPings = 0
  MaxFaults = 0
  MaxControls = 2
  Window = 2
SPECIFICATION FairSpec
PROPERTIES
  CleanupLimits
\* Every connection may be used up and gone.
CHECK_DEADLOCK FALSE
