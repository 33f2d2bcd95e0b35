\* Two tabs of one user with one schedule: what one does to the other.
CONSTANTS
  Owner = admin
  Users = {admin}
  Tabs = {t1, t2}
  Nobody = Nobody
  Bodies = {b1}
  MaxCycles = 2
  NoId = NoId
  NoBody = NoBody
  Waiting = Waiting
  Refused = Refused
  Provisioned <- MCProvisioned
  Torn = Torn
  Absent = Absent
  MaxCounter = 3
  MaxCalls = 2
  MaxFaults = 1
SPECIFICATION Spec
INVARIANTS
  ShownAgrees
  ShownIsSane
  LimitHolds
SYMMETRY TabSymmetry
