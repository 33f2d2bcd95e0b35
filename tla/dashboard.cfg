\* One tab, whose calls overlap in every way the page allows.
CONSTANTS
  Owner = admin
  Users = {admin}
  Tabs = {t1}
  Nobody = Nobody
  Bodies = {b1, b2}
  MaxCycles = 2
  NoId = NoId
  NoBody = NoBody
  Waiting = Waiting
  Refused = Refused
  Provisioned <- MCProvisioned
  Torn = Torn
  Absent = Absent
  MaxCounter = 3
  MaxCalls = 3
  MaxFaults = 1
SPECIFICATION Spec
INVARIANTS
  TypeOK
  ShownAgrees
  ShownIsSane
SYMMETRY BodySymmetry
