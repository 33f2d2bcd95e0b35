\* One page on an empty list, with room for the one cycle it creates.
CONSTANTS
  Owner = admin
  Users = {admin}
  Tabs = {t1}
  Nobody = Nobody
  Hours = {h1, h2}
  Minutes = {m1, m2}
  Days = {d1, d2}
  Bodies <- MCBodies
  MaxCycles = 2
  NoId = NoId
  NoBody = NoBody
  Waiting = Waiting
  Refused = Refused
  Provisioned <- MCProvisioned
  Torn = Torn
  Absent = Absent
  MaxCounter = 1
  MaxCalls = 2
  MaxFaults = 1
SPECIFICATION FormSpec
INVARIANTS
  FormTypeOK
  FormTellsTruth
PROPERTIES
  SavesOnlyEdits
  ImplementsDashboard
SYMMETRY PartSymmetry
