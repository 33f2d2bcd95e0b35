\* One user and a single schedule: what the handlers and the boot must get done.
CONSTANTS
  u1 = u1
  u2 = u2
  b1 = b1
  b2 = b1
  Users = {u1}
  Enrolled = {u1}
  Factory = u1
  NoUser = NoUser
  Bodies = {b1}
  MaxCycles = 2
  Ids <- MCIds
  NoId = NoId
  TextId = TextId
  NoBody = NoBody
  Malformed = Malformed
  Provisioned <- MCProvisioned
  Torn = Torn
  Absent = Absent
  Nothing = Nothing
  MaxCounter = 3
  MaxFaults = 2
SPECIFICATION FairSpec
PROPERTIES
  EveryRequestEnds
  KeepsServing
