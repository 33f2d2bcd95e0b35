\* Two users, one of them without a password file; room for two cycles.
CONSTANTS
  u1 = u1
  u2 = u2
  b1 = b1
  b2 = b2
  Users = {u1, u2}
  Enrolled = {u1}
  Factory = u1
  NoUser = NoUser
  Bodies = {b1, b2}
  MaxCycles = 2
  Ids <- MCIds
  NoId = NoId
  TextId = TextId
  NoBody = NoBody
  Malformed = Malformed
  Provisioned <- MCProvisioned
  Torn = Torn
  Absent = Absent
  Nothing = Nothing
  MaxCounter = 3
  MaxFaults = 1
SPECIFICATION Spec
INVARIANTS
  TypeOK
  ConfigSound
  LossesAreCounted
  RefusedNeverEdits
  AnswerTellsOutcome
PROPERTIES
  OnlyOwnFile
  NoIdReuse
  LostStaysLost
  ImplementsCycleStore
