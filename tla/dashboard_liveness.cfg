\* One tab, one schedule, two calls at a time: every button comes back.
CONSTANTS
  Owner = admin
  Users = {admin}
  Tabs = {t1}
  Nobody = Nobody
  Bodies = {b1}
  MaxCycles = 2
  NoId = NoId
  NoBody = NoBody
  Waiting = Waiting
  Refused = Refused
  Provisioned <- MCProvisioned
  Torn = Torn
  Absent = Absent
  MaxCounter = 2
  MaxCalls = 2
  MaxFaults = 1
SPECIFICATION FairSpec
PROPERTIES
  CallsEnd
