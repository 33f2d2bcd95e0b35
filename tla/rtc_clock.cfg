\* Dates at the edges, a chip that may come up protected, two seconds at a time.
CONSTANTS
  Asked <- MCAsked
  Found <- MCFound
  Malformed = Malformed
  Nothing = Nothing
  MaxTicks = 2
SPECIFICATION Spec
INVARIANTS
  TypeOK
  KeepsTime
  AnswerTellsTheClock
  ServesADate
  LookingStartsIt
