\* The same clock: what the handler prints of it.
CONSTANTS
  Asked <- MCAsked
  Found <- MCFound
  Malformed = Malformed
  Nothing = Nothing
  MaxTicks = 2
SPECIFICATION Spec
INVARIANTS
  StartsNow
