\* One fault; reverting leaves at most one migration pending under a recorded one.
SPECIFICATION Spec
CONSTANTS
  MaxFaults = 1
  MaxGaps = 1
INVARIANTS
  TypeOK
  KeysInForce
  RecordsAreTrue
PROPERTIES
  UpGetsThrough
CHECK_DEADLOCK FALSE
