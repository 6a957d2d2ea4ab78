SPECIFICATION Spec
CONSTANTS
  MaxInt = 15
  NanosPerMilli = 3
  DefaultTimeout = 4
  DefaultLimit = 3
  Settings = {0, 1, 2}
  Sizes <- MCSizes
\* A call happens once.
CHECK_DEADLOCK FALSE
INVARIANT TimeoutsAreClassified
