SPECIFICATION FairSpec
CONSTANTS
  MaxInt = 15
  NanosPerMilli = 3
  DefaultTimeout = 4
  DefaultLimit = 3
  Settings = {0, 1, 2}
  Sizes <- MCSizes
\* A call happens once.
CHECK_DEADLOCK FALSE
INVARIANT TypeOK
INVARIANT LimitIsExact
INVARIANT InTimeIsUsed
INVARIANT TimeoutIsNotEarly
PROPERTY AnalyzeEnds
