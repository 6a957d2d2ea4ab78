SPECIFICATION FairSpec
CONSTANTS
  DefaultTimeout = 2
  Timeouts <- MCTimeouts
\* A call happens once.
CHECK_DEADLOCK FALSE
INVARIANT TypeOK
INVARIANT OutcomeIsTrue
INVARIANT NothingIsMissed
INVARIANT GuardCoversCommand
PROPERTY OnlyOutputDelays
