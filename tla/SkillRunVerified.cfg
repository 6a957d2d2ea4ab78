SPECIFICATION FairSpec
CONSTANTS
  run1 = run1
  run2 = run2
  audit = audit
  home = home
  other = other
  here = here
  source = source
  notes = notes
  fixed = fixed
  lint = lint
  Runs = {run1}
  Gates = {}
  Audits = {audit}
  Subject <- SubjectRun1
  Places = {home, other}
  Home <- OneHome
  Cwd <- AuditElsewhere
  Here = here
  Names = {source, notes}
  Contents = {fixed, Empty}
  Empty = Empty
  Manifests <- MCAll
  Commands = {lint}
  ExitCode <- MCExitCode
  Outputs <- MCAnswers
  FilesInit <- MCFiles
  DeclaredInit <- DeclaresRepair
  MaxCalls = 1
  MaxEdits = 1
  MaxWrites = 1
  MaxFaults = 1
  MaxCrashes = 1
  MayFork = {run1, audit}
  Absent = Absent
  Truncated = Truncated
\* Every process ends.
CHECK_DEADLOCK FALSE
INVARIANT VerifyNeverUpgrades
INVARIANT TypeOK
INVARIANT NamedTraceExists
INVARIANT ReverifyAgrees
PROPERTY WaitsForAdapterOrOutput
