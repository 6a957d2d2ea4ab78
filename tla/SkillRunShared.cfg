SPECIFICATION Spec
CONSTANTS
  run1 = run1
  run2 = run2
  audit = audit
  home = home
  other = other
  here = here
  source = source
  notes = notes
  fixed = fixed
  lint = lint
  Runs = {run1, run2}
  Gates = {run2}
  Audits = {}
  Subject <- SubjectRun1
  Places = {home}
  Home <- OneHome
  Cwd <- AtHome
  Here = here
  Names = {source, notes}
  Contents = {fixed, Empty}
  Empty = Empty
  Manifests <- MCTwo
  Commands = {lint}
  ExitCode <- MCExitCode
  Outputs <- MCOutputs
  FilesInit <- MCFiles
  DeclaredInit <- DeclaresShell
  MaxCalls = 1
  MaxEdits = 0
  MaxWrites = 1
  MaxFaults = 1
  MaxCrashes = 0
  MayFork = {}
  Absent = Absent
  Truncated = Truncated
\* Every process ends.
CHECK_DEADLOCK FALSE
INVARIANT PassedIsOnRecord
INVARIANT ToolCallsOnRecord
INVARIANT PassedStillHolds
PROPERTY EffectsInScope
