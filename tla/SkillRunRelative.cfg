SPECIFICATION Spec
CONSTANTS
  run1 = run1
  run2 = run2
  audit = audit
  home = home
  other = other
  here = here
  source = source
  notes = notes
  fixed = fixed
  lint = lint
  Runs = {run1}
  Gates = {}
  Audits = {}
  Subject <- SubjectRun1
  Places = {home, other}
  Home <- OneHome
  Cwd <- Elsewhere
  Here = here
  Names = {source, notes}
  Contents = {fixed, Empty}
  Empty = Empty
  Manifests <- MCAll
  Commands = {lint}
  ExitCode <- MCExitCode
  Outputs <- MCOutputs
  FilesInit <- MCFiles
  DeclaredInit <- DeclaresRepair
  MaxCalls = 1
  MaxEdits = 0
  MaxWrites = 0
  MaxFaults = 0
  MaxCrashes = 0
  MayFork = {}
  Absent = Absent
  Truncated = Truncated
\* Every process ends.
CHECK_DEADLOCK FALSE
PROPERTY EffectsInScope
