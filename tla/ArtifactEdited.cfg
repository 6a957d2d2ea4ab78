SPECIFICATION Spec
CONSTANTS
  Manifest = manifest
  Files = {f1, f2, cache}
  Ignored = {cache}
  Links = {}
  LinkSize = 3
  Bytes = {v1, v2, a, b}
  Ident = {release1, release2}
  Invalid = Invalid
  SizeOf <- MCSizeOf
  IdentOf <- MCIdentOf
  DirInit <- MCDirInit
  MaxEdits = 2
  MaxBuilds = 2
  Absent = Absent
  Empty = Empty
  manifest = manifest
  f1 = f1
  f2 = f2
  cache = cache
  v1 = v1
  v2 = v2
  a = a
  b = b
  release1 = release1
  release2 = release2
\* Builds and edits are bounded and a run waits for a capsule.
CHECK_DEADLOCK FALSE
INVARIANT TypeOK
INVARIANT AcceptedIsSnapshot
INVARIANT QuietBuildIsFaithful
INVARIANT WorkspaceIsSnapshot
