SPECIFICATION Spec
CONSTANTS
  Publishers = {p1}
  Readers = {r1, r2}
  Digest = {d1, d2, d3}
  Id = {i1, i2}
  Source = {s1, s2, s3}
  MaxOps = 4
  MaxAborts = 1
  MaxRemovals = 0
  MaxRebuilds = 0
  IdOf <- MCIdOf
  SrcInit <- MCSrcInit
  Absent = Absent
  Empty = Empty
  Garbled = Garbled
  d1 = d1
  d2 = d2
  d3 = d3
  i1 = i1
  i2 = i2
  s1 = s1
  s2 = s2
  s3 = s3
  p1 = p1
  p2 = p2
  r1 = r1
  r2 = r2
\* Every process may be idle with no operation left to start.
CHECK_DEADLOCK FALSE
INVARIANT CommittedStaysListed
INVARIANT CommittedDeterministic
INVARIANT CommittedIsComplete
INVARIANT PullDelivers
PROPERTY RefinesAtomicRegistry
