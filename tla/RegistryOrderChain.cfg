SPECIFICATION Spec
CONSTANTS
  Digest = {0, 1, 2, 3, 4, 5, 6, 7, 8, 9, 10}
  SkillOf <- MCSkillOf
  VersionOf <- MCVersionOf
  MaxUint = 15
  MaxEntries = 4
  Everything = Everything
INVARIANT TypeOK
INVARIANT SemverOrder
INVARIANT DiscoveryIsCanonical
