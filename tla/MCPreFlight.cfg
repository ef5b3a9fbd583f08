\* Three versions of one schema, every set of migrations between them.
SPECIFICATION Spec
CONSTANTS
  v1 = v1  v2 = v2  v3 = v3
  i1 = i1  i2 = i2  i3 = i3
  s1 = s1  s2 = s2
  Absent = Absent
  Versions <- ThreeVersions
  Irs <- ThreeIrs
  Sources <- TwoSources
  Diff <- SampleDiff
  From = v1
  To = v3
  MaxEdits = 1
  MaxMigrations = 3
SYMMETRY TextSymmetry
INVARIANTS
  AcceptedChainComposes
  BreakingNeedsTheOnlyChain
PROPERTY
  UnrelatedHasNoSay
CHECK_DEADLOCK FALSE
