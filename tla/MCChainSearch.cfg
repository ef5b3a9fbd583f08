\* Every graph over four versions, cycles and a self-loop included.
SPECIFICATION MCSpec
CONSTANTS
  v1 = v1  v2 = v2  v3 = v3  v4 = v4
  Versions <- FourVersions
  Start = v1
  End = v4
INVARIANT
  FindsEveryChainOnce
PROPERTY
  SearchEnds
CHECK_DEADLOCK FALSE
