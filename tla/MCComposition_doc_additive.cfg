CONSTANTS
  Keys <- MCKeys
  Bases <- MCBases
  Refinements <- MCRefinements
  Defaults <- MCDefaults
  FirstFields <- MCFirstFields
  Values <- MCValues
  MaxCalls = 3
SPECIFICATION Spec
CHECK_DEADLOCK FALSE
INVARIANT DocAdditiveIsSuperset
