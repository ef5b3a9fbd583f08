\* Every way two schemas and three transforms may treat a record.
SPECIFICATION Spec
CONSTANTS
  HopCount = 3
  MaxElapsed = 2
  NoBudget = NoBudget
INVARIANT
  VerdictIsFirstFault
CHECK_DEADLOCK FALSE
