\* The two adapters the package defaults to and ships: the in-memory audit log
\* and the buffered JSON file.  Serial calls, signals and both error policies.
SPECIFICATION Spec
CONSTANTS
  r1 = r1  r2 = r2  r3 = r3
  Invocations <- TwoCalls
  NumRecords = 3
  Modes <- EveryMode
  ErrorPolicies <- BothPolicies
  Abortable <- TwoCalls
  PipelineFailures <- TwoClasses
  HopCount = 1
  AuditKind = "memory"
  SinkKind = "buffered"
  MaxConcurrent = 1
  MaxFaults = 1
  MaxCrashes = 1
SYMMETRY CallSymmetry
INVARIANTS
  RecordAccounting
  FirstFailureReported
  FlushOnlyAfterWholeWalk
  WrittenStaysWritten
PROPERTIES
  SuccessMeansWritten
CHECK_DEADLOCK FALSE
