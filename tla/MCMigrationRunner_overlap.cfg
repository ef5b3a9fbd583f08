\* Two calls in flight at once, a third to resume either.
SPECIFICATION Spec
CONSTANTS
  r1 = r1  r2 = r2  r3 = r3
  Invocations <- ThreeCalls
  NumRecords = 2
  Modes <- Execute
  ErrorPolicies <- Continue
  Abortable <- NoCalls
  PipelineFailures <- ThrowsOnly
  HopCount = 1
  AuditKind = "jsonl"
  SinkKind = "direct"
  MaxConcurrent = 2
  MaxFaults = 1
  MaxCrashes = 1
SYMMETRY CallSymmetry
INVARIANTS
  OneOutcomePerRecord
  RecordAccounting
  EveryOutcomeAudited
CHECK_DEADLOCK FALSE
