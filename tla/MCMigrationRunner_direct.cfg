\* Serial calls over a durable sink and a JSONL audit log.
SPECIFICATION Spec
CONSTANTS
  r1 = r1  r2 = r2  r3 = r3
  Invocations <- ThreeCalls
  NumRecords = 2
  Modes <- RunModes
  ErrorPolicies <- Continue
  Abortable <- NoCalls
  PipelineFailures <- ThrowsOnly
  HopCount = 1
  AuditKind = "jsonl"
  SinkKind = "direct"
  MaxConcurrent = 1
  MaxFaults = 1
  MaxCrashes = 1
SYMMETRY CallSymmetry
INVARIANTS
  TypeOK
  AuditedImpliesStored
  CompletedJobIsComplete
PROPERTIES
  ResumeNeverRepeatsAudited
  ImplementsAtLeastOnce
CHECK_DEADLOCK FALSE
