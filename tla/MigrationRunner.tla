--------------------------- MODULE MigrationRunner ---------------------------
(***************************************************************************)
(* createMigrationRunner(options).run(opts), packages/migrate-runner.      *)
(*                                                                         *)
(* One process holds one runner; its run() calls (`Invocations`) share the *)
(* audit log and the output adapter and interleave at every await.  An     *)
(* action is the code between two awaits together with the effect of the   *)
(* call that was awaited.  The process may crash at any point: the calls   *)
(* in flight, the output buffer and an in-memory audit log are lost, the   *)
(* JSONL log and the output file stay, and a later call may resume the     *)
(* runId of one that returned or crashed.                                  *)
(***************************************************************************)
EXTENDS AuditLog, FiniteSets

CONSTANTS Modes,             \* the RunOpts.mode values callers use
          ErrorPolicies,     \* the RunOpts.onError values callers use
          Abortable,         \* the invocations that are given an AbortSignal
          PipelineFailures,  \* the ways a record may fail in the pipeline
          HopCount,          \* the hops of the planned chain
          AuditKind,         \* "memory" or "jsonl"
          SinkKind,          \* "direct": each persist is durable, no flush;
                             \* "buffered": the JSON file adapter
          MaxConcurrent,     \* bound: calls in flight at once
          MaxFaults,         \* bound: adapter calls that throw
          MaxCrashes         \* bound: process crashes

AllModes == {"validate-only", "dry-run", "execute"}

ASSUME RunnerConstants ==
  /\ NumRecords \in Nat
  /\ Modes \subseteq AllModes
  /\ ErrorPolicies \subseteq {"continue", "stop"}
  /\ Abortable \subseteq Invocations
  /\ PipelineFailures \subseteq PipelineClasses
  /\ HopCount \in Nat
  /\ AuditKind \in {"memory", "jsonl"}
  /\ SinkKind \in {"direct", "buffered"}
  /\ MaxConcurrent \in Nat /\ MaxFaults \in Nat /\ MaxCrashes \in Nat

VARIABLES
  pc,            \* where each call stands: the await it is suspended at
  opts,          \* its RunOpts, with the runId it works under
  recordCount, successCount, failureCount,
  skipSet,       \* indexes read from the audit cursor
  firstFailure,  \* classification of the first record that failed
  outcome,       \* what is to be audited for the record in flight
  aborted,       \* the state of the AbortSignal
  result,        \* the RunResult
  snapshot,      \* the text a flush has serialised and is writing
  log,           \* the audit log
  buffer,        \* the records held in memory by the output adapter
  file,          \* the records on durable storage
  faults, crashes

settings == <<opts, aborted>>
walk     == <<recordCount, skipSet, outcome>>
tally    == <<successCount, failureCount, firstFailure>>
output   == <<buffer, file, snapshot>>
budget   == <<faults, crashes>>
vars == <<pc, settings, walk, tally, result, output, log, budget>>

NoResult == [status |-> "none", counted |-> FALSE, message |-> "none"]

Places   == {"idle", "cursor", "pull", "persist", "append", "flush", "write",
             "done", "crashed"}
RunOpts  == [mode: AllModes, onError: {"continue", "stop"}, runId: Invocations,
             resumed: BOOLEAN]
Item     == [by: Invocations, recordIndex: Records]
Outcomes == {"success"} \cup RecordClasses
(* `counted`: the RunResult carries the three counts; `message` tells the  *)
(* "N of M records failed" text from the text of one failure.              *)
RunResults == [status: {"none", "success"} \cup RecordClasses \cup RunClasses,
               counted: BOOLEAN, message: {"none", "nOfM", "single"}]

Ended    == {q \in Invocations : pc[q] \in {"done", "crashed"}}
InFlight == {q \in Invocations : pc[q] \notin {"idle", "done", "crashed"}}

Init ==
  /\ pc = [r \in Invocations |-> "idle"]
  /\ opts = [r \in Invocations |-> [mode |-> "validate-only", onError |-> "continue",
                                    runId |-> r, resumed |-> FALSE]]
  /\ recordCount  = [r \in Invocations |-> 0]
  /\ successCount = [r \in Invocations |-> 0]
  /\ failureCount = [r \in Invocations |-> 0]
  /\ skipSet      = [r \in Invocations |-> {}]
  /\ firstFailure = [r \in Invocations |-> "none"]
  /\ outcome      = [r \in Invocations |-> "success"]
  /\ aborted      = [r \in Invocations |-> FALSE]
  /\ result       = [r \in Invocations |-> NoResult]
  /\ snapshot     = [r \in Invocations |-> <<>>]
  /\ log = <<>> /\ buffer = <<>> /\ file = <<>>
  /\ faults = 0 /\ crashes = 0

-----------------------------------------------------------------------------
Goto(r, place) == pc' = [pc EXCEPT ![r] = place] /\ UNCHANGED result

Return(r, status, counted, message) ==
  /\ pc' = [pc EXCEPT ![r] = "done"]
  /\ result' = [result EXCEPT ![r] = [status |-> status, counted |-> counted,
                                      message |-> message]]

(* aggregateFailureResult: the first failure names the run *)
AggregateFailure(r, first, failed) ==
  Return(r, first, TRUE, IF failed > 1 THEN "nOfM" ELSE "single")

Conclude(r) ==
  IF failureCount[r] > 0
  THEN AggregateFailure(r, firstFailure[r], failureCount[r])
  ELSE Return(r, "success", TRUE, "none")

Fault == faults < MaxFaults /\ faults' = faults + 1 /\ UNCHANGED crashes

-----------------------------------------------------------------------------
(* The call.  A fresh run takes a new UUID, a resumed one the runId of a   *)
(* call the caller has seen end.                                           *)
StartOpts(r) ==
  [mode: Modes, onError: ErrorPolicies, runId: {r}, resumed: {FALSE}] \cup
  [mode: Modes, onError: ErrorPolicies, runId: {opts[q].runId : q \in Ended},
   resumed: {TRUE}]

Call(r, o) ==
  /\ pc[r] = "idle"
  /\ Cardinality(InFlight) < MaxConcurrent
  /\ opts' = [opts EXCEPT ![r] = o]
  /\ UNCHANGED <<aborted, tally, recordCount, outcome, output, log, budget>>

PreFlightRefused(r) == \E o \in StartOpts(r) :
  /\ Call(r, o)
  /\ Return(r, "pre_flight_failed", FALSE, "single")
  /\ UNCHANGED skipSet

(* empty chain, or validate-only: the stream is not read *)
NothingToWalk(r) == \E o \in StartOpts(r) :
  /\ HopCount = 0 \/ o.mode = "validate-only"
  /\ Call(r, o)
  /\ Return(r, "success", TRUE, "none")
  /\ UNCHANGED skipSet

(* the check of the signal before the stream is opened *)
OpenStream(r) ==
  IF aborted[r] THEN Return(r, "cancelled", TRUE, "single") ELSE Goto(r, "pull")

Begin(r) == \E o \in StartOpts(r) :
  /\ HopCount > 0 /\ o.mode # "validate-only"
  /\ Call(r, o)
  /\ IF o.resumed THEN Goto(r, "cursor") ELSE OpenStream(r)
  /\ UNCHANGED skipSet

ReadCursor(r) ==
  /\ pc[r] = "cursor"
  /\ ~Malformed(log)
  /\ skipSet' = [skipSet EXCEPT ![r] = Cursor(log, opts[r].runId)]
  /\ OpenStream(r)
  /\ UNCHANGED <<settings, recordCount, outcome, tally, output, log, budget>>

CursorThrows(r) ==
  /\ pc[r] = "cursor"
  /\ \/ Malformed(log) /\ UNCHANGED budget
     \/ AuditKind = "jsonl" /\ Fault
  /\ Return(r, "adapter_init_failed", FALSE, "single")
  /\ UNCHANGED <<settings, walk, tally, output, log>>

-----------------------------------------------------------------------------
(* The record walk.  Definitions named M... are faults: variants of the     *)
(* definition that follows them, which no action uses.                     *)
MAtRecordPastEnd(r) == pc[r] = "pull" /\ recordCount[r] <= NumRecords
AtRecord(r) == pc[r] = "pull" /\ recordCount[r] < NumRecords

Cancelled(r)    == aborted[r]

MSkipsNothing(r) == FALSE
IsSkipped(r)    == recordCount[r] \in skipSet[r]

MCancelBreaks(r) ==
  /\ AtRecord(r) /\ Cancelled(r)
  /\ Goto(r, IF opts[r].mode = "execute" /\ SinkKind = "buffered" THEN "flush" ELSE "done")
  /\ UNCHANGED <<settings, walk, tally, output, log, budget>>
CancelBetween(r) ==
  /\ AtRecord(r) /\ Cancelled(r)
  /\ Return(r, "cancelled", TRUE, "single")
  /\ UNCHANGED <<settings, walk, tally, output, log, budget>>

SkipRecord(r) ==
  /\ AtRecord(r) /\ ~Cancelled(r) /\ IsSkipped(r)
  /\ recordCount' = [recordCount EXCEPT ![r] = @ + 1]
  /\ UNCHANGED <<pc, result, settings, skipSet, outcome, tally, output, log, budget>>

(* runRecordPipeline is synchronous: one step decides the record *)
ProcessRecord(r) ==
  /\ AtRecord(r) /\ ~Cancelled(r) /\ ~IsSkipped(r)
  /\ recordCount' = [recordCount EXCEPT ![r] = @ + 1]
  /\ \E o \in {"success"} \cup PipelineFailures :
       /\ outcome' = [outcome EXCEPT ![r] = o]
       /\ Goto(r, IF o = "success" /\ opts[r].mode = "execute" THEN "persist"
                                                              ELSE "append")
  /\ UNCHANGED <<settings, skipSet, tally, output, log, budget>>

StreamThrows(r) ==
  /\ pc[r] = "pull"
  /\ Fault
  /\ Return(r, "adapter_init_failed", TRUE, "single")
  /\ UNCHANGED <<settings, walk, tally, output, log>>

MNeverFlushes(r) == FALSE
MustFlush(r) == opts[r].mode = "execute" /\ SinkKind = "buffered"

(* natural end of the stream: the signal is not looked at again *)
EndOfStream(r) ==
  /\ pc[r] = "pull" /\ recordCount[r] = NumRecords
  /\ IF MustFlush(r) THEN Goto(r, "flush") ELSE Conclude(r)
  /\ UNCHANGED <<settings, walk, tally, output, log, budget>>

-----------------------------------------------------------------------------
(* outputAdapter.persist *)
ItemOf(r) == [by |-> r, recordIndex |-> recordCount[r] - 1]

Store(r) ==
  /\ IF SinkKind = "direct"
     THEN file' = Append(file, ItemOf(r)) /\ UNCHANGED buffer
     ELSE buffer' = Append(buffer, ItemOf(r)) /\ UNCHANGED file
  /\ UNCHANGED snapshot

Persist(r) ==
  /\ pc[r] = "persist"
  /\ Store(r)
  /\ Goto(r, "append")
  /\ UNCHANGED <<settings, walk, tally, log, budget>>

(* A persist that throws may have stored the record all the same.  The     *)
(* buffered adapter pushes onto an array and cannot throw.                 *)
MPersistThrowIgnored(r) ==
  /\ pc[r] = "persist" /\ SinkKind = "direct"
  /\ Fault
  /\ Goto(r, "append")
  /\ UNCHANGED <<settings, walk, tally, output, log>>
PersistThrows(r) ==
  /\ pc[r] = "persist" /\ SinkKind = "direct"
  /\ Fault
  /\ Store(r) \/ UNCHANGED output
  /\ outcome' = [outcome EXCEPT ![r] = "persist_failed"]
  /\ Goto(r, "append")
  /\ UNCHANGED <<settings, recordCount, skipSet, tally, log>>

(* auditAdapter.append, and the rest of the loop body after it *)
MEntryOfLate(r) ==
  AuditEntry(opts[r].runId, r, recordCount[r], outcome[r])
EntryOf(r) == AuditEntry(opts[r].runId, r, recordCount[r] - 1, outcome[r])

MCountSuccessLost(r) ==
  /\ Goto(r, "pull")
  /\ UNCHANGED tally
CountSuccess(r) ==
  /\ successCount' = [successCount EXCEPT ![r] = @ + 1]
  /\ Goto(r, "pull")
  /\ UNCHANGED <<failureCount, firstFailure>>

MLastFailure(r) == outcome[r]
FirstFailure(r) == IF firstFailure[r] = "none" THEN outcome[r] ELSE firstFailure[r]

StopsHere(r)   == opts[r].onError = "stop"

CountFailure(r) ==
  /\ failureCount' = [failureCount EXCEPT ![r] = @ + 1]
  /\ firstFailure' = [firstFailure EXCEPT ![r] = FirstFailure(r)]
  /\ IF StopsHere(r)
     THEN AggregateFailure(r, FirstFailure(r), failureCount[r] + 1)
     ELSE Goto(r, "pull")
  /\ UNCHANGED successCount

AppendAudit(r) ==
  /\ pc[r] = "append"
  /\ log' = AppendLine(log, EntryOf(r))
  /\ IF outcome[r] = "success" THEN CountSuccess(r) ELSE CountFailure(r)
  /\ UNCHANGED <<settings, walk, output, budget>>

(* The throw reaches the catch around the stream loop.  It may come when   *)
(* some or all of the line is on the disk.                                 *)
AppendThrows(r) ==
  /\ pc[r] = "append" /\ AuditKind = "jsonl"
  /\ Fault
  /\ log' \in {AppendLine(log, EntryOf(r))} \cup AppendPart(log, EntryOf(r))
  /\ Return(r, "adapter_init_failed", TRUE, "single")
  /\ UNCHANGED <<settings, walk, tally, output>>

-----------------------------------------------------------------------------
(* outputAdapter.flush of the buffered adapter: the text is taken after    *)
(* mkdir, the file is replaced by writeFile, which truncates it first.     *)
MFlushTextOwn(r) == SelectSeq(buffer, LAMBDA item : item.by = r)
FlushText(r) == buffer

FlushSnapshot(r) ==
  /\ pc[r] = "flush"
  /\ snapshot' = [snapshot EXCEPT ![r] = FlushText(r)]
  /\ Goto(r, "write")
  /\ UNCHANGED <<settings, walk, tally, buffer, file, log, budget>>

FlushWrite(r) ==
  /\ pc[r] = "write"
  /\ file' = snapshot[r]
  /\ Conclude(r)
  /\ UNCHANGED <<settings, walk, tally, buffer, snapshot, log, budget>>

FlushThrows(r) ==
  /\ pc[r] \in {"flush", "write"}
  /\ Fault
  /\ file' \in {file} \cup (IF pc[r] = "write" THEN {<<>>} ELSE {})
  /\ Return(r, "persist_failed", TRUE, "single")
  /\ UNCHANGED <<settings, walk, tally, buffer, snapshot, log>>

-----------------------------------------------------------------------------
(* The environment *)
Abort(r) ==
  /\ r \in Abortable /\ ~aborted[r] /\ r \notin Ended
  /\ aborted' = [aborted EXCEPT ![r] = TRUE]
  /\ UNCHANGED <<pc, opts, walk, tally, result, output, log, budget>>

(* An effect that had already reached the disk is a crash one step later;  *)
(* what a crash adds is the half-written audit line or output file.        *)
Crash ==
  /\ InFlight # {} /\ crashes < MaxCrashes
  /\ crashes' = crashes + 1
  /\ pc' = [r \in Invocations |-> IF r \in InFlight THEN "crashed" ELSE pc[r]]
  /\ buffer' = <<>>
  /\ file' \in {file} \cup (IF \E r \in Invocations : pc[r] = "write" THEN {<<>>} ELSE {})
  /\ IF AuditKind = "memory"
     THEN log' = <<>>
     ELSE log' \in {log} \cup UNION {AppendPart(log, EntryOf(r)) :
                                       r \in {q \in Invocations : pc[q] = "append"}}
  /\ UNCHANGED <<settings, walk, tally, result, snapshot, faults>>

Advance(r) ==
  \/ ReadCursor(r) \/ CursorThrows(r)
  \/ CancelBetween(r) \/ SkipRecord(r) \/ ProcessRecord(r) \/ EndOfStream(r)
  \/ Persist(r) \/ AppendAudit(r)
  \/ FlushSnapshot(r) \/ FlushWrite(r)

Next ==
  \/ \E r \in Invocations :
       \/ PreFlightRefused(r) \/ NothingToWalk(r) \/ Begin(r)
       \/ Advance(r)
       \/ StreamThrows(r) \/ PersistThrows(r) \/ AppendThrows(r) \/ FlushThrows(r)
       \/ Abort(r)
  \/ Crash

Spec == Init /\ [][Next]_vars
=============================================================================
