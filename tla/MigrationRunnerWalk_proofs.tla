---------------------- MODULE MigrationRunnerWalk_proofs ----------------------
(***************************************************************************)
(* The bookkeeping of a run() call: its counts, the audit lines it leaves  *)
(* and the failure it reports, with either adapter of each kind and any    *)
(* number of calls in flight; and what it has written when it returns,     *)
(* with the durable sink and with the buffered one, and what a later call  *)
(* leaves of it.                                                           *)
(***************************************************************************)
EXTENDS MigrationRunner_proofs, FiniteSetTheorems

-----------------------------------------------------------------------------
(* What each kind of step does to the call that takes it, and that it      *)
(* leaves the other calls alone.  The proofs below cite these lemmas in    *)
(* place of the actions.                                                   *)

SameCounts(q) ==
  /\ recordCount'[q] = recordCount[q] /\ skipSet'[q] = skipSet[q]
  /\ successCount'[q] = successCount[q] /\ failureCount'[q] = failureCount[q]
  /\ firstFailure'[q] = firstFailure[q]

SameCall(q) ==
  /\ SameCounts(q)
  /\ pc'[q] = pc[q] /\ opts'[q] = opts[q] /\ result'[q] = result[q]
  /\ outcome'[q] = outcome[q] /\ snapshot'[q] = snapshot[q]

OthersSame(r) == \A q \in Invocations \ {r} : SameCall(q)

Stays(r, place)    == pc'[r] = place /\ result'[r] = result[r]
Returns(r, status) == pc'[r] = "done" /\ result'[r].status = status

Concludes(r) ==
  \/ failureCount[r] = 0 /\ Returns(r, "success")
  \/ failureCount[r] > 0 /\ Returns(r, firstFailure[r])

LEMMA StaysOf ==
  ASSUME TypeInv, NEW r \in Invocations, NEW place, Goto(r, place)
  PROVE  /\ Stays(r, place) /\ result' = result
         /\ \A q \in Invocations \ {r} : pc'[q] = pc[q] /\ result'[q] = result[q]
BY DEF Goto, Stays, TypeInv, TypeOK

LEMMA ReturnsOf ==
  ASSUME TypeInv, NEW r \in Invocations, NEW status, NEW counted, NEW message,
         Return(r, status, counted, message)
  PROVE  /\ Returns(r, status)
         /\ \A q \in Invocations \ {r} : pc'[q] = pc[q] /\ result'[q] = result[q]
BY DEF Return, Returns, TypeInv, TypeOK

LEMMA ConcludesOf ==
  ASSUME TypeInv, NEW r \in Invocations, Conclude(r)
  PROVE  /\ Concludes(r)
         /\ \A q \in Invocations \ {r} : pc'[q] = pc[q] /\ result'[q] = result[q]
<1>1. failureCount[r] \in Nat
  BY DEF TypeInv, TypeOK
<1>2. CASE failureCount[r] > 0
  <2> DEFINE message == IF failureCount[r] > 1 THEN "nOfM" ELSE "single"
  <2>1. Return(r, firstFailure[r], TRUE, message)
    BY <1>2 DEF Conclude, AggregateFailure
  <2> HIDE DEF message
  <2>2. QED  BY <1>2, <2>1, ReturnsOf DEF Concludes
<1>3. CASE ~(failureCount[r] > 0)
  <2>1. Return(r, "success", TRUE, "none")
    BY <1>3 DEF Conclude
  <2>2. failureCount[r] = 0
    BY <1>1, <1>3
  <2>3. /\ Returns(r, "success")
        /\ \A q \in Invocations \ {r} : pc'[q] = pc[q] /\ result'[q] = result[q]
    BY <2>1, ReturnsOf
  <2>4. QED  BY <2>2, <2>3 DEF Concludes
<1>4. QED  BY <1>2, <1>3

LEMMA OpensOf ==
  ASSUME TypeInv, NEW r \in Invocations, OpenStream(r)
  PROVE  /\ Stays(r, "pull") \/ Returns(r, "cancelled")
         /\ \A q \in Invocations \ {r} : pc'[q] = pc[q] /\ result'[q] = result[q]
BY StaysOf, ReturnsOf DEF OpenStream

LEMMA CallStep ==
  ASSUME TypeInv, NEW r \in Invocations,
         PreFlightRefused(r) \/ NothingToWalk(r) \/ Begin(r)
  PROVE  /\ pc[r] = "idle"
         /\ \/ Stays(r, "cursor") \/ Stays(r, "pull")
            \/ Returns(r, "cancelled") \/ Returns(r, "pre_flight_failed")
            \/ /\ Returns(r, "success")
               /\ HopCount = 0 \/ opts'[r].mode = "validate-only"
         /\ opts'[r] \in StartOpts(r)
         /\ pc'[r] = "pull" => ~opts'[r].resumed
         /\ Cardinality(InFlight) < MaxConcurrent
         /\ UNCHANGED <<recordCount, skipSet, tally, outcome, output, log, budget>>
         /\ SameCounts(r) /\ OthersSame(r)
<1>1. PICK o \in StartOpts(r) :
        /\ Call(r, o)
        /\ \/ Return(r, "pre_flight_failed", FALSE, "single")
           \/ /\ HopCount = 0 \/ o.mode = "validate-only"
              /\ Return(r, "success", TRUE, "none")
           \/ IF o.resumed THEN Goto(r, "cursor") ELSE OpenStream(r)
        /\ skipSet' = skipSet
  BY DEF PreFlightRefused, NothingToWalk, Begin
<1>2. opts'[r] = o /\ \A q \in Invocations \ {r} : opts'[q] = opts[q]
  BY <1>1 DEF Call, TypeInv, TypeOK
<1>3. /\ \/ Stays(r, "cursor") /\ o.resumed
         \/ Stays(r, "pull") /\ ~o.resumed
         \/ Returns(r, "cancelled") \/ Returns(r, "pre_flight_failed")
         \/ Returns(r, "success") /\ (HopCount = 0 \/ o.mode = "validate-only")
      /\ \A q \in Invocations \ {r} : pc'[q] = pc[q] /\ result'[q] = result[q]
  <2>1. CASE Return(r, "pre_flight_failed", FALSE, "single")
    BY <2>1, ReturnsOf
  <2>2. CASE (HopCount = 0 \/ o.mode = "validate-only") /\ Return(r, "success", TRUE, "none")
    BY <2>2, ReturnsOf
  <2>3. CASE IF o.resumed THEN Goto(r, "cursor") ELSE OpenStream(r)
    <3>1. CASE o.resumed
      BY <2>3, <3>1, StaysOf
    <3>2. CASE ~o.resumed
      BY <2>3, <3>2, OpensOf
    <3>3. QED  BY <3>1, <3>2
  <2>4. QED  BY <1>1, <2>1, <2>2, <2>3
<1>4. pc[r] = "idle" /\ Cardinality(InFlight) < MaxConcurrent
      /\ UNCHANGED <<recordCount, skipSet, tally, outcome, output, log, budget>>
  BY <1>1 DEF Call
<1>5. SameCounts(r) /\ OthersSame(r)
  BY <1>2, <1>3, <1>4 DEF SameCounts, OthersSame, SameCall, tally, output
<1>6. pc'[r] = "pull" => ~opts'[r].resumed
  BY <1>2, <1>3 DEF Stays, Returns
<1>7. QED  BY <1>1, <1>2, <1>3, <1>4, <1>5, <1>6

LEMMA CursorStep ==
  ASSUME TypeInv, NEW r \in Invocations, ReadCursor(r) \/ CursorThrows(r)
  PROVE  /\ pc[r] = "cursor"
         /\ \/ /\ Stays(r, "pull") \/ Returns(r, "cancelled")
               /\ skipSet'[r] = Cursor(log, opts[r].runId)
            \/ Returns(r, "adapter_init_failed") /\ skipSet'[r] = skipSet[r]
         /\ UNCHANGED <<opts, recordCount, tally, outcome, output, log, crashes>>
         /\ OthersSame(r)
<1>1. CASE ReadCursor(r)
  <2>1. OpenStream(r)
    BY <1>1 DEF ReadCursor
  <2>2. QED  BY <1>1, <2>1, OpensOf
        DEF ReadCursor, OthersSame, SameCall, SameCounts, settings, tally, output, budget,
            TypeInv, TypeOK
<1>2. CASE CursorThrows(r)
  <2>1. Return(r, "adapter_init_failed", FALSE, "single") /\ crashes' = crashes
    BY <1>2 DEF CursorThrows, budget, Fault
  <2>2. QED  BY <1>2, <2>1, ReturnsOf
        DEF CursorThrows, OthersSame, SameCall, SameCounts, settings, walk, tally, output
<1>3. QED  BY <1>1, <1>2

LEMMA SkipStep ==
  ASSUME TypeInv, NEW r \in Invocations, SkipRecord(r)
  PROVE  /\ pc[r] = "pull" /\ Stays(r, "pull")
         /\ recordCount[r] \in skipSet[r] /\ recordCount'[r] = recordCount[r] + 1
         /\ UNCHANGED <<opts, skipSet, tally, outcome, output, log, budget>>
         /\ OthersSame(r)
BY DEF SkipRecord, AtRecord, IsSkipped, Stays, OthersSame, SameCall, SameCounts, settings,
   tally, output, TypeInv, TypeOK

LEMMA ProcessStep ==
  ASSUME TypeInv, NEW r \in Invocations, ProcessRecord(r)
  PROVE  /\ pc[r] = "pull" /\ (Stays(r, "persist") \/ Stays(r, "append"))
         /\ Stays(r, "append") /\ opts[r].mode = "execute" => outcome'[r] # "success"
         /\ recordCount[r] \notin skipSet[r] /\ recordCount'[r] = recordCount[r] + 1
         /\ UNCHANGED <<opts, skipSet, tally, output, log, budget>>
         /\ OthersSame(r)
<1>1. PICK o \in {"success"} \cup PipelineFailures :
        /\ outcome' = [outcome EXCEPT ![r] = o]
        /\ Goto(r, IF o = "success" /\ opts[r].mode = "execute" THEN "persist" ELSE "append")
  BY DEF ProcessRecord
<1>2. \A q \in Invocations \ {r} : pc'[q] = pc[q] /\ result'[q] = result[q]
  BY <1>1, StaysOf
<1>3. IF o = "success" /\ opts[r].mode = "execute" THEN Stays(r, "persist")
                                                   ELSE Stays(r, "append")
  BY <1>1, StaysOf
<1>4. outcome'[r] = o
  BY <1>1 DEF TypeInv, TypeOK
<1>5. QED  BY <1>1, <1>2, <1>3, <1>4
      DEF ProcessRecord, AtRecord, IsSkipped, OthersSame, SameCall, SameCounts, Stays,
          settings, tally, output, TypeInv, TypeOK

(* The steps that leave the stream for good, or for the flush.             *)
LEMMA LeaveStep ==
  ASSUME TypeInv, NEW r \in Invocations,
         CancelBetween(r) \/ StreamThrows(r) \/ EndOfStream(r)
  PROVE  /\ pc[r] = "pull"
         /\ \/ Returns(r, "cancelled") \/ Returns(r, "adapter_init_failed")
            \/ /\ recordCount[r] = NumRecords
               /\ IF MustFlush(r) THEN Stays(r, "flush") ELSE Concludes(r)
         /\ UNCHANGED <<opts, walk, tally, output, log, crashes>>
         /\ SameCounts(r) /\ OthersSame(r)
<1>1. CASE CancelBetween(r)
  <2>1. Return(r, "cancelled", TRUE, "single")
    BY <1>1 DEF CancelBetween
  <2>2. QED  BY <1>1, <2>1, ReturnsOf
        DEF CancelBetween, AtRecord, OthersSame, SameCall, SameCounts, settings, walk, tally,
            output, budget
<1>2. CASE StreamThrows(r)
  <2>1. Return(r, "adapter_init_failed", TRUE, "single")
    BY <1>2 DEF StreamThrows
  <2>2. QED  BY <1>2, <2>1, ReturnsOf
        DEF StreamThrows, Fault, OthersSame, SameCall, SameCounts, settings, walk, tally, output
<1>3. CASE EndOfStream(r)
  <2>1. /\ IF MustFlush(r) THEN Stays(r, "flush") ELSE Concludes(r)
        /\ \A q \in Invocations \ {r} : pc'[q] = pc[q] /\ result'[q] = result[q]
    <3>1. CASE MustFlush(r)
      BY <1>3, <3>1, StaysOf DEF EndOfStream
    <3>2. CASE ~MustFlush(r)
      BY <1>3, <3>2, ConcludesOf DEF EndOfStream
    <3>3. QED  BY <3>1, <3>2
  <2>2. QED  BY <1>3, <2>1
        DEF EndOfStream, OthersSame, SameCall, SameCounts, settings, walk, tally, output, budget
<1>4. QED  BY <1>1, <1>2, <1>3

LEMMA PersistStep ==
  ASSUME TypeInv, NEW r \in Invocations, Persist(r) \/ PersistThrows(r)
  PROVE  /\ pc[r] = "persist" /\ Stays(r, "append")
         /\ \/ Store(r) /\ outcome'[r] = outcome[r]
            \/ (Store(r) \/ UNCHANGED output) /\ outcome'[r] = "persist_failed"
         /\ UNCHANGED <<opts, recordCount, skipSet, tally, snapshot, log, crashes>>
         /\ SameCounts(r) /\ OthersSame(r)
<1>1. CASE Persist(r)
  BY <1>1, StaysOf
  DEF Persist, Store, OthersSame, SameCall, SameCounts, settings, walk, tally, budget
<1>2. CASE PersistThrows(r)
  BY <1>2, StaysOf
  DEF PersistThrows, Store, Fault, OthersSame, SameCall, SameCounts, settings, tally, output,
      TypeInv, TypeOK
<1>3. QED  BY <1>1, <1>2

(* The append: a line is added or the last line is spoilt; the walk goes   *)
(* on, stops at a failure, or is broken off by an append that throws.      *)
LogGrows(r) == log' = log \/ Appended(log, EntryOf(r), log') \/ Spoiled(log, log')

LEMMA CountedStep ==
  ASSUME TypeInv, NEW r \in Invocations, AppendAudit(r)
  PROVE  /\ pc[r] = "append" /\ log' = AppendLine(log, EntryOf(r)) /\ LogGrows(r)
         /\ IF outcome[r] = "success"
            THEN /\ Stays(r, "pull")
                 /\ successCount'[r] = successCount[r] + 1
                 /\ failureCount'[r] = failureCount[r] /\ firstFailure'[r] = firstFailure[r]
            ELSE /\ successCount'[r] = successCount[r]
                 /\ failureCount'[r] = failureCount[r] + 1
                 /\ firstFailure'[r] = FirstFailure(r)
                 /\ IF StopsHere(r) THEN Returns(r, FirstFailure(r)) ELSE Stays(r, "pull")
         /\ UNCHANGED <<opts, recordCount, skipSet, outcome, output, budget>>
         /\ OthersSame(r)
<1>1. pc[r] = "append" /\ log' = AppendLine(log, EntryOf(r))
  BY DEF AppendAudit
<1>2. LogGrows(r)
  <2>1. log \in Seq(AuditLine) /\ EntryOf(r) \in AuditLine
    BY <1>1, EntryType DEF InHand, TypeInv, TypeOK
  <2>2. QED  BY <1>1, <2>1, AppendShapes DEF LogGrows
<1>3. CASE outcome[r] = "success"
  <2>1. CountSuccess(r)
    BY <1>3 DEF AppendAudit
  <2>2. QED  BY <1>1, <1>2, <1>3, <2>1, StaysOf
        DEF AppendAudit, CountSuccess, OthersSame, SameCall, SameCounts, settings, walk, output,
            TypeInv, TypeOK
<1>4. CASE outcome[r] # "success"
  <2>1. CountFailure(r)
    BY <1>4 DEF AppendAudit
  <2>2. /\ IF StopsHere(r) THEN Returns(r, FirstFailure(r)) ELSE Stays(r, "pull")
        /\ \A q \in Invocations \ {r} : pc'[q] = pc[q] /\ result'[q] = result[q]
    <3>1. CASE StopsHere(r)
      <4> DEFINE message == IF failureCount[r] + 1 > 1 THEN "nOfM" ELSE "single"
      <4>1. Return(r, FirstFailure(r), TRUE, message)
        BY <2>1, <3>1 DEF CountFailure, AggregateFailure
      <4> HIDE DEF message
      <4>2. QED  BY <3>1, <4>1, ReturnsOf
    <3>2. CASE ~StopsHere(r)
      BY <2>1, <3>2, StaysOf DEF CountFailure
    <3>3. QED  BY <3>1, <3>2
  <2>3. /\ failureCount' = [failureCount EXCEPT ![r] = @ + 1]
        /\ firstFailure' = [firstFailure EXCEPT ![r] = FirstFailure(r)]
        /\ successCount' = successCount
    BY <2>1 DEF CountFailure
  <2>4. QED  BY <1>1, <1>2, <1>4, <2>2, <2>3
        DEF AppendAudit, OthersSame, SameCall, SameCounts, settings, walk, output, TypeInv, TypeOK
<1>5. QED  BY <1>3, <1>4

LEMMA AppendThrowsStep ==
  ASSUME TypeInv, NEW r \in Invocations, AppendThrows(r)
  PROVE  /\ pc[r] = "append" /\ Returns(r, "adapter_init_failed") /\ LogGrows(r)
         /\ UNCHANGED <<opts, walk, tally, output, crashes>>
         /\ faults' = faults + 1
         /\ SameCounts(r) /\ OthersSame(r)
<1>1. pc[r] = "append" /\ Return(r, "adapter_init_failed", TRUE, "single")
  BY DEF AppendThrows
<1>2. LogGrows(r)
  <2>1. log \in Seq(AuditLine) /\ EntryOf(r) \in AuditLine
    BY <1>1, EntryType DEF InHand, TypeInv, TypeOK
  <2>2. QED  BY <2>1, AppendShapes DEF AppendThrows, LogGrows
<1>3. QED  BY <1>1, <1>2, ReturnsOf
      DEF AppendThrows, Fault, OthersSame, SameCall, SameCounts, settings, walk, tally, output

LEMMA FlushStep ==
  ASSUME TypeInv, NEW r \in Invocations, FlushSnapshot(r) \/ FlushWrite(r) \/ FlushThrows(r)
  PROVE  /\ \/ /\ pc[r] = "flush" /\ Stays(r, "write")
               /\ snapshot'[r] = buffer /\ UNCHANGED <<file, faults>>
            \/ /\ pc[r] = "write" /\ Concludes(r)
               /\ file' = snapshot[r] /\ UNCHANGED <<snapshot, faults>>
            \/ /\ pc[r] \in {"flush", "write"} /\ Returns(r, "persist_failed")
               /\ faults' = faults + 1 /\ UNCHANGED snapshot
         /\ UNCHANGED <<opts, walk, tally, buffer, log, crashes>>
         /\ SameCounts(r)
         /\ OthersSame(r)
<1>1. CASE FlushSnapshot(r)
  BY <1>1, StaysOf
  DEF FlushSnapshot, FlushText, OthersSame, SameCall, SameCounts, settings, walk, tally, budget,
      TypeInv, TypeOK
<1>2. CASE FlushWrite(r)
  BY <1>2, ConcludesOf
  DEF FlushWrite, OthersSame, SameCall, SameCounts, settings, walk, tally, budget
<1>3. CASE FlushThrows(r)
  <2>1. Return(r, "persist_failed", TRUE, "single")
    BY <1>3 DEF FlushThrows
  <2>2. QED  BY <1>3, <2>1, ReturnsOf
        DEF FlushThrows, Fault, OthersSame, SameCall, SameCounts, settings, walk, tally
<1>4. QED  BY <1>1, <1>2, <1>3

LEMMA CrashStep ==
  ASSUME TypeInv, Crash
  PROVE  /\ \A q \in Invocations :
              /\ SameCounts(q) /\ opts'[q] = opts[q] /\ result'[q] = result[q]
              /\ outcome'[q] = outcome[q] /\ snapshot'[q] = snapshot[q]
              /\ pc'[q] = IF q \in InFlight THEN "crashed" ELSE pc[q]
         /\ crashes' = crashes + 1 /\ faults' = faults
         /\ \/ AuditKind = "memory" /\ log' = <<>>
            \/ log' = log
            \/ \E r \in Invocations : pc[r] = "append" /\ LogGrows(r)
<1>1. ASSUME NEW r \in Invocations, pc[r] = "append", log' \in AppendPart(log, EntryOf(r))
      PROVE  LogGrows(r)
  <2>1. log \in Seq(AuditLine) /\ EntryOf(r) \in AuditLine
    BY <1>1, EntryType DEF InHand, TypeInv, TypeOK
  <2>2. QED  BY <1>1, <2>1, AppendShapes DEF LogGrows
<1>2. \/ AuditKind = "memory" /\ log' = <<>>
      \/ log' = log
      \/ \E r \in Invocations : pc[r] = "append" /\ log' \in AppendPart(log, EntryOf(r))
  BY DEF Crash
<1>3. QED  BY <1>1, <1>2 DEF Crash, SameCounts, settings, walk, tally

LEMMA AbortStep ==
  ASSUME TypeInv, NEW r \in Invocations, Abort(r)
  PROVE  /\ UNCHANGED <<pc, opts, result, walk, tally, output, log, budget>>
         /\ \A q \in Invocations : SameCall(q)
BY DEF Abort, SameCall, SameCounts, walk, tally, output

-----------------------------------------------------------------------------
(* The counts.  The inductive invariant is RecordAccounting with what it    *)
(* leaves out: the counts of a call that has not begun to walk are zero,   *)
(* and a result is there when the call is over, not before.                *)

SkippedBefore(r) == {i \in skipSet[r] : i < recordCount[r]}
Missing(r) ==
  recordCount[r] - (successCount[r] + failureCount[r] + Cardinality(SkippedBefore(r)))

Balanced(r) ==
  /\ InHand(r) => Missing(r) = 1
  /\ ~InHand(r) => Missing(r) \in 0 .. 1
  /\ ~InHand(r) /\ ~Interrupted(r) => Missing(r) = 0

Unstarted(r) ==
  /\ pc[r] # "done" => result[r].status = "none"
  /\ pc[r] \in {"idle", "cursor"} => /\ recordCount[r] = 0
                                     /\ successCount[r] = 0 /\ failureCount[r] = 0

CountInv == \A r \in Invocations : Unstarted(r) /\ Balanced(r)

LEMMA SkippedFinite ==
  ASSUME TypeInv, NEW r \in Invocations
  PROVE  IsFiniteSet(SkippedBefore(r)) /\ Cardinality(SkippedBefore(r)) \in Nat
<1>1. IsFiniteSet(0 .. NumRecords - 1)
  BY RunnerConstants, FS_Interval
<1>2. SkippedBefore(r) \in SUBSET (0 .. NumRecords - 1)
  BY DEF SkippedBefore, TypeInv, TypeOK, Records
<1>3. IsFiniteSet(SkippedBefore(r))
  BY <1>1, <1>2, FS_Subset
<1>4. QED  BY <1>3, FS_CardinalityType

LEMMA MissingType ==
  ASSUME TypeInv, NEW r \in Invocations
  PROVE  /\ recordCount[r] \in Nat /\ successCount[r] \in Nat /\ failureCount[r] \in Nat
         /\ skipSet[r] \subseteq Nat
         /\ Missing(r) \in Int
<1>1. /\ recordCount[r] \in Nat /\ successCount[r] \in Nat /\ failureCount[r] \in Nat
      /\ skipSet[r] \subseteq Nat
  BY RunnerConstants DEF TypeInv, TypeOK, Records
<1>2. QED  BY <1>1, SkippedFinite DEF Missing

LEMMA MissingSame ==
  ASSUME NEW r, SameCounts(r)  PROVE Missing(r)' = Missing(r)
BY DEF SameCounts, Missing, SkippedBefore

(* Passing a record that is skipped, and one that is not.                  *)
LEMMA MissingPass ==
  ASSUME TypeInv, NEW r \in Invocations, recordCount'[r] = recordCount[r] + 1,
         UNCHANGED <<skipSet, tally>>
  PROVE  Missing(r)' = IF recordCount[r] \in skipSet[r] THEN Missing(r) ELSE Missing(r) + 1
<1>1. /\ recordCount[r] \in Nat /\ successCount[r] \in Nat /\ failureCount[r] \in Nat
      /\ skipSet[r] \subseteq Nat
  BY MissingType
<1>2. IsFiniteSet(SkippedBefore(r)) /\ Cardinality(SkippedBefore(r)) \in Nat
  BY SkippedFinite
<1>3. CASE recordCount[r] \in skipSet[r]
  <2>1. SkippedBefore(r)' = SkippedBefore(r) \cup {recordCount[r]}
    BY <1>1, <1>3 DEF SkippedBefore
  <2>2. recordCount[r] \notin SkippedBefore(r)
    BY <1>1 DEF SkippedBefore
  <2>3. Cardinality(SkippedBefore(r)') = Cardinality(SkippedBefore(r)) + 1
    BY <1>2, <2>1, <2>2, FS_AddElement
  <2>4. Missing(r)' = (recordCount[r] + 1)
          - (successCount[r] + failureCount[r] + (Cardinality(SkippedBefore(r)) + 1))
    BY <2>3 DEF Missing, tally
  <2>5. QED  BY <1>1, <1>2, <1>3, <2>4 DEF Missing
<1>4. CASE recordCount[r] \notin skipSet[r]
  <2>1. SkippedBefore(r)' = SkippedBefore(r)
    BY <1>1, <1>4 DEF SkippedBefore
  <2>2. Missing(r)' = (recordCount[r] + 1)
          - (successCount[r] + failureCount[r] + Cardinality(SkippedBefore(r)))
    BY <2>1 DEF Missing, tally
  <2>3. QED  BY <1>1, <1>2, <1>4, <2>2 DEF Missing
<1>5. QED  BY <1>3, <1>4

LEMMA MissingCounted ==
  ASSUME TypeInv, NEW r \in Invocations, UNCHANGED <<recordCount, skipSet>>,
         \/ successCount'[r] = successCount[r] + 1 /\ failureCount'[r] = failureCount[r]
         \/ successCount'[r] = successCount[r] /\ failureCount'[r] = failureCount[r] + 1
  PROVE  Missing(r)' = Missing(r) - 1
<1>1. SkippedBefore(r)' = SkippedBefore(r)
  BY DEF SkippedBefore
<1>2. QED  BY <1>1, MissingType, SkippedFinite DEF Missing

LEMMA CountOther ==
  ASSUME NEW q \in Invocations, CountInv, SameCall(q)  PROVE Unstarted(q)' /\ Balanced(q)'
<1>1. Missing(q)' = Missing(q)
  BY MissingSame DEF SameCall
<1>2. QED  BY <1>1 DEF CountInv, SameCall, SameCounts, Unstarted, Balanced, InHand, Interrupted

LEMMA CountByCall ==
  ASSUME CountInv, NEW r \in Invocations, OthersSame(r), Unstarted(r)', Balanced(r)'
  PROVE  CountInv'
BY CountOther DEF CountInv, OthersSame

(* A call that ends or waits elsewhere with the counts it had.             *)
LEMMA CountMoves ==
  ASSUME TypeInv, CountInv, NEW r \in Invocations, OthersSame(r), SameCounts(r),
         ~InHand(r), pc[r] \notin {"done", "crashed"},
         \/ pc'[r] \in {"pull", "flush", "write"} /\ result'[r] = result[r]
         \/ pc[r] = "idle" /\ pc'[r] = "cursor" /\ result'[r] = result[r]
         \/ pc'[r] = "done"
  PROVE  CountInv'
<1>1. Missing(r) = 0 /\ Missing(r)' = 0
  BY MissingSame DEF CountInv, Unstarted, Balanced, Interrupted
<1>2. Balanced(r)'
  <2>1. ~InHand(r)'
    BY DEF InHand
  <2>2. QED  BY <1>1, <2>1 DEF Balanced
<1>3. Unstarted(r)'
  BY DEF CountInv, Unstarted, SameCounts
<1>4. QED  BY <1>2, <1>3, CountByCall

LEMMA CountStep ==
  ASSUME TypeInv, CountInv, [Next]_vars  PROVE CountInv'
<1>1. ASSUME NEW r \in Invocations, PreFlightRefused(r) \/ NothingToWalk(r) \/ Begin(r)
      PROVE  CountInv'
  BY <1>1, CallStep, CountMoves DEF Stays, Returns, InHand
<1>2. ASSUME NEW r \in Invocations, ReadCursor(r) \/ CursorThrows(r)
      PROVE  CountInv'
  <2>1. /\ pc[r] = "cursor" /\ OthersSame(r) /\ UNCHANGED <<recordCount, tally>>
        /\ (pc'[r] = "pull" /\ result'[r] = result[r]) \/ pc'[r] = "done"
    BY <1>2, CursorStep DEF Stays, Returns
  <2>2. recordCount[r] = 0 /\ successCount[r] = 0 /\ failureCount[r] = 0
    BY <2>1 DEF CountInv, Unstarted
  <2>3. SkippedBefore(r)' = {}
    <3>1. skipSet'[r] \subseteq Nat
      BY <1>2, TypeCursor, RunnerConstants DEF TypeInv, TypeOK, Records
    <3>2. QED  BY <2>1, <2>2, <3>1 DEF SkippedBefore
  <2>4. Missing(r)' = 0
    BY <2>1, <2>2, <2>3, FS_EmptySet DEF Missing, tally
  <2>5. Unstarted(r)' /\ Balanced(r)'
    BY <2>1, <2>4 DEF CountInv, Unstarted, Balanced, InHand
  <2>6. QED  BY <2>1, <2>5, CountByCall
<1>3. ASSUME NEW r \in Invocations, SkipRecord(r)  PROVE CountInv'
  <2>1. Missing(r)' = Missing(r)
    BY <1>3, SkipStep, MissingPass
  <2>2. Unstarted(r)' /\ Balanced(r)'
    BY <1>3, <2>1, SkipStep DEF CountInv, Unstarted, Balanced, InHand, Interrupted, Stays
  <2>3. QED  BY <1>3, <2>2, SkipStep, CountByCall
<1>4. ASSUME NEW r \in Invocations, ProcessRecord(r)  PROVE CountInv'
  <2>1. Missing(r)' = Missing(r) + 1
    BY <1>4, ProcessStep, MissingPass
  <2>2. /\ Missing(r) = 0 /\ result'[r] = result[r] /\ result[r].status = "none"
        /\ pc'[r] \in {"persist", "append"}
    BY <1>4, ProcessStep DEF CountInv, Unstarted, Balanced, InHand, Interrupted, Stays
  <2>3. Unstarted(r)' /\ Balanced(r)'
    BY <2>1, <2>2 DEF Unstarted, Balanced, InHand
  <2>4. QED  BY <1>4, <2>3, ProcessStep, CountByCall
<1>5. ASSUME NEW r \in Invocations, CancelBetween(r) \/ StreamThrows(r) \/ EndOfStream(r)
      PROVE  CountInv'
  BY <1>5, LeaveStep, CountMoves DEF Stays, Returns, Concludes, InHand
<1>6. ASSUME NEW r \in Invocations, Persist(r) \/ PersistThrows(r)  PROVE CountInv'
  <2>1. Missing(r)' = Missing(r)
    BY <1>6, PersistStep, MissingSame
  <2>2. Unstarted(r)' /\ Balanced(r)'
    BY <1>6, <2>1, PersistStep DEF CountInv, Unstarted, Balanced, InHand, Stays
  <2>3. QED  BY <1>6, <2>2, PersistStep, CountByCall
<1>7. ASSUME NEW r \in Invocations, AppendAudit(r)  PROVE CountInv'
  <2>1. Missing(r)' = Missing(r) - 1
    BY <1>7, CountedStep, MissingCounted
  <2>2. Missing(r) = 1 /\ result[r].status = "none"
    BY <1>7, CountedStep DEF CountInv, Unstarted, Balanced, InHand
  <2>3. \/ pc'[r] = "pull" /\ result'[r] = result[r]
        \/ pc'[r] = "done"
    BY <1>7, CountedStep DEF Stays, Returns
  <2>4. Unstarted(r)' /\ Balanced(r)'
    BY <2>1, <2>2, <2>3 DEF Unstarted, Balanced, InHand
  <2>5. QED  BY <1>7, <2>4, CountedStep, CountByCall
<1>8. ASSUME NEW r \in Invocations, AppendThrows(r)  PROVE CountInv'
  <2>1. Missing(r)' = Missing(r)
    BY <1>8, AppendThrowsStep, MissingSame
  <2>2. Missing(r) = 1 /\ pc'[r] = "done" /\ result'[r].status = "adapter_init_failed"
    BY <1>8, AppendThrowsStep DEF CountInv, Balanced, InHand, Returns
  <2>3. Unstarted(r)' /\ Balanced(r)'
    BY <2>1, <2>2 DEF Unstarted, Balanced, InHand, Interrupted
  <2>4. QED  BY <1>8, <2>3, AppendThrowsStep, CountByCall
<1>9. ASSUME NEW r \in Invocations, FlushSnapshot(r) \/ FlushWrite(r) \/ FlushThrows(r)
      PROVE  CountInv'
  BY <1>9, FlushStep, CountMoves DEF Stays, Returns, Concludes, InHand
<1>10. ASSUME NEW r \in Invocations, Abort(r)  PROVE CountInv'
  BY <1>10, AbortStep, CountOther DEF CountInv
<1>11. CASE Crash
  <2> SUFFICES ASSUME NEW q \in Invocations  PROVE Unstarted(q)' /\ Balanced(q)'
    BY DEF CountInv
  <2>1. Missing(q)' = Missing(q) /\ Missing(q) \in 0 .. 1
    BY <1>11, CrashStep, MissingSame DEF CountInv, Balanced
  <2>2. CASE q \in InFlight
    BY <1>11, <2>1, <2>2, CrashStep
    DEF CountInv, Unstarted, Balanced, InHand, Interrupted, InFlight
  <2>3. CASE q \notin InFlight
    BY <1>11, <2>1, <2>3, CrashStep
    DEF CountInv, Unstarted, Balanced, InHand, Interrupted, SameCounts
  <2>4. QED  BY <2>2, <2>3
<1>12. CASE UNCHANGED vars
  <2>1. \A q \in Invocations : SameCall(q)
    BY <1>12 DEF vars, settings, walk, tally, output, SameCall, SameCounts
  <2>2. QED  BY <2>1, CountOther DEF CountInv
<1>13. QED  BY <1>1, <1>2, <1>3, <1>4, <1>5, <1>6, <1>7, <1>8, <1>9, <1>10, <1>11, <1>12
       DEF Next, Advance

LEMMA CountInit == Init => CountInv
<1> SUFFICES ASSUME Init, NEW r \in Invocations  PROVE Unstarted(r) /\ Balanced(r)
  BY DEF CountInv
<1>1. SkippedBefore(r) = {}
  BY DEF Init, SkippedBefore
<1>2. Missing(r) = 0
  BY <1>1, FS_EmptySet DEF Init, Missing
<1>3. QED  BY <1>2 DEF Init, Unstarted, Balanced, NoResult, InHand

LEMMA CountCorrect == Spec => [](TypeInv /\ CountInv)
<1>1. TypeInv /\ CountInv /\ [Next]_vars => CountInv'
  BY CountStep
<1>2. QED  BY <1>1, TypeInit, TypeNext, CountInit, PTL DEF Spec

(* The counts of a call account for every record it has pulled, but for    *)
(* the one in hand (runner.ts:202-296).                                    *)
THEOREM CountsAccount == Spec => []RecordAccounting
<1>1. CountInv => RecordAccounting
  BY DEF CountInv, Balanced, Missing, SkippedBefore, RecordAccounting
<1>2. QED  BY <1>1, CountCorrect, PTL

-----------------------------------------------------------------------------
(* The lines.  The index of a line lies in the part its call has settled,  *)
(* which a call only leaves behind, and the record in hand is the next.    *)

Walked(r) == recordCount[r] - IF InHand(r) THEN 1 ELSE 0

LineInv ==
  /\ \A k \in DOMAIN log : /\ log[k].recordIndex < Walked(log[k].by)
                           /\ log[k].recordIndex \notin skipSet[log[k].by]
  /\ \A r \in Invocations : InHand(r) => recordCount[r] - 1 \notin skipSet[r]
  /\ OneOutcomePerRecord

Forward == \A q \in Invocations :
  /\ Walked(q)' >= Walked(q)
  /\ Walked(q) > 0 => skipSet'[q] = skipSet[q]
  /\ InHand(q)' => /\ InHand(q) => recordCount'[q] = recordCount[q]
                   /\ ~InHand(q) => recordCount'[q] - 1 \notin skipSet[q]
                   /\ skipSet'[q] = skipSet[q]

LEMMA WalkedType ==
  ASSUME TypeInv, NEW r \in Invocations
  PROVE  recordCount[r] \in Nat /\ Walked(r) \in Nat
BY RunnerConstants DEF TypeInv, TypeOK, Walked

LEMMA ForwardSame ==
  ASSUME TypeInv, NEW q \in Invocations, pc'[q] = pc[q],
         recordCount'[q] = recordCount[q], skipSet'[q] = skipSet[q]
  PROVE  /\ Walked(q)' >= Walked(q)
         /\ Walked(q) > 0 => skipSet'[q] = skipSet[q]
         /\ InHand(q)' => /\ InHand(q) => recordCount'[q] = recordCount[q]
                          /\ ~InHand(q) => recordCount'[q] - 1 \notin skipSet[q]
                          /\ skipSet'[q] = skipSet[q]
BY WalkedType DEF Walked, InHand

LEMMA ForwardByCall ==
  ASSUME TypeInv, NEW r \in Invocations, OthersSame(r),
         Walked(r)' >= Walked(r), Walked(r) > 0 => skipSet'[r] = skipSet[r],
         InHand(r)' => /\ InHand(r) => recordCount'[r] = recordCount[r]
                       /\ ~InHand(r) => recordCount'[r] - 1 \notin skipSet[r]
                       /\ skipSet'[r] = skipSet[r]
  PROVE  Forward
<1>1. ASSUME NEW q \in Invocations \ {r}
      PROVE  /\ Walked(q)' >= Walked(q)
             /\ Walked(q) > 0 => skipSet'[q] = skipSet[q]
             /\ InHand(q)' => /\ InHand(q) => recordCount'[q] = recordCount[q]
                              /\ ~InHand(q) => recordCount'[q] - 1 \notin skipSet[q]
                              /\ skipSet'[q] = skipSet[q]
  BY ForwardSame DEF OthersSame, SameCall, SameCounts
<1>2. QED  BY <1>1 DEF Forward

(* A step that keeps the counts and does not take a record in hand.        *)
LEMMA ForwardMoves ==
  ASSUME TypeInv, NEW r \in Invocations, OthersSame(r), SameCounts(r), ~InHand(r)'
  PROVE  Forward
<1>1. Walked(r)' >= Walked(r)
  BY WalkedType DEF Walked, SameCounts
<1>2. QED  BY <1>1, ForwardByCall DEF SameCounts

LEMMA WalksForward ==
  ASSUME TypeInv, CountInv, [Next]_vars  PROVE Forward
<1>1. ASSUME NEW r \in Invocations, PreFlightRefused(r) \/ NothingToWalk(r) \/ Begin(r)
      PROVE  Forward
  BY <1>1, CallStep, ForwardMoves DEF Stays, Returns, InHand
<1>2. ASSUME NEW r \in Invocations, ReadCursor(r) \/ CursorThrows(r)
      PROVE  Forward
  <2>1. /\ pc[r] = "cursor" /\ OthersSame(r) /\ recordCount' = recordCount
        /\ pc'[r] \in {"pull", "done"}
    BY <1>2, CursorStep DEF Stays, Returns
  <2>2. recordCount[r] = 0
    BY <2>1 DEF CountInv, Unstarted
  <2>3. Walked(r) = 0 /\ Walked(r)' = 0 /\ ~InHand(r)'
    <3>1. /\ pc[r] \notin {"persist", "append"} /\ pc'[r] \notin {"persist", "append"}
          /\ recordCount'[r] = 0
      BY <2>1, <2>2
    <3>2. ~InHand(r) /\ ~InHand(r)'
      BY <3>1 DEF InHand
    <3>3. 0 - 0 = 0
      OBVIOUS
    <3>4. Walked(r) = 0 /\ Walked(r)' = 0
      BY <2>2, <3>1, <3>3 DEF Walked, InHand
    <3>5. QED  BY <3>2, <3>4
  <2>4. Walked(r)' >= Walked(r) /\ ~(Walked(r) > 0)
    BY <2>3
  <2>5. QED  BY <2>1, <2>3, <2>4, ForwardByCall
<1>3. ASSUME NEW r \in Invocations, SkipRecord(r)  PROVE Forward
  <2>1. Walked(r)' >= Walked(r) /\ ~InHand(r)'
    BY <1>3, SkipStep, WalkedType DEF Walked, InHand, Stays
  <2>2. QED  BY <1>3, <2>1, SkipStep, ForwardByCall
<1>4. ASSUME NEW r \in Invocations, ProcessRecord(r)  PROVE Forward
  <2>1. recordCount'[r] = recordCount[r] + 1 /\ ~InHand(r) /\ InHand(r)'
    BY <1>4, ProcessStep DEF InHand, Stays
  <2>2. Walked(r)' >= Walked(r)
    BY <2>1, WalkedType DEF Walked
  <2>3. recordCount'[r] - 1 = recordCount[r]
    BY <2>1, WalkedType
  <2>4. QED  BY <1>4, <2>1, <2>2, <2>3, ProcessStep, ForwardByCall
<1>5. ASSUME NEW r \in Invocations, CancelBetween(r) \/ StreamThrows(r) \/ EndOfStream(r)
      PROVE  Forward
  BY <1>5, LeaveStep, ForwardMoves DEF Stays, Returns, Concludes, InHand
<1>6. ASSUME NEW r \in Invocations, Persist(r) \/ PersistThrows(r)  PROVE Forward
  <2>1. InHand(r) /\ InHand(r)' /\ SameCounts(r)
    BY <1>6, PersistStep DEF InHand, Stays
  <2>2. Walked(r)' >= Walked(r)
    BY <2>1, WalkedType DEF Walked, SameCounts
  <2>3. QED  BY <1>6, <2>1, <2>2, PersistStep, ForwardByCall DEF SameCounts
<1>7. ASSUME NEW r \in Invocations, AppendAudit(r)  PROVE Forward
  <2>1. ~InHand(r)' /\ OthersSame(r) /\ UNCHANGED <<recordCount, skipSet>>
    BY <1>7, CountedStep DEF InHand, Stays, Returns
  <2>2. Walked(r)' >= Walked(r)
    BY <2>1, WalkedType DEF Walked
  <2>3. QED  BY <2>1, <2>2, ForwardByCall
<1>8. ASSUME NEW r \in Invocations, AppendThrows(r)  PROVE Forward
  BY <1>8, AppendThrowsStep, ForwardMoves DEF Returns, InHand
<1>9. ASSUME NEW r \in Invocations, FlushSnapshot(r) \/ FlushWrite(r) \/ FlushThrows(r)
      PROVE  Forward
  BY <1>9, FlushStep, ForwardMoves DEF Stays, Returns, Concludes, InHand
<1>10. ASSUME \A q \in Invocations : SameCall(q)  PROVE Forward
  BY <1>10, ForwardSame DEF Forward, SameCall, SameCounts
<1>11. CASE Crash
  <2> SUFFICES ASSUME NEW q \in Invocations
               PROVE  Walked(q)' >= Walked(q) /\ skipSet'[q] = skipSet[q] /\ ~InHand(q)'
    BY DEF Forward
  <2>1. SameCounts(q) /\ ~InHand(q)'
    BY <1>11, CrashStep DEF InHand, InFlight
  <2>2. QED  BY <2>1, WalkedType DEF Walked, SameCounts
<1>12. CASE UNCHANGED vars
  BY <1>10, <1>12 DEF vars, settings, walk, tally, output, SameCall, SameCounts
<1>13. QED  BY <1>1, <1>2, <1>3, <1>4, <1>5, <1>6, <1>7, <1>8, <1>9, <1>10, <1>11, <1>12, AbortStep
       DEF Next, Advance

(* What a step does to the log: it keeps it, loses it, or is the last step *)
(* of a call with a record in hand and adds to it.                         *)
LEMMA LogStep ==
  ASSUME TypeInv, [Next]_vars
  PROVE  \/ log' = log
         \/ Crash /\ AuditKind = "memory" /\ log' = <<>>
         \/ \E r \in Invocations :
              /\ pc[r] = "append" /\ ~InHand(r)' /\ LogGrows(r)
              /\ recordCount'[r] = recordCount[r] /\ skipSet'[r] = skipSet[r]
<1>1. ASSUME NEW r \in Invocations, AppendAudit(r) \/ AppendThrows(r)
      PROVE  /\ pc[r] = "append" /\ ~InHand(r)' /\ LogGrows(r)
             /\ recordCount'[r] = recordCount[r] /\ skipSet'[r] = skipSet[r]
  BY <1>1, CountedStep, AppendThrowsStep DEF InHand, Stays, Returns, walk
<1>2. CASE Crash
  <2>1. ASSUME NEW r \in Invocations, pc[r] = "append"
        PROVE  ~InHand(r)' /\ recordCount'[r] = recordCount[r] /\ skipSet'[r] = skipSet[r]
    BY <1>2, <2>1, CrashStep DEF InHand, InFlight, SameCounts
  <2>2. QED  BY <1>2, <2>1, CrashStep
<1>3. ASSUME NEW r \in Invocations,
             \/ PreFlightRefused(r) \/ NothingToWalk(r) \/ Begin(r) \/ ReadCursor(r)
             \/ CursorThrows(r) \/ SkipRecord(r) \/ ProcessRecord(r) \/ CancelBetween(r)
             \/ StreamThrows(r) \/ EndOfStream(r) \/ Persist(r) \/ PersistThrows(r)
             \/ FlushSnapshot(r) \/ FlushWrite(r) \/ FlushThrows(r) \/ Abort(r)
      PROVE  log' = log
  BY <1>3, CallStep, CursorStep, SkipStep, ProcessStep, LeaveStep, PersistStep, FlushStep,
     AbortStep
<1>4. QED  BY <1>1, <1>2, <1>3 DEF Next, Advance, vars

(* The lines of a log that has grown. *)
LEMMA GrownLines ==
  ASSUME TypeInv, NEW r \in Invocations, LogGrows(r)
  PROVE  /\ DOMAIN log = 1 .. Len(log) /\ Len(log) \in Nat
         /\ DOMAIN log \subseteq DOMAIN log'
         /\ \A k \in DOMAIN log' :
              \/ k \in DOMAIN log /\ SameRecord(log'[k], log[k])
              \/ k = Len(log) + 1 /\ SameRecord(log'[k], EntryOf(r))
<1>1. log \in Seq(AuditLine)
  BY DEF TypeInv, TypeOK
<1>2. CASE log' = log
  BY <1>1, <1>2 DEF SameRecord
<1>3. CASE Appended(log, EntryOf(r), log')
  BY <1>1, <1>3 DEF Appended, SameRecord
<1>4. CASE Spoiled(log, log')
  <2>1. PICK x \in AuditLine : /\ log # <<>> /\ SameRecord(x, log[Len(log)])
                               /\ log' = [log EXCEPT ![Len(log)] = x]
    BY <1>4 DEF Spoiled
  <2>2. QED  BY <1>1, <2>1 DEF SameRecord
<1>5. QED  BY <1>2, <1>3, <1>4 DEF LogGrows

LEMMA WalkedTypeAfter ==
  ASSUME TypeInv', NEW r \in Invocations
  PROVE  recordCount'[r] \in Nat /\ Walked(r)' \in Nat
BY RunnerConstants DEF TypeInv, TypeOK, Walked

LEMMA LineStays ==
  ASSUME TypeInv, TypeInv', LineInv, Forward,
         NEW k \in DOMAIN log, NEW q, q = log[k].by
  PROVE  /\ q \in Invocations /\ log[k].recordIndex \in Nat
         /\ log[k].recordIndex < Walked(q)'
         /\ log[k].recordIndex \notin skipSet'[q]
<1>1. q \in Invocations /\ log[k].recordIndex \in Nat
  BY LineTypes, RunnerConstants DEF AuditLine, Records
<1>2. Walked(q) \in Nat /\ Walked(q)' \in Nat
  BY <1>1, WalkedType, WalkedTypeAfter
<1>3. log[k].recordIndex < Walked(q) /\ log[k].recordIndex \notin skipSet[q]
  BY DEF LineInv
<1>4. Walked(q)' >= Walked(q) /\ (Walked(q) > 0 => skipSet'[q] = skipSet[q])
  BY <1>1 DEF Forward
<1>5. log[k].recordIndex < Walked(q)' /\ Walked(q) > 0
  BY <1>1, <1>2, <1>3, <1>4
<1>6. QED  BY <1>1, <1>3, <1>4, <1>5

LEMMA LineStep ==
  ASSUME TypeInv, TypeInv', CountInv, LineInv, [Next]_vars  PROVE LineInv'
<1> USE DEF OneOutcomePerRecord
<1>1. Forward
  BY WalksForward
<1>2. ASSUME NEW r \in Invocations, InHand(r)'  PROVE recordCount'[r] - 1 \notin skipSet'[r]
  BY <1>1, <1>2 DEF Forward, LineInv
<1>3. CASE log' = log
  BY <1>1, <1>2, <1>3, LineStays DEF LineInv
<1>4. CASE log' = <<>>
  BY <1>2, <1>4 DEF LineInv
<1>5. ASSUME NEW r \in Invocations, pc[r] = "append", ~InHand(r)', LogGrows(r),
             recordCount'[r] = recordCount[r], skipSet'[r] = skipSet[r]
      PROVE  LineInv'
  <2> DEFINE i == recordCount[r] - 1
  <2>1. InHand(r) /\ recordCount[r] \in Nat /\ i \notin skipSet[r]
    BY <1>5, WalkedType DEF InHand, LineInv
  <2>2. Walked(r) = i /\ Walked(r)' = recordCount[r] /\ i < Walked(r)'
    BY <1>5, <2>1 DEF Walked
  <2>3. EntryOf(r).by = r /\ EntryOf(r).recordIndex = i
    BY DEF EntryOf, AuditEntry
  <2>4. /\ DOMAIN log = 1 .. Len(log) /\ Len(log) \in Nat
        /\ \A k \in DOMAIN log' :
             \/ k \in DOMAIN log /\ SameRecord(log'[k], log[k])
             \/ k = Len(log) + 1 /\ SameRecord(log'[k], EntryOf(r))
    BY <1>5, GrownLines
  <2>5. ASSUME NEW k \in DOMAIN log', NEW q, q = log'[k].by
        PROVE  log'[k].recordIndex < Walked(q)' /\ log'[k].recordIndex \notin skipSet'[q]
    <3>1. CASE k \in DOMAIN log /\ SameRecord(log'[k], log[k])
      BY <1>1, <2>5, <3>1, LineStays DEF SameRecord
    <3>2. CASE k = Len(log) + 1 /\ SameRecord(log'[k], EntryOf(r))
      BY <1>5, <2>1, <2>2, <2>3, <2>5, <3>2 DEF SameRecord
    <3>3. QED  BY <2>4, <3>1, <3>2
  <2>6. ASSUME NEW k \in DOMAIN log', NEW l \in DOMAIN log', k < l, log'[k].by = log'[l].by
        PROVE  log'[k].recordIndex < log'[l].recordIndex
    <3>1. k \in DOMAIN log /\ SameRecord(log'[k], log[k])
      BY <2>4, <2>6
    <3>2. CASE l \in DOMAIN log /\ SameRecord(log'[l], log[l])
      BY <2>6, <3>1, <3>2 DEF LineInv, SameRecord
    <3>3. CASE l = Len(log) + 1 /\ SameRecord(log'[l], EntryOf(r))
      <4>1. log[k].by = r /\ log'[l].recordIndex = i
        BY <2>3, <2>6, <3>1, <3>3 DEF SameRecord
      <4>2. log[k].recordIndex < Walked(r)
        BY <3>1, <4>1 DEF LineInv
      <4>3. QED  BY <2>2, <3>1, <4>1, <4>2 DEF SameRecord
    <3>4. QED  BY <2>4, <3>2, <3>3
  <2>7. QED  BY <1>2, <2>5, <2>6 DEF LineInv
<1>6. QED  BY <1>3, <1>4, <1>5, LogStep

LEMMA LineInit == Init => LineInv
BY DEF Init, LineInv, OneOutcomePerRecord, InHand

LEMMA LineCorrect == Spec => [](TypeInv /\ CountInv /\ LineInv)
<1>1. TypeInv /\ TypeInv' /\ CountInv /\ LineInv /\ [Next]_vars => LineInv'
  BY LineStep
<1>2. Spec => [](TypeInv /\ CountInv)
  BY CountCorrect
<1>3. QED  BY <1>1, <1>2, LineInit, PTL DEF Spec

(* The lines of a call are in input order, one per record and none for a   *)
(* record it skipped, however many calls share the log (types.ts:130).     *)
THEOREM OneLinePerRecord == Spec => []OneOutcomePerRecord
<1>1. LineInv => OneOutcomePerRecord
  BY DEF LineInv
<1>2. QED  BY <1>1, LineCorrect, PTL

-----------------------------------------------------------------------------
(* The outcomes.  While the log is intact every record a call has settled  *)
(* has its line, and the first failure line is the failure a call reports. *)

NamedByFirst(r, class) == \E k \in FailureLines(r) :
  /\ log[k].classification = class
  /\ \A l \in FailureLines(r) : k <= l

Reported(r) ==
  /\ failureCount[r] > 0 <=> firstFailure[r] # "none"
  /\ SinkKind = "direct" => pc[r] \notin {"flush", "write"}
  /\ \/ result[r].status \in PipelineClasses
     \/ result[r].status = "persist_failed" /\ SinkKind = "direct"
     => result[r].status = firstFailure[r]

Blamed(r) ==
  IF firstFailure[r] = "none" THEN ~Interrupted(r) => FailureLines(r) = {}
                              ELSE NamedByFirst(r, firstFailure[r])

ReportInv == /\ \A r \in Invocations : Reported(r)
             /\ LogIntact => \A r \in Invocations : Blamed(r)

(* A log that is intact was intact before, and what was appended to it is  *)
(* a readable line of its own.                                             *)
LEMMA IntactStep ==
  ASSUME TypeInv, [Next]_vars, LogIntact'
  PROVE  /\ LogIntact
         /\ \/ log' = log
            \/ \E r \in Invocations, x \in AuditLine :
                 /\ pc[r] = "append" /\ Appended(log, EntryOf(r), log')
                 /\ log' = Append(log, x) /\ SameRecord(x, EntryOf(r)) /\ Readable(x)
<1>1. crashes \in Nat /\ crashes' \in {crashes, crashes + 1}
      /\ (Crash => crashes' = crashes + 1)
  <2>1. crashes \in Nat
    BY DEF TypeInv, TypeOK
  <2>2. Crash => crashes' = crashes + 1
    BY DEF Crash
  <2>3. ~Crash => crashes' = crashes
    BY CallStep, CursorStep, SkipStep, ProcessStep, LeaveStep, PersistStep, CountedStep,
       AppendThrowsStep, FlushStep, AbortStep DEF Next, Advance, vars, budget
  <2>4. QED  BY <2>1, <2>2, <2>3
<1>2. ~(Crash /\ AuditKind = "memory")
  BY <1>1 DEF LogIntact
<1>3. AuditKind = "memory" => crashes = 0
  BY <1>1 DEF LogIntact
<1>4. CASE log' = log
  BY <1>3, <1>4 DEF LogIntact, Malformed, Readable
<1>5. ASSUME NEW r \in Invocations, pc[r] = "append", Appended(log, EntryOf(r), log')
      PROVE  /\ LogIntact
             /\ \E x \in AuditLine :
                  log' = Append(log, x) /\ SameRecord(x, EntryOf(r)) /\ Readable(x)
  <2>1. PICK x \in AuditLine : log' = Append(log, x) /\ SameRecord(x, EntryOf(r))
    BY <1>5 DEF Appended
  <2>2. log \in Seq(AuditLine)
    BY DEF TypeInv, TypeOK
  <2>3. /\ \A k \in DOMAIN log : k \in DOMAIN log' /\ log'[k] = log[k]
        /\ Len(log) + 1 \in DOMAIN log' /\ log'[Len(log) + 1] = x
    BY <2>1, <2>2
  <2>4. ~Malformed(log) /\ Readable(x)
    BY <2>3 DEF LogIntact, Malformed, Readable
  <2>5. QED  BY <1>3, <2>1, <2>4 DEF LogIntact
<1>6. CASE Spoiled(log, log')
  <2>1. PICK x \in AuditLine : /\ log # <<>> /\ x.status = "unreadable"
                               /\ log' = [log EXCEPT ![Len(log)] = x]
    BY <1>6 DEF Spoiled
  <2>2. log \in Seq(AuditLine)
    BY DEF TypeInv, TypeOK
  <2>3. Len(log) \in DOMAIN log' /\ log'[Len(log)] = x
    BY <2>1, <2>2
  <2>4. QED  BY <2>1, <2>3 DEF LogIntact, Malformed, Readable
<1>7. QED  BY <1>2, <1>4, <1>5, <1>6, LogStep DEF LogGrows

LEMMA IntactLines ==
  ASSUME TypeInv, [Next]_vars, LogIntact'
  PROVE  /\ DOMAIN log = 1 .. Len(log) /\ Len(log) \in Nat
         /\ \A k \in DOMAIN log : k \in DOMAIN log' /\ log'[k] = log[k]
         /\ \A k \in DOMAIN log' : k \in DOMAIN log \/ k = Len(log) + 1
<1>1. log \in Seq(AuditLine)
  BY DEF TypeInv, TypeOK
<1>2. CASE log' = log
  BY <1>1, <1>2
<1>3. CASE \E x \in AuditLine : log' = Append(log, x)
  BY <1>1, <1>3
<1>4. QED  BY <1>2, <1>3, IntactStep

LEMMA IntactAppend ==
  ASSUME TypeInv, NEW r \in Invocations, AppendAudit(r), LogIntact'
  PROVE  /\ log' = Append(log, EntryOf(r))
         /\ Len(log) + 1 \in DOMAIN log' /\ log'[Len(log) + 1] = EntryOf(r)
<1>1. log \in Seq(AuditLine) /\ EntryOf(r) \in AuditLine
  BY EntryType DEF TypeInv, TypeOK, AppendAudit, InHand
<1>2. log' = AppendLine(log, EntryOf(r))
  BY DEF AppendAudit
<1>3. CASE EndsOpen(log)
  <2>1. log # <<>> /\ log[Len(log)] \in AuditLine /\ Len(log) \in DOMAIN log
    BY <1>1, <1>3 DEF EndsOpen
  <2>2. log' = [log EXCEPT ![Len(log)] =
                  [log[Len(log)] EXCEPT !.status = "unreadable", !.newline = TRUE]]
    BY <1>2, <1>3 DEF AppendLine, Spoil
  <2>3. Len(log) \in DOMAIN log' /\ log'[Len(log)].status = "unreadable"
    BY <2>1, <2>2 DEF AuditLine
  <2>4. QED  BY <2>3 DEF LogIntact, Malformed, Readable
<1>4. CASE ~EndsOpen(log)
  BY <1>1, <1>2, <1>4 DEF AppendLine
<1>5. QED  BY <1>3, <1>4

(* A call that is over stays as it is.                                     *)
LEMMA OverStays ==
  ASSUME TypeInv, [Next]_vars, NEW q \in Invocations, pc[q] \in {"done", "crashed"}
  PROVE  SameCall(q)
<1>1. ASSUME NEW r \in Invocations, pc[r] \notin {"done", "crashed"}, OthersSame(r)
      PROVE  SameCall(q)
  BY <1>1 DEF OthersSame
<1>2. CASE Crash
  BY <1>2, CrashStep DEF InFlight, SameCall
<1>3. CASE UNCHANGED vars
  BY <1>3 DEF vars, settings, walk, tally, output, SameCall, SameCounts
<1>4. ASSUME NEW r \in Invocations,
             \/ PreFlightRefused(r) \/ NothingToWalk(r) \/ Begin(r) \/ ReadCursor(r)
             \/ CursorThrows(r) \/ SkipRecord(r) \/ ProcessRecord(r) \/ CancelBetween(r)
             \/ StreamThrows(r) \/ EndOfStream(r) \/ Persist(r) \/ PersistThrows(r)
      PROVE  SameCall(q)
  BY <1>1, <1>4, CallStep, CursorStep, SkipStep, ProcessStep, LeaveStep, PersistStep
<1>5. ASSUME NEW r \in Invocations,
             \/ AppendAudit(r) \/ AppendThrows(r)
             \/ FlushSnapshot(r) \/ FlushWrite(r) \/ FlushThrows(r)
      PROVE  SameCall(q)
  BY <1>1, <1>5, CountedStep, AppendThrowsStep, FlushStep
<1>6. QED  BY <1>2, <1>3, <1>4, <1>5, AbortStep DEF Next, Advance

LEMMA InterruptedStays ==
  ASSUME TypeInv, CountInv, [Next]_vars, NEW q \in Invocations, Interrupted(q)
  PROVE  Interrupted(q)' /\ SameCounts(q)
<1>1. pc[q] \in {"done", "crashed"}
  BY DEF CountInv, Unstarted, Interrupted
<1>2. QED  BY <1>1, OverStays DEF SameCall, Interrupted

(* Every record that a step settles is skipped, or audited in that step.   *)
Bound(r) == recordCount[r] - IF InHand(r) \/ Interrupted(r) THEN 1 ELSE 0

SettledAsBefore(q, i) == i < Bound(q) /\ skipSet'[q] = skipSet[q]

LEMMA BoundSame ==
  ASSUME TypeInv, CountInv, [Next]_vars, NEW q \in Invocations, SameCounts(q),
         ~InHand(q) \/ InHand(q)' \/ Interrupted(q)',
         NEW i \in Nat, i < Bound(q)'
  PROVE  SettledAsBefore(q, i)
<1>1. recordCount[q] \in Nat
  BY WalkedType
<1>2. Interrupted(q) => Interrupted(q)'
  BY InterruptedStays
<1>3. CASE InHand(q) \/ Interrupted(q)
  BY <1>1, <1>2, <1>3 DEF Bound, SameCounts, SettledAsBefore
<1>4. CASE ~(InHand(q) \/ Interrupted(q))
  BY <1>1, <1>4 DEF Bound, SameCounts, SettledAsBefore
<1>5. QED  BY <1>3, <1>4

LEMMA SettleStep ==
  ASSUME TypeInv, CountInv, [Next]_vars, NEW q \in Invocations,
         NEW i \in Nat, i < Bound(q)'
  PROVE  \/ SettledAsBefore(q, i)
         \/ i \in skipSet'[q]
         \/ AppendAudit(q) /\ i = recordCount[q] - 1 /\ skipSet'[q] = skipSet[q]
<1>1. ASSUME SameCall(q)  PROVE SettledAsBefore(q, i)
  BY <1>1, BoundSame DEF SameCall, InHand
<1>2. ASSUME NEW r \in Invocations, r # q, OthersSame(r)  PROVE SettledAsBefore(q, i)
  BY <1>1, <1>2 DEF OthersSame
<1>3. ASSUME SameCounts(q), ~InHand(q) \/ InHand(q)' \/ Interrupted(q)'
      PROVE  SettledAsBefore(q, i)
  BY <1>3, BoundSame
<1>4. ASSUME NEW r \in Invocations,
             PreFlightRefused(r) \/ NothingToWalk(r) \/ Begin(r)
      PROVE  SettledAsBefore(q, i)
  BY <1>2, <1>3, <1>4, CallStep DEF InHand
<1>5. ASSUME NEW r \in Invocations, ReadCursor(r) \/ CursorThrows(r)
      PROVE  SettledAsBefore(q, i)
  <2>1. CASE r = q
    <3>1. recordCount'[q] = 0
      BY <1>5, <2>1, CursorStep DEF CountInv, Unstarted
    <3>2. CASE InHand(q)' \/ Interrupted(q)'
      BY <3>1, <3>2 DEF Bound
    <3>3. CASE ~(InHand(q)' \/ Interrupted(q)')
      BY <3>1, <3>3 DEF Bound
    <3>4. QED  BY <3>2, <3>3
  <2>2. QED  BY <1>2, <1>5, <2>1, CursorStep
<1>6. ASSUME NEW r \in Invocations, SkipRecord(r)
      PROVE  SettledAsBefore(q, i) \/ i \in skipSet'[q]
  <2>1. CASE r = q
    <3>1. /\ recordCount[q] \in Nat /\ recordCount'[q] = recordCount[q] + 1
          /\ recordCount[q] \in skipSet'[q] /\ skipSet'[q] = skipSet[q]
      BY <1>6, <2>1, SkipStep, WalkedType
    <3>2. ~InHand(q) /\ ~InHand(q)' /\ ~Interrupted(q) /\ ~Interrupted(q)'
      BY <1>6, <2>1, SkipStep DEF CountInv, Unstarted, InHand, Interrupted, Stays
    <3>3. i < recordCount[q] + 1 /\ Bound(q) = recordCount[q]
      BY <3>1, <3>2 DEF Bound
    <3>4. i < recordCount[q] \/ i = recordCount[q]
      BY <3>1, <3>3
    <3>5. QED  BY <3>1, <3>3, <3>4 DEF SettledAsBefore
  <2>2. QED  BY <1>2, <1>6, <2>1, SkipStep
<1>7. ASSUME NEW r \in Invocations, ProcessRecord(r)  PROVE SettledAsBefore(q, i)
  <2>1. CASE r = q
    <3>1. /\ recordCount[q] \in Nat /\ recordCount'[q] = recordCount[q] + 1
          /\ skipSet'[q] = skipSet[q]
      BY <1>7, <2>1, ProcessStep, WalkedType
    <3>2. ~InHand(q) /\ InHand(q)' /\ ~Interrupted(q)
      BY <1>7, <2>1, ProcessStep DEF CountInv, Unstarted, InHand, Interrupted, Stays
    <3>3. i < (recordCount[q] + 1) - 1 /\ Bound(q) = recordCount[q]
      BY <3>1, <3>2 DEF Bound
    <3>4. QED  BY <3>1, <3>3 DEF SettledAsBefore
  <2>2. QED  BY <1>2, <1>7, <2>1, ProcessStep
<1>8. ASSUME NEW r \in Invocations, CancelBetween(r) \/ StreamThrows(r) \/ EndOfStream(r)
      PROVE  SettledAsBefore(q, i)
  BY <1>2, <1>3, <1>8, LeaveStep DEF InHand
<1>9. ASSUME NEW r \in Invocations, Persist(r) \/ PersistThrows(r)
      PROVE  SettledAsBefore(q, i)
  BY <1>2, <1>3, <1>9, PersistStep DEF InHand, Stays
<1>10. ASSUME NEW r \in Invocations, AppendAudit(r)
       PROVE  \/ SettledAsBefore(q, i)
              \/ AppendAudit(q) /\ i = recordCount[q] - 1 /\ skipSet'[q] = skipSet[q]
  <2>1. CASE r = q
    <3>1. /\ recordCount[q] \in Nat /\ recordCount'[q] = recordCount[q]
          /\ skipSet'[q] = skipSet[q] /\ InHand(q)
      BY <1>10, <2>1, CountedStep, WalkedType DEF InHand
    <3>2. Bound(q) = recordCount[q] - 1 /\ i < recordCount[q]
      <4>1. CASE InHand(q)' \/ Interrupted(q)'
        BY <3>1, <4>1 DEF Bound
      <4>2. CASE ~(InHand(q)' \/ Interrupted(q)')
        BY <3>1, <4>2 DEF Bound
      <4>3. QED  BY <4>1, <4>2
    <3>3. i < recordCount[q] - 1 \/ i = recordCount[q] - 1
      BY <3>1, <3>2
    <3>4. QED  BY <1>10, <2>1, <3>1, <3>2, <3>3 DEF SettledAsBefore
  <2>2. QED  BY <1>2, <1>10, <2>1, CountedStep
<1>11. ASSUME NEW r \in Invocations, AppendThrows(r)  PROVE SettledAsBefore(q, i)
  BY <1>2, <1>3, <1>11, AppendThrowsStep DEF Interrupted, Returns
<1>12. ASSUME NEW r \in Invocations, FlushSnapshot(r) \/ FlushWrite(r) \/ FlushThrows(r)
       PROVE  SettledAsBefore(q, i)
  BY <1>2, <1>3, <1>12, FlushStep DEF InHand
<1>13. CASE Crash
  BY <1>3, <1>13, CrashStep DEF InHand, Interrupted, InFlight
<1>14. CASE UNCHANGED vars
  BY <1>1, <1>14 DEF vars, settings, walk, tally, output, SameCall, SameCounts
<1>15. QED  BY <1>1, <1>4, <1>5, <1>6, <1>7, <1>8, <1>9, <1>10, <1>11, <1>12, <1>13, <1>14,
               AbortStep DEF Next, Advance

LEMMA AuditStep ==
  ASSUME TypeInv, TypeInv', CountInv, LineInv, EveryOutcomeAudited, [Next]_vars
  PROVE  EveryOutcomeAudited'
<1> SUFFICES ASSUME LogIntact', NEW r \in Invocations, NEW i \in Records,
                    i < Bound(r)', i \notin skipSet'[r]
             PROVE  \E k \in DOMAIN log' :
                      log'[k].by = r /\ Readable(log'[k]) /\ log'[k].recordIndex = i
  BY DEF EveryOutcomeAudited, Settled, LinesBy, Bound
<1>1. i \in Nat
  BY RunnerConstants DEF Records
<1>2. LogIntact
  BY IntactStep
<1>3. CASE i < Bound(r) /\ skipSet'[r] = skipSet[r]
  <2>1. i \in Settled(r) \ skipSet[r]
    BY <1>3 DEF Settled, Bound
  <2>2. \E k \in LinesBy(r) : log[k].recordIndex = i
    BY <1>2, <2>1 DEF EveryOutcomeAudited
  <2>3. QED  BY <2>2, IntactLines DEF LinesBy
<1>4. CASE AppendAudit(r) /\ i = recordCount[r] - 1 /\ skipSet'[r] = skipSet[r]
  <2>1. Len(log) + 1 \in DOMAIN log' /\ log'[Len(log) + 1] = EntryOf(r)
    BY <1>4, IntactAppend
  <2>2. EntryOf(r).by = r /\ EntryOf(r).recordIndex = i /\ Readable(EntryOf(r))
    BY <1>4 DEF EntryOf, AuditEntry, Readable
  <2>3. QED  BY <2>1, <2>2
<1>5. QED  BY <1>1, <1>3, <1>4, SettleStep DEF SettledAsBefore

LEMMA AuditInit == Init => EveryOutcomeAudited
<1> SUFFICES ASSUME Init, NEW r \in Invocations  PROVE Settled(r) = {}
  BY DEF EveryOutcomeAudited
<1>1. recordCount[r] = 0 /\ ~InHand(r) /\ ~Interrupted(r)
  BY DEF Init, InHand, Interrupted, NoResult
<1>2. \A i \in Records : i \in Nat
  BY RunnerConstants DEF Records
<1>3. QED  BY <1>1, <1>2 DEF Settled

(* Every record a call has settled and not skipped has a readable line of  *)
(* that call, while no line is torn and the log is not lost (types.ts:111).*)
THEOREM OutcomesAudited == Spec => []EveryOutcomeAudited
<1>1. TypeInv /\ TypeInv' /\ CountInv /\ LineInv /\ EveryOutcomeAudited /\ [Next]_vars
        => EveryOutcomeAudited'
  BY AuditStep
<1>2. Spec => [](TypeInv /\ CountInv /\ LineInv)
  BY LineCorrect
<1>3. QED  BY <1>1, <1>2, AuditInit, PTL DEF Spec

(* Failures change at an append only, and the first one stays the first.   *)
FailsNow(q) ==
  /\ AppendAudit(q) /\ outcome[q] # "success"
  /\ failureCount'[q] = failureCount[q] + 1 /\ firstFailure'[q] = FirstFailure(q)

LEMMA FailureStep ==
  ASSUME TypeInv, [Next]_vars, NEW q \in Invocations
  PROVE  \/ failureCount'[q] = failureCount[q] /\ firstFailure'[q] = firstFailure[q]
         \/ FailsNow(q)
<1> DEFINE Same == failureCount'[q] = failureCount[q] /\ firstFailure'[q] = firstFailure[q]
<1>1. ASSUME NEW r \in Invocations, r # q, OthersSame(r)  PROVE Same
  BY <1>1 DEF OthersSame, SameCall, SameCounts
<1>2. ASSUME NEW r \in Invocations, AppendAudit(r)  PROVE Same \/ FailsNow(q)
  <2>1. CASE r = q
    BY <1>2, <2>1, CountedStep DEF FailsNow
  <2>2. QED  BY <1>1, <1>2, <2>1, CountedStep
<1>3. ASSUME NEW r \in Invocations,
             \/ PreFlightRefused(r) \/ NothingToWalk(r) \/ Begin(r) \/ ReadCursor(r)
             \/ CursorThrows(r) \/ SkipRecord(r) \/ ProcessRecord(r) \/ CancelBetween(r)
             \/ StreamThrows(r) \/ EndOfStream(r) \/ Persist(r) \/ PersistThrows(r)
             \/ AppendThrows(r) \/ FlushSnapshot(r) \/ FlushWrite(r) \/ FlushThrows(r)
             \/ Abort(r)
      PROVE  Same
  BY <1>3, CallStep, CursorStep, SkipStep, ProcessStep, LeaveStep, PersistStep,
     AppendThrowsStep, FlushStep, AbortStep DEF tally
<1>4. CASE Crash
  BY <1>4, CrashStep DEF SameCounts
<1>5. CASE UNCHANGED vars
  BY <1>5 DEF vars, tally
<1>6. QED  BY <1>2, <1>3, <1>4, <1>5 DEF Next, Advance

(* What a call returns: nothing yet, or a status that names its first      *)
(* failure, or one that is not a record's.                                 *)
RunStatuses == {"success", "cancelled", "pre_flight_failed", "adapter_init_failed"}

LEMMA ResultStep ==
  ASSUME TypeInv, ReportInv, [Next]_vars, NEW q \in Invocations
  PROVE  /\ \/ result'[q] = result[q]
            \/ result'[q].status \in RunStatuses
            \/ result'[q].status = firstFailure'[q]
            \/ result'[q].status = "persist_failed" /\ SinkKind = "buffered"
         /\ SinkKind = "direct" => pc'[q] \notin {"flush", "write"}
<1> DEFINE Fine ==
      /\ \/ result'[q] = result[q]
         \/ result'[q].status \in RunStatuses
         \/ result'[q].status = firstFailure'[q]
         \/ result'[q].status = "persist_failed" /\ SinkKind = "buffered"
      /\ SinkKind = "direct" => pc'[q] \notin {"flush", "write"}
<1>1. SinkKind = "direct" => pc[q] \notin {"flush", "write"}
  BY DEF ReportInv, Reported
<1>2. ASSUME SameCall(q)  PROVE Fine
  BY <1>1, <1>2 DEF SameCall
<1>3. ASSUME NEW r \in Invocations, r # q, OthersSame(r)  PROVE Fine
  BY <1>2, <1>3 DEF OthersSame
<1>4. ASSUME NEW r \in Invocations,
             PreFlightRefused(r) \/ NothingToWalk(r) \/ Begin(r)
      PROVE  Fine
  <2>1. CASE r = q
    BY <1>4, <2>1, CallStep DEF Stays, Returns, RunStatuses
  <2>2. QED  BY <1>3, <1>4, <2>1, CallStep
<1>5. ASSUME NEW r \in Invocations, ReadCursor(r) \/ CursorThrows(r)  PROVE Fine
  <2>1. CASE r = q
    BY <1>5, <2>1, CursorStep DEF Stays, Returns, RunStatuses
  <2>2. QED  BY <1>3, <1>5, <2>1, CursorStep
<1>6. ASSUME NEW r \in Invocations, SkipRecord(r) \/ ProcessRecord(r) \/ Persist(r) \/ PersistThrows(r)
      PROVE  Fine
  <2>1. CASE r = q
    BY <1>6, <2>1, SkipStep, ProcessStep, PersistStep DEF Stays
  <2>2. QED  BY <1>3, <1>6, <2>1, SkipStep, ProcessStep, PersistStep
<1>7. ASSUME NEW r \in Invocations, CancelBetween(r) \/ StreamThrows(r) \/ EndOfStream(r)
      PROVE  Fine
  <2>1. CASE r = q
    BY <1>7, <2>1, LeaveStep
    DEF Stays, Returns, Concludes, RunStatuses, SameCounts, MustFlush
  <2>2. QED  BY <1>3, <1>7, <2>1, LeaveStep
<1>8. ASSUME NEW r \in Invocations, AppendAudit(r)  PROVE Fine
  <2>1. CASE r = q
    BY <1>8, <2>1, CountedStep DEF Stays, Returns
  <2>2. QED  BY <1>3, <1>8, <2>1, CountedStep
<1>9. ASSUME NEW r \in Invocations, AppendThrows(r)  PROVE Fine
  <2>1. CASE r = q
    BY <1>9, <2>1, AppendThrowsStep DEF Returns, RunStatuses
  <2>2. QED  BY <1>3, <1>9, <2>1, AppendThrowsStep
<1>10. ASSUME NEW r \in Invocations, FlushSnapshot(r) \/ FlushWrite(r) \/ FlushThrows(r)
       PROVE  Fine
  <2>1. CASE r = q
    <3>1. SinkKind = "buffered"
      BY <1>1, <1>10, <2>1, RunnerConstants DEF FlushSnapshot, FlushWrite, FlushThrows
    <3>2. QED  BY <1>10, <2>1, <3>1, FlushStep
               DEF Stays, Returns, Concludes, RunStatuses, SameCounts
  <2>2. QED  BY <1>3, <1>10, <2>1, FlushStep
<1>11. CASE Crash
  BY <1>1, <1>11, CrashStep
<1>12. CASE UNCHANGED vars
  BY <1>2, <1>12 DEF vars, settings, walk, tally, output, SameCall, SameCounts
<1>13. QED  BY <1>2, <1>4, <1>5, <1>6, <1>7, <1>8, <1>9, <1>10, <1>11, <1>12, AbortStep
       DEF Next, Advance

LEMMA ReportedStep ==
  ASSUME TypeInv, CountInv, ReportInv, [Next]_vars, NEW q \in Invocations
  PROVE  Reported(q)'
<1>1. Reported(q) /\ Unstarted(q)
  BY DEF ReportInv, CountInv
<1>2. failureCount'[q] > 0 <=> firstFailure'[q] # "none"
  <2>1. CASE FailsNow(q)
    <3>1. failureCount[q] \in Nat /\ outcome[q] \in Outcomes
      BY DEF TypeInv, TypeOK
    <3>2. failureCount'[q] > 0
      BY <2>1, <3>1 DEF FailsNow
    <3>3. FirstFailure(q) # "none"
      BY <3>1, <2>1 DEF FailsNow, FirstFailure, Outcomes, RecordClasses, PipelineClasses
    <3>4. QED  BY <2>1, <3>2, <3>3 DEF FailsNow
  <2>2. CASE ~FailsNow(q)
    BY <1>1, <2>2, FailureStep DEF Reported
  <2>3. QED  BY <2>1, <2>2
<1>3. ASSUME \/ result'[q].status \in PipelineClasses
             \/ result'[q].status = "persist_failed" /\ SinkKind = "direct"
      PROVE  result'[q].status = firstFailure'[q]
  <2>1. CASE result'[q] = result[q]
    <3>1. result[q].status = firstFailure[q] /\ result[q].status # "none"
      BY <1>1, <1>3, <2>1 DEF Reported, PipelineClasses
    <3>2. pc[q] = "done"
      BY <1>1, <3>1 DEF Unstarted
    <3>3. firstFailure'[q] = firstFailure[q]
      BY <3>2, OverStays DEF SameCall, SameCounts
    <3>4. QED  BY <2>1, <3>1, <3>3
  <2>2. CASE result'[q] # result[q]
    BY <1>3, <2>2, ResultStep DEF RunStatuses, PipelineClasses
  <2>3. QED  BY <2>1, <2>2
<1>4. SinkKind = "direct" => pc'[q] \notin {"flush", "write"}
  BY ResultStep
<1>5. QED  BY <1>2, <1>3, <1>4 DEF Reported

(* The first failure line stays the first one when lines are added.        *)
LEMMA NamedStays ==
  ASSUME TypeInv, [Next]_vars, LogIntact', NEW q, NEW c, NamedByFirst(q, c)
  PROVE  NamedByFirst(q, c)'
<1>1. PICK k \in FailureLines(q) : /\ log[k].classification = c
                                   /\ \A l \in FailureLines(q) : k <= l
  BY DEF NamedByFirst
<1>2. /\ DOMAIN log = 1 .. Len(log) /\ Len(log) \in Nat
      /\ \A l \in DOMAIN log : l \in DOMAIN log' /\ log'[l] = log[l]
      /\ \A l \in DOMAIN log' : l \in DOMAIN log \/ l = Len(log) + 1
  BY IntactLines
<1>3. k \in FailureLines(q)' /\ log'[k].classification = c /\ k \in 1 .. Len(log)
  BY <1>1, <1>2 DEF FailureLines, LinesBy
<1>4. ASSUME NEW l \in FailureLines(q)'  PROVE k <= l
  <2>1. l \in DOMAIN log'
    BY DEF FailureLines, LinesBy
  <2>2. CASE l \in DOMAIN log
    <3>1. l \in FailureLines(q)
      BY <1>2, <2>2 DEF FailureLines, LinesBy
    <3>2. QED  BY <1>1, <3>1
  <2>3. CASE l = Len(log) + 1
    BY <1>2, <1>3, <2>3
  <2>4. QED  BY <1>2, <2>1, <2>2, <2>3
<1>5. QED  BY <1>3, <1>4 DEF NamedByFirst

(* A failure line that is new is the entry of the record that fails now,   *)
(* or its call is broken off.                                              *)
LEMMA NewFailureLine ==
  ASSUME TypeInv, [Next]_vars, LogIntact', NEW q \in Invocations, ~Interrupted(q)',
         NEW k \in FailureLines(q)', k \notin FailureLines(q)
  PROVE  FailsNow(q)
<1>1. log' # log
  BY DEF FailureLines, LinesBy
<1>2. PICK r \in Invocations, x \in AuditLine :
        /\ pc[r] = "append" /\ log' = Append(log, x) /\ SameRecord(x, EntryOf(r))
  BY <1>1, IntactStep
<1>3. k = Len(log) + 1 /\ log'[k] = x
  <2>1. log \in Seq(AuditLine)
    BY DEF TypeInv, TypeOK
  <2>2. k \notin DOMAIN log
    BY IntactLines DEF FailureLines, LinesBy
  <2>3. k \in DOMAIN log'
    BY DEF FailureLines, LinesBy
  <2>4. QED  BY <1>2, <2>1, <2>2, <2>3
<1>4. r = q
  BY <1>2, <1>3 DEF SameRecord, EntryOf, AuditEntry, FailureLines, LinesBy
<1>5. CASE AppendAudit(q)
  <2>1. log'[k] = EntryOf(q)
    BY <1>3, <1>5, IntactAppend
  <2>2. EntryOf(q).status = "failure"
    BY <2>1 DEF FailureLines
  <2>3. outcome[q] # "success"
    BY <2>2 DEF EntryOf, AuditEntry
  <2>4. QED  BY <1>5, <2>3, CountedStep DEF FailsNow
<1>6. CASE ~AppendAudit(q)
  <2>1. pc[q] = "append"
    BY <1>2, <1>4
  <2>2. ASSUME NEW p \in Invocations, p # q, OthersSame(p)  PROVE pc'[q] = "append"
    BY <2>1, <2>2 DEF OthersSame, SameCall
  <2>3. ASSUME AppendThrows(q) \/ Crash  PROVE FALSE
    BY <2>1, <2>3, AppendThrowsStep, CrashStep DEF Interrupted, Returns, InFlight
  <2>4. \E p \in Invocations : AppendAudit(p) \/ AppendThrows(p)
    <3>1. ASSUME NEW p \in Invocations,
                 \/ PreFlightRefused(p) \/ NothingToWalk(p) \/ Begin(p) \/ ReadCursor(p)
                 \/ CursorThrows(p) \/ SkipRecord(p) \/ ProcessRecord(p) \/ CancelBetween(p)
                 \/ StreamThrows(p) \/ EndOfStream(p) \/ Persist(p) \/ PersistThrows(p)
                 \/ FlushSnapshot(p) \/ FlushWrite(p) \/ FlushThrows(p) \/ Abort(p)
          PROVE  log' = log
      BY <3>1, CallStep, CursorStep, SkipStep, ProcessStep, LeaveStep, PersistStep, FlushStep,
         AbortStep
    <3>2. QED  BY <1>1, <2>3, <3>1 DEF Next, Advance, vars
  <2>5. PICK p \in Invocations : AppendAudit(p) \/ AppendThrows(p)
    BY <2>4
  <2>6. p # q
    BY <1>6, <2>3, <2>5
  <2>7. log' = log \/ Appended(log, EntryOf(p), log') \/ Spoiled(log, log')
    BY <2>5, CountedStep, AppendThrowsStep DEF LogGrows
  <2>8. \A l \in DOMAIN log' : l \in DOMAIN log \/ log'[l].by = p
    <3>1. CASE Appended(log, EntryOf(p), log')
      <4>1. PICK y \in AuditLine : log' = Append(log, y) /\ SameRecord(y, EntryOf(p))
        BY <3>1 DEF Appended
      <4>2. y.by = p
        BY <4>1 DEF SameRecord, EntryOf, AuditEntry
      <4>3. log \in Seq(AuditLine)
        BY DEF TypeInv, TypeOK
      <4>4. QED  BY <4>1, <4>2, <4>3
    <3>2. CASE Spoiled(log, log')
      BY <3>2 DEF Spoiled, TypeInv, TypeOK
    <3>3. QED  BY <1>1, <2>7, <3>1, <3>2
  <2>9. k \in DOMAIN log' /\ k \notin DOMAIN log /\ log'[k].by = q
    BY IntactLines DEF FailureLines, LinesBy
  <2>10. QED  BY <2>6, <2>8, <2>9
<1>7. QED  BY <1>5, <1>6

LEMMA BlamedStep ==
  ASSUME TypeInv, CountInv, ReportInv, [Next]_vars, LogIntact', NEW q \in Invocations
  PROVE  Blamed(q)'
<1>1. LogIntact /\ Blamed(q)
  BY IntactStep DEF ReportInv
<1>2. PICK c : c = firstFailure[q]
  OBVIOUS
<1>3. CASE c # "none"
  <2>1. NamedByFirst(q, c)'
    BY <1>1, <1>2, <1>3, NamedStays DEF Blamed
  <2>2. firstFailure'[q] = c
    BY <1>2, <1>3, FailureStep DEF FailsNow, FirstFailure
  <2>3. QED  BY <1>3, <2>1, <2>2 DEF Blamed
<1>4. CASE c = "none" /\ FailsNow(q)
  <2>1. pc[q] = "append" /\ ~Interrupted(q)
    BY <1>4 DEF FailsNow, AppendAudit, CountInv, Unstarted, Interrupted
  <2>2. FailureLines(q) = {}
    BY <1>1, <1>2, <1>4, <2>1 DEF Blamed
  <2>3. Len(log) + 1 \in DOMAIN log' /\ log'[Len(log) + 1] = EntryOf(q)
    BY <1>4, IntactAppend DEF FailsNow
  <2>4. /\ EntryOf(q).by = q /\ EntryOf(q).status = "failure"
        /\ EntryOf(q).classification = outcome[q]
    BY <1>4 DEF FailsNow, EntryOf, AuditEntry
  <2>5. firstFailure'[q] = outcome[q] /\ outcome[q] # "none"
    <3>1. outcome[q] \in Outcomes
      BY DEF TypeInv, TypeOK
    <3>2. QED  BY <1>2, <1>4, <3>1
               DEF FailsNow, FirstFailure, Outcomes, RecordClasses, PipelineClasses
  <2>6. Len(log) + 1 \in FailureLines(q)'
    BY <2>3, <2>4 DEF FailureLines, LinesBy, Readable
  <2>7. \A l \in FailureLines(q)' : l = Len(log) + 1
    <3> TAKE l \in FailureLines(q)'
    <3>1. l \in DOMAIN log'
      BY DEF FailureLines, LinesBy
    <3>2. l \notin DOMAIN log
      BY <2>2, IntactLines DEF FailureLines, LinesBy
    <3>3. QED  BY <3>1, <3>2, IntactLines
  <2>8. \A l \in FailureLines(q)' : Len(log) + 1 <= l
    BY <2>7, IntactLines
  <2>9. log'[Len(log) + 1].classification = firstFailure'[q]
    BY <2>3, <2>4, <2>5
  <2>10. \E k \in FailureLines(q)' : /\ log'[k].classification = firstFailure'[q]
                                     /\ \A l \in FailureLines(q)' : k <= l
    BY <2>6, <2>8, <2>9
  <2>11. QED  BY <2>5, <2>10 DEF Blamed, NamedByFirst
<1>5. CASE c = "none" /\ ~FailsNow(q)
  <2>1. firstFailure'[q] = "none"
    BY <1>2, <1>5, FailureStep
  <2>2. ASSUME ~Interrupted(q)', NEW k \in FailureLines(q)'  PROVE FALSE
    <3>1. ~Interrupted(q)
      BY <2>2, InterruptedStays
    <3>2. FailureLines(q) = {}
      BY <1>1, <1>2, <1>5, <3>1 DEF Blamed
    <3>3. QED  BY <1>5, <2>2, <3>2, NewFailureLine
  <2>3. QED  BY <2>1, <2>2 DEF Blamed
<1>6. QED  BY <1>3, <1>4, <1>5

LEMMA ReportInit == Init => ReportInv
BY DEF Init, ReportInv, Reported, Blamed, Interrupted, FailureLines, LinesBy, NoResult,
   PipelineClasses

LEMMA ReportStep ==
  ASSUME TypeInv, CountInv, ReportInv, [Next]_vars  PROVE ReportInv'
BY ReportedStep, BlamedStep DEF ReportInv

(* The classification a failed walk returns is that of the first failure   *)
(* line of the call (runner.ts:241-246 and :287-292).                      *)
THEOREM FirstFailureNamed == Spec => []FirstFailureReported
<1>1. TypeInv /\ CountInv /\ ReportInv /\ [Next]_vars => ReportInv'
  BY ReportStep
<1>2. TypeInv /\ ReportInv => FirstFailureReported
  <2> SUFFICES ASSUME TypeInv, ReportInv, LogIntact, NEW r \in Invocations,
                      \/ result[r].status \in PipelineClasses
                      \/ result[r].status = "persist_failed" /\ SinkKind = "direct"
               PROVE  NamedByFirst(r, result[r].status)
    BY DEF FirstFailureReported, NamedByFirst
  <2>1. result[r].status = firstFailure[r] /\ Blamed(r)
    BY DEF ReportInv, Reported
  <2>2. result[r].status # "none"
    BY DEF PipelineClasses
  <2>3. QED  BY <2>1, <2>2 DEF Blamed
<1>3. Spec => [](TypeInv /\ CountInv)
  BY CountCorrect
<1>4. QED  BY <1>1, <1>2, <1>3, ReportInit, PTL DEF Spec

-----------------------------------------------------------------------------
(* The flush.  A call comes to it at the end of the stream only, and under *)
(* onError "stop" without a failure, since a failure would have ended it.  *)

Flushed(r) ==
  /\ opts[r].onError = "stop" /\ pc[r] \notin {"done", "crashed"} => failureCount[r] = 0
  /\ pc[r] \in {"flush", "write"} =>
       recordCount[r] = NumRecords /\ opts[r].mode = "execute" /\ SinkKind = "buffered"
  /\ snapshot[r] # <<>> =>
       /\ pc[r] \in {"write", "done", "crashed"}
       /\ recordCount[r] = NumRecords
       /\ result[r].status \notin {"cancelled", "adapter_init_failed"}
       /\ opts[r].onError = "stop" => failureCount[r] = 0

FlushInv == \A r \in Invocations : Flushed(r)

LEMMA FlushedSame ==
  ASSUME FlushInv, NEW q \in Invocations, SameCall(q)  PROVE Flushed(q)'
BY DEF FlushInv, Flushed, SameCall, SameCounts

LEMMA FlushByCall ==
  ASSUME FlushInv, NEW r \in Invocations, OthersSame(r), Flushed(r)'  PROVE FlushInv'
BY FlushedSame DEF FlushInv, OthersSame

(* Before the flush nothing has been taken from the buffer.                *)
LEMMA NothingTaken ==
  ASSUME FlushInv, NEW r \in Invocations,
         pc[r] \in {"idle", "cursor", "pull", "persist", "append", "flush"}
  PROVE  snapshot[r] = <<>>
BY DEF FlushInv, Flushed

LEMMA FlushInvStep ==
  ASSUME TypeInv, CountInv, FlushInv, [Next]_vars  PROVE FlushInv'
<1>1. ASSUME NEW r \in Invocations, PreFlightRefused(r) \/ NothingToWalk(r) \/ Begin(r)
      PROVE  FlushInv'
  <2>1. /\ pc[r] = "idle" /\ pc'[r] \in {"cursor", "pull", "done"} /\ OthersSame(r)
        /\ SameCounts(r) /\ snapshot'[r] = snapshot[r]
    BY <1>1, CallStep DEF Stays, Returns, output
  <2>2. failureCount[r] = 0 /\ snapshot[r] = <<>>
    BY <2>1, NothingTaken DEF CountInv, Unstarted
  <2>3. Flushed(r)'
    BY <2>1, <2>2 DEF Flushed, SameCounts
  <2>4. QED  BY <2>1, <2>3, FlushByCall
<1>2. ASSUME NEW r \in Invocations,
             \/ ReadCursor(r) \/ CursorThrows(r) \/ SkipRecord(r) \/ ProcessRecord(r)
             \/ Persist(r) \/ PersistThrows(r) \/ AppendThrows(r)
      PROVE  FlushInv'
  <2>1. /\ pc[r] \in {"cursor", "pull", "persist", "append"}
        /\ pc'[r] \in {"pull", "persist", "append", "done"}
        /\ opts'[r] = opts[r] /\ failureCount'[r] = failureCount[r]
        /\ snapshot'[r] = snapshot[r] /\ OthersSame(r)
    BY <1>2, CursorStep, SkipStep, ProcessStep, PersistStep, AppendThrowsStep
    DEF Stays, Returns, tally, output
  <2>2. snapshot[r] = <<>>
    BY <2>1, NothingTaken
  <2>3. Flushed(r)'
    BY <2>1, <2>2 DEF FlushInv, Flushed
  <2>4. QED  BY <2>1, <2>3, FlushByCall
<1>3. ASSUME NEW r \in Invocations, CancelBetween(r) \/ StreamThrows(r) \/ EndOfStream(r)
      PROVE  FlushInv'
  <2>1. /\ pc[r] = "pull" /\ SameCounts(r) /\ opts'[r] = opts[r]
        /\ snapshot'[r] = snapshot[r] /\ OthersSame(r)
        /\ \/ pc'[r] = "done"
           \/ pc'[r] = "flush" /\ recordCount[r] = NumRecords /\ MustFlush(r)
    BY <1>3, LeaveStep DEF Stays, Returns, Concludes, output
  <2>2. snapshot[r] = <<>>
    BY <2>1, NothingTaken
  <2>3. Flushed(r)'
    BY <2>1, <2>2 DEF FlushInv, Flushed, SameCounts, MustFlush
  <2>4. QED  BY <2>1, <2>3, FlushByCall
<1>4. ASSUME NEW r \in Invocations, AppendAudit(r)  PROVE FlushInv'
  <2>1. /\ pc[r] = "append" /\ opts'[r] = opts[r] /\ snapshot'[r] = snapshot[r]
        /\ OthersSame(r)
        /\ \/ pc'[r] = "done"
           \/ pc'[r] = "pull" /\ failureCount'[r] = failureCount[r]
           \/ pc'[r] = "pull" /\ opts[r].onError # "stop"
    BY <1>4, CountedStep DEF Stays, Returns, StopsHere, output
  <2>2. snapshot[r] = <<>>
    BY <2>1, NothingTaken
  <2>3. Flushed(r)'
    BY <2>1, <2>2 DEF FlushInv, Flushed
  <2>4. QED  BY <2>1, <2>3, FlushByCall
<1>5. ASSUME NEW r \in Invocations, FlushSnapshot(r) \/ FlushWrite(r) \/ FlushThrows(r)
      PROVE  FlushInv'
  <2>1. /\ pc[r] \in {"flush", "write"} /\ SameCounts(r) /\ opts'[r] = opts[r]
        /\ OthersSame(r)
        /\ \/ pc'[r] = "write" /\ result'[r] = result[r]
           \/ /\ pc'[r] = "done"
              /\ result'[r].status \in {"success", "persist_failed", firstFailure[r]}
    BY <1>5, FlushStep DEF Stays, Returns, Concludes
  <2>2. firstFailure[r] \notin {"cancelled", "adapter_init_failed"}
    BY DEF TypeInv, TypeOK, RecordClasses, PipelineClasses
  <2>3. result[r].status = "none"
    BY <2>1 DEF CountInv, Unstarted
  <2>4. Flushed(r)'
    BY <2>1, <2>2, <2>3 DEF FlushInv, Flushed, SameCounts
  <2>5. QED  BY <2>1, <2>4, FlushByCall
<1>6. CASE Crash
  BY <1>6, CrashStep DEF FlushInv, Flushed, SameCounts, InFlight
<1>7. ASSUME \A q \in Invocations : SameCall(q)  PROVE FlushInv'
  BY <1>7, FlushedSame DEF FlushInv
<1>8. CASE UNCHANGED vars
  BY <1>7, <1>8 DEF vars, settings, walk, tally, output, SameCall, SameCounts
<1>9. QED  BY <1>1, <1>2, <1>3, <1>4, <1>5, <1>6, <1>7, <1>8, AbortStep DEF Next, Advance

LEMMA FlushInit == Init => FlushInv
BY DEF Init, FlushInv, Flushed

LEMMA FlushCorrect == Spec => [](TypeInv /\ CountInv /\ FlushInv)
<1>1. TypeInv /\ CountInv /\ FlushInv /\ [Next]_vars => FlushInv'
  BY FlushInvStep
<1>2. Spec => [](TypeInv /\ CountInv)
  BY CountCorrect
<1>3. QED  BY <1>1, <1>2, FlushInit, PTL DEF Spec

(* Nothing is flushed by a call that was cancelled, stopped or broken off  *)
(* (RUNNER.md:125).                                                        *)
THEOREM FlushesWholeWalks == Spec => []FlushOnlyAfterWholeWalk
<1>1. FlushInv => FlushOnlyAfterWholeWalk
  BY DEF FlushInv, Flushed, FlushOnlyAfterWholeWalk
<1>2. QED  BY <1>1, FlushCorrect, PTL

-----------------------------------------------------------------------------
(* The sink is where persist puts a record: the file, or the buffer that a *)
(* flush writes out.  While a call walks without a failure, the sink holds *)
(* all it has settled and not skipped, and so does the text it flushes.    *)

Sink == IF SinkKind = "direct" THEN file ELSE buffer
Within(s, r, i) == \E n \in DOMAIN s : s[n] = [by |-> r, recordIndex |-> i]

Walking(r) == pc[r] \in {"pull", "persist", "append", "flush", "write"}

Held(r) ==
  opts[r].mode = "execute" /\ Walking(r) =>
    /\ failureCount[r] = 0 =>
         \A i \in Records : i < Walked(r) => i \in skipSet[r] \/ Within(Sink, r, i)
    /\ pc[r] = "append" /\ outcome[r] = "success" => Within(Sink, r, recordCount[r] - 1)
    /\ pc[r] = "write" /\ failureCount[r] = 0 =>
         \A i \in Records : i \in skipSet[r] \/ Within(snapshot[r], r, i)

HeldInv == \A r \in Invocations : Held(r)

SinkGrows == \A n \in DOMAIN Sink : n \in DOMAIN Sink' /\ Sink'[n] = Sink[n]

LEMMA WithinGrows ==
  ASSUME SinkGrows, NEW r, NEW i, Within(Sink, r, i)  PROVE Within(Sink', r, i)
BY DEF SinkGrows, Within

LEMMA StoreGrows ==
  ASSUME TypeInv, NEW r \in Invocations, InHand(r), Store(r)
  PROVE  SinkGrows /\ Within(Sink', r, recordCount[r] - 1)
<1>1. file \in Seq(Item) /\ buffer \in Seq(Item) /\ ItemOf(r) \in Item
  BY EntryType DEF TypeInv, TypeOK
<1>2. Sink \in Seq(Item) /\ Sink' = Append(Sink, ItemOf(r))
  BY <1>1 DEF Store, Sink
<1>3. Len(Sink) + 1 \in DOMAIN Sink' /\ Sink'[Len(Sink) + 1] = ItemOf(r)
  BY <1>1, <1>2
<1>4. SinkGrows
  BY <1>1, <1>2 DEF SinkGrows
<1>5. QED  BY <1>3, <1>4 DEF Within, ItemOf

LEMMA SinkStep ==
  ASSUME TypeInv, FlushInv, [Next]_vars, ~Crash  PROVE SinkGrows
<1>1. ASSUME NEW r \in Invocations, Persist(r) \/ PersistThrows(r)  PROVE SinkGrows
  <2>1. InHand(r) /\ (Store(r) \/ UNCHANGED output)
    BY <1>1, PersistStep DEF InHand
  <2>2. CASE UNCHANGED output
    BY <2>2 DEF SinkGrows, Sink, output
  <2>3. QED  BY <2>1, <2>2, StoreGrows
<1>2. ASSUME NEW r \in Invocations, FlushSnapshot(r) \/ FlushWrite(r) \/ FlushThrows(r)
      PROVE  SinkGrows
  <2>1. SinkKind = "buffered"
    BY <1>2 DEF FlushInv, Flushed, FlushSnapshot, FlushWrite, FlushThrows
  <2>2. buffer' = buffer
    BY <1>2, FlushStep
  <2>3. QED  BY <2>1, <2>2 DEF SinkGrows, Sink
<1>3. ASSUME NEW r \in Invocations,
             \/ PreFlightRefused(r) \/ NothingToWalk(r) \/ Begin(r) \/ ReadCursor(r)
             \/ CursorThrows(r) \/ SkipRecord(r) \/ ProcessRecord(r) \/ CancelBetween(r)
             \/ StreamThrows(r) \/ EndOfStream(r) \/ AppendAudit(r) \/ AppendThrows(r)
             \/ Abort(r)
      PROVE  SinkGrows
  <2>1. UNCHANGED output
    BY <1>3, CallStep, CursorStep, SkipStep, ProcessStep, LeaveStep, CountedStep,
       AppendThrowsStep, AbortStep
  <2>2. QED  BY <2>1 DEF SinkGrows, Sink, output
<1>4. CASE UNCHANGED vars
  BY <1>4 DEF vars, output, SinkGrows, Sink
<1>5. QED  BY <1>1, <1>2, <1>3, <1>4 DEF Next, Advance

LEMMA HeldSame ==
  ASSUME HeldInv, SinkGrows, NEW q \in Invocations, SameCall(q)  PROVE Held(q)'
<1>1. Walked(q)' = Walked(q) /\ Walking(q)' = Walking(q)
  BY DEF Walked, Walking, InHand, SameCall, SameCounts
<1>2. \A i : Within(Sink, q, i) => Within(Sink', q, i)
  BY WithinGrows
<1>3. QED  BY <1>1, <1>2 DEF HeldInv, Held, SameCall, SameCounts

LEMMA HeldByCall ==
  ASSUME HeldInv, SinkGrows, NEW r \in Invocations, OthersSame(r), Held(r)'
  PROVE  HeldInv'
BY HeldSame DEF HeldInv, OthersSame

LEMMA HeldStep ==
  ASSUME TypeInv, CountInv, FlushInv, HeldInv, [Next]_vars  PROVE HeldInv'
<1>1. CASE Crash
  BY <1>1, CrashStep DEF HeldInv, Held, Walking, InFlight
<1>2. CASE ~Crash
  <2>1. SinkGrows
    BY <1>2, SinkStep
  <2>2. \A q, i : Within(Sink, q, i) => Within(Sink', q, i)
    BY <2>1, WithinGrows
  <2>3. ASSUME NEW r \in Invocations, OthersSame(r), ~Walking(r)'  PROVE HeldInv'
    BY <2>1, <2>3, HeldByCall DEF Held
  <2>4. ASSUME NEW r \in Invocations,
               \/ PreFlightRefused(r) \/ NothingToWalk(r) \/ Begin(r)
               \/ ReadCursor(r) \/ CursorThrows(r)
        PROVE  HeldInv'
    <3>1. /\ pc[r] \in {"idle", "cursor"} /\ pc'[r] \in {"cursor", "pull", "done"}
          /\ recordCount'[r] = recordCount[r] /\ OthersSame(r)
      BY <2>4, CallStep, CursorStep DEF Stays, Returns
    <3>2. recordCount'[r] = 0
      BY <3>1 DEF CountInv, Unstarted
    <3>3. \A i \in Records : ~(i < Walked(r)')
      <4>1. pc'[r] \notin {"persist", "append"} /\ 0 - 0 = 0
        BY <3>1
      <4>2. Walked(r)' = 0
        BY <3>2, <4>1 DEF Walked, InHand
      <4>3. QED  BY <4>2, RunnerConstants DEF Records
    <3>4. Held(r)'
      BY <3>1, <3>3 DEF Held
    <3>5. QED  BY <2>1, <3>1, <3>4, HeldByCall
  <2>5. ASSUME NEW r \in Invocations, SkipRecord(r)  PROVE HeldInv'
    <3>1. /\ pc[r] = "pull" /\ pc'[r] = "pull" /\ recordCount[r] \in Nat
          /\ recordCount'[r] = recordCount[r] + 1 /\ recordCount[r] \in skipSet[r]
          /\ UNCHANGED <<opts, skipSet, failureCount>>
      BY <2>5, SkipStep, WalkedType DEF Stays, tally
    <3>2. Walked(r) = recordCount[r] /\ Walked(r)' = recordCount[r] + 1
      BY <3>1 DEF Walked, InHand
    <3>3. \A i \in Records : i < Walked(r)' => i < Walked(r) \/ i = recordCount[r]
      BY <3>1, <3>2, RunnerConstants DEF Records
    <3>4. Held(r)'
      BY <2>2, <3>1, <3>3 DEF HeldInv, Held, Walking
    <3>5. QED  BY <2>1, <2>5, <3>4, SkipStep, HeldByCall
  <2>6. ASSUME NEW r \in Invocations, ProcessRecord(r)  PROVE HeldInv'
    <3>1. /\ pc[r] = "pull" /\ pc'[r] \in {"persist", "append"} /\ recordCount[r] \in Nat
          /\ recordCount'[r] = recordCount[r] + 1
          /\ pc'[r] = "append" /\ opts[r].mode = "execute" => outcome'[r] # "success"
          /\ UNCHANGED <<opts, skipSet, failureCount>>
      BY <2>6, ProcessStep, WalkedType DEF Stays, tally
    <3>2. Walked(r) = recordCount[r] /\ Walked(r)' = recordCount[r]
      BY <3>1 DEF Walked, InHand
    <3>3. Held(r)'
      BY <2>2, <3>1, <3>2 DEF HeldInv, Held, Walking
    <3>4. QED  BY <2>1, <2>6, <3>3, ProcessStep, HeldByCall
  <2>7. ASSUME NEW r \in Invocations, CancelBetween(r) \/ StreamThrows(r) \/ EndOfStream(r)
        PROVE  HeldInv'
    <3>1. /\ pc[r] = "pull" /\ pc'[r] \in {"flush", "done"} /\ OthersSame(r)
          /\ opts'[r] = opts[r] /\ SameCounts(r)
      BY <2>7, LeaveStep DEF Stays, Returns, Concludes
    <3>2. CASE pc'[r] = "flush"
      <4>1. Walked(r)' = Walked(r)
        BY <3>1, <3>2 DEF Walked, InHand, SameCounts
      <4>2. Held(r)'
        BY <2>2, <3>1, <3>2, <4>1 DEF HeldInv, Held, Walking, SameCounts
      <4>3. QED  BY <2>1, <3>1, <4>2, HeldByCall
    <3>3. CASE pc'[r] = "done"
      BY <2>3, <3>1, <3>3 DEF Walking
    <3>4. QED  BY <3>1, <3>2, <3>3
  <2>8. ASSUME NEW r \in Invocations, Persist(r) \/ PersistThrows(r)  PROVE HeldInv'
    <3>1. /\ pc[r] = "persist" /\ pc'[r] = "append" /\ OthersSame(r)
          /\ opts'[r] = opts[r] /\ SameCounts(r)
          /\ outcome'[r] = "success" => Store(r)
      BY <2>8, PersistStep DEF Stays
    <3>2. Walked(r)' = Walked(r)
      BY <3>1 DEF Walked, InHand, SameCounts
    <3>3. outcome'[r] = "success" => Within(Sink', r, recordCount[r] - 1)
      BY <3>1, StoreGrows DEF InHand
    <3>4. Held(r)'
      BY <2>2, <3>1, <3>2, <3>3 DEF HeldInv, Held, Walking, SameCounts
    <3>5. QED  BY <2>1, <3>1, <3>4, HeldByCall
  <2>9. ASSUME NEW r \in Invocations, AppendAudit(r)  PROVE HeldInv'
    <3>1. /\ pc[r] = "append" /\ pc'[r] \in {"pull", "done"} /\ OthersSame(r)
          /\ recordCount'[r] = recordCount[r] /\ recordCount[r] \in Nat
          /\ UNCHANGED <<opts, skipSet>> /\ failureCount[r] \in Nat
          /\ outcome[r] # "success" => failureCount'[r] = failureCount[r] + 1
          /\ outcome[r] = "success" => failureCount'[r] = failureCount[r]
      BY <2>9, CountedStep, WalkedType, MissingType DEF Stays, Returns
    <3>2. CASE pc'[r] = "pull"
      <4>1. Walked(r) = recordCount[r] - 1 /\ Walked(r)' = recordCount[r]
        BY <3>1, <3>2 DEF Walked, InHand
      <4>2. \A i \in Records : i < Walked(r)' => i < Walked(r) \/ i = recordCount[r] - 1
        BY <3>1, <4>1, RunnerConstants DEF Records
      <4>3. failureCount'[r] = 0 => failureCount[r] = 0 /\ outcome[r] = "success"
        BY <3>1
      <4>4. Held(r)'
        BY <2>2, <3>1, <3>2, <4>2, <4>3 DEF HeldInv, Held, Walking
      <4>5. QED  BY <2>1, <3>1, <4>4, HeldByCall
    <3>3. CASE pc'[r] = "done"
      BY <2>3, <3>1, <3>3 DEF Walking
    <3>4. QED  BY <3>1, <3>2, <3>3
  <2>10. ASSUME NEW r \in Invocations, AppendThrows(r)  PROVE HeldInv'
    BY <2>3, <2>10, AppendThrowsStep DEF Returns, Walking
  <2>11. ASSUME NEW r \in Invocations, FlushSnapshot(r) \/ FlushWrite(r) \/ FlushThrows(r)
         PROVE  HeldInv'
    <3>1. /\ OthersSame(r) /\ opts'[r] = opts[r] /\ SameCounts(r)
          /\ \/ pc[r] = "flush" /\ pc'[r] = "write" /\ snapshot'[r] = buffer
             \/ pc'[r] = "done"
      BY <2>11, FlushStep DEF Stays, Returns, Concludes
    <3>2. CASE pc[r] = "flush" /\ pc'[r] = "write" /\ snapshot'[r] = buffer
      <4>1. Walked(r)' = Walked(r) /\ Walked(r) = NumRecords /\ Sink = buffer
        BY <3>1, <3>2, WalkedType DEF FlushInv, Flushed, Walked, InHand, SameCounts, Sink
      <4>2. \A i \in Records : i < Walked(r)
        BY <4>1, RunnerConstants DEF Records
      <4>3. Held(r)'
        BY <2>2, <3>1, <3>2, <4>1, <4>2 DEF HeldInv, Held, Walking, SameCounts
      <4>4. QED  BY <2>1, <3>1, <4>3, HeldByCall
    <3>3. CASE pc'[r] = "done"
      BY <2>3, <3>1, <3>3 DEF Walking
    <3>4. QED  BY <3>1, <3>2, <3>3
  <2>12. ASSUME \A q \in Invocations : SameCall(q)  PROVE HeldInv'
    BY <2>1, <2>12, HeldSame DEF HeldInv
  <2>13. CASE UNCHANGED vars
    BY <2>12, <2>13 DEF vars, settings, walk, tally, output, SameCall, SameCounts
  <2>14. QED  BY <1>2, <2>4, <2>5, <2>6, <2>7, <2>8, <2>9, <2>10, <2>11, <2>12, <2>13, AbortStep
         DEF Next, Advance
<1>3. QED  BY <1>1, <1>2

LEMMA HeldInit == Init => HeldInv
BY DEF Init, HeldInv, Held, Walking

LEMMA HeldCorrect == Spec => [](TypeInv /\ CountInv /\ FlushInv /\ HeldInv)
<1>1. TypeInv /\ CountInv /\ FlushInv /\ HeldInv /\ [Next]_vars => HeldInv'
  BY HeldStep
<1>2. Spec => [](TypeInv /\ CountInv /\ FlushInv)
  BY FlushCorrect
<1>3. QED  BY <1>1, <1>2, HeldInit, PTL DEF Spec

-----------------------------------------------------------------------------
(* The moment of success.  An execute call that returns it has come to the *)
(* end of the stream without a failure, with the durable sink, or writes   *)
(* the text it took at that point, with the buffered one.                  *)

SucceedsNow(r) == result[r].status = "none" /\ result'[r].status = "success"

LEMMA SuccessStep ==
  ASSUME TypeInv, CountInv, FlushInv, [Next]_vars, NEW r \in Invocations,
         HopCount > 0, opts'[r].mode = "execute", SucceedsNow(r)
  PROVE  /\ opts[r].mode = "execute" /\ skipSet'[r] = skipSet[r] /\ OthersSame(r)
         /\ failureCount[r] = 0 /\ pc'[r] = "done"
         /\ \/ /\ SinkKind = "direct" /\ pc[r] = "pull"
               /\ recordCount[r] = NumRecords /\ UNCHANGED output
            \/ /\ SinkKind = "buffered" /\ pc[r] = "write"
               /\ file' = snapshot[r] /\ buffer' = buffer
         /\ UNCHANGED <<crashes, faults>>
<1>1. firstFailure[r] \in RecordClasses \cup {"none"} /\ outcome[r] \in Outcomes
  BY DEF TypeInv, TypeOK
<1>2. firstFailure[r] # "success"
  BY <1>1 DEF RecordClasses, PipelineClasses
<1>3. ASSUME NEW q \in Invocations, q # r, OthersSame(q)  PROVE FALSE
  BY <1>3 DEF OthersSame, SameCall, SucceedsNow
<1>4. ASSUME NEW q \in Invocations, PreFlightRefused(q) \/ NothingToWalk(q) \/ Begin(q)
      PROVE  FALSE
  <2>1. q = r
    BY <1>3, <1>4, CallStep
  <2>2. HopCount # 0 /\ opts'[r].mode # "validate-only"
    BY RunnerConstants
  <2>3. QED  BY <1>4, <2>1, <2>2, CallStep DEF Stays, Returns, SucceedsNow
<1>5. ASSUME NEW q \in Invocations,
             \/ ReadCursor(q) \/ CursorThrows(q) \/ SkipRecord(q) \/ ProcessRecord(q)
             \/ Persist(q) \/ PersistThrows(q) \/ AppendThrows(q)
      PROVE  FALSE
  <2>1. OthersSame(q) /\ (result'[q] = result[q] \/ result'[q].status # "success")
    BY <1>5, CursorStep, SkipStep, ProcessStep, PersistStep, AppendThrowsStep
    DEF Stays, Returns
  <2>2. QED  BY <1>3, <2>1 DEF SucceedsNow
<1>6. ASSUME NEW q \in Invocations, AppendAudit(q)  PROVE FALSE
  <2>1. q = r
    BY <1>3, <1>6, CountedStep
  <2>2. outcome[r] # "success" => FirstFailure(r) # "success"
    BY <1>2 DEF FirstFailure
  <2>3. QED  BY <1>6, <2>1, <2>2, CountedStep DEF Stays, Returns, SucceedsNow
<1>7. ASSUME NEW q \in Invocations, CancelBetween(q) \/ StreamThrows(q) \/ EndOfStream(q)
      PROVE  /\ q = r /\ pc[r] = "pull" /\ recordCount[r] = NumRecords
             /\ ~MustFlush(r) /\ Concludes(r) /\ opts'[r] = opts[r]
             /\ SameCounts(r) /\ UNCHANGED <<output, faults, crashes>>
  <2>1. q = r
    BY <1>3, <1>7, LeaveStep
  <2>2. ~CancelBetween(r) /\ ~StreamThrows(r)
    <3>1. ~Returns(r, "cancelled") /\ ~Returns(r, "adapter_init_failed")
      BY DEF Returns, SucceedsNow
    <3>2. QED  BY <3>1, ReturnsOf DEF CancelBetween, StreamThrows
  <2>3. EndOfStream(r)
    BY <1>7, <2>1, <2>2
  <2>4. ~Stays(r, "flush") /\ ~Returns(r, "cancelled") /\ ~Returns(r, "adapter_init_failed")
    BY DEF Stays, Returns, SucceedsNow
  <2>5. UNCHANGED <<faults, crashes>>
    BY <2>3 DEF EndOfStream, budget
  <2>6. QED  BY <2>1, <2>3, <2>4, <2>5, LeaveStep
<1>8. ASSUME NEW q \in Invocations, FlushSnapshot(q) \/ FlushWrite(q) \/ FlushThrows(q)
      PROVE  /\ q = r /\ pc[r] = "write" /\ Concludes(r) /\ file' = snapshot[r]
             /\ opts'[r] = opts[r] /\ SameCounts(r)
             /\ UNCHANGED <<buffer, faults, crashes>>
  <2>1. q = r
    BY <1>3, <1>8, FlushStep
  <2>2. ~Stays(r, "write") /\ ~Returns(r, "persist_failed")
    BY DEF Stays, Returns, SucceedsNow
  <2>3. QED  BY <1>8, <2>1, <2>2, FlushStep
<1>9. ~Crash /\ ~(\E q \in Invocations : Abort(q)) /\ ~UNCHANGED vars
  <2>1. result' # result
    BY DEF SucceedsNow
  <2>2. QED  BY <2>1 DEF Crash, Abort, vars
<1>10. CASE /\ pc[r] = "pull" /\ recordCount[r] = NumRecords
            /\ ~MustFlush(r) /\ Concludes(r) /\ opts'[r] = opts[r]
            /\ SameCounts(r) /\ OthersSame(r) /\ UNCHANGED <<output, faults, crashes>>
  <2>1. SinkKind = "direct"
    BY <1>10, RunnerConstants DEF MustFlush
  <2>2. QED  BY <1>2, <1>10, <2>1 DEF Concludes, Returns, SucceedsNow, SameCounts
<1>11. CASE /\ pc[r] = "write" /\ Concludes(r) /\ file' = snapshot[r]
            /\ opts'[r] = opts[r] /\ SameCounts(r) /\ OthersSame(r)
            /\ UNCHANGED <<buffer, faults, crashes>>
  <2>1. SinkKind = "buffered"
    BY <1>11 DEF FlushInv, Flushed
  <2>2. QED  BY <1>2, <1>11, <2>1 DEF Concludes, Returns, SucceedsNow, SameCounts
<1>12. QED  BY <1>4, <1>5, <1>6, <1>7, <1>8, <1>9, <1>10, <1>11, LeaveStep, FlushStep
       DEF Next, Advance

LEMMA SuccessHolds ==
  ASSUME TypeInv, CountInv, FlushInv, HeldInv, [Next]_vars, NEW r \in Invocations,
         HopCount > 0, opts'[r].mode = "execute", SucceedsNow(r),
         NEW i \in Records \ skipSet[r]
  PROVE  Within(file', r, i)
<1>1. CASE /\ SinkKind = "direct" /\ pc[r] = "pull"
           /\ recordCount[r] = NumRecords /\ UNCHANGED output
  <2>1. i < Walked(r)
    BY <1>1, WalkedType, RunnerConstants DEF Walked, InHand, Records
  <2>2. Within(file, r, i)
    BY <1>1, <2>1, SuccessStep DEF HeldInv, Held, Walking, Sink
  <2>3. QED  BY <1>1, <2>2 DEF output
<1>2. CASE pc[r] = "write" /\ file' = snapshot[r]
  BY <1>2, SuccessStep DEF HeldInv, Held, Walking
<1>3. QED  BY <1>1, <1>2, SuccessStep

(* At the moment an execute call returns success, the file has all it did  *)
(* not skip, with either adapter and any number of calls in flight         *)
(* (runner.ts:297-341).                                                    *)
THEOREM SuccessIsWritten == Spec => SuccessMeansWritten
<1> DEFINE Written == \A r \in Invocations :
             /\ HopCount > 0 /\ opts'[r].mode = "execute"
             /\ result[r].status = "none" /\ result'[r].status = "success"
             => \A i \in Records \ skipSet[r] : Stored(r, i)'
<1>1. TypeInv /\ CountInv /\ FlushInv /\ HeldInv /\ [Next]_vars => Written
  BY SuccessHolds DEF SucceedsNow, Stored, Within
<1>2. TypeInv /\ CountInv /\ FlushInv /\ HeldInv /\ [Next]_vars => [Written]_vars
  BY <1>1
<1> HIDE DEF Written
<1>3. Spec => [][Written]_vars
  BY <1>2, HeldCorrect, PTL DEF Spec
<1>4. QED  BY <1>3 DEF SuccessMeansWritten, Written

-----------------------------------------------------------------------------
(* Which call acts.  One call moves in a step, and it is in flight before  *)
(* the step unless the step is its start.                                  *)

Starts(r) ==
  /\ pc[r] = "idle" /\ pc'[r] # "idle" /\ opts'[r] \in StartOpts(r)
  /\ Cardinality(InFlight) < MaxConcurrent /\ UNCHANGED <<log, output>>
GoesOn(r) == r \in InFlight /\ pc'[r] # "idle" /\ opts'[r] = opts[r]

LEMMA OneActs ==
  ASSUME TypeInv, [Next]_vars, ~Crash
  PROVE  \/ \A q \in Invocations : SameCall(q)
         \/ \E r \in Invocations : OthersSame(r) /\ (Starts(r) \/ GoesOn(r))
<1>1. ASSUME NEW r \in Invocations, PreFlightRefused(r) \/ NothingToWalk(r) \/ Begin(r)
      PROVE  OthersSame(r) /\ Starts(r)
  <2>1. pc'[r] # "idle"
    BY <1>1, CallStep DEF Stays, Returns
  <2>2. QED  BY <1>1, <2>1, CallStep DEF Starts
<1>2. ASSUME NEW r \in Invocations,
             \/ ReadCursor(r) \/ CursorThrows(r) \/ SkipRecord(r) \/ ProcessRecord(r)
             \/ CancelBetween(r) \/ StreamThrows(r) \/ EndOfStream(r)
             \/ Persist(r) \/ PersistThrows(r)
      PROVE  OthersSame(r) /\ GoesOn(r)
  BY <1>2, CursorStep, SkipStep, ProcessStep, LeaveStep, PersistStep
  DEF GoesOn, InFlight, Stays, Returns, Concludes
<1>3. ASSUME NEW r \in Invocations,
             \/ AppendAudit(r) \/ AppendThrows(r)
             \/ FlushSnapshot(r) \/ FlushWrite(r) \/ FlushThrows(r)
      PROVE  OthersSame(r) /\ GoesOn(r)
  BY <1>3, CountedStep, AppendThrowsStep, FlushStep
  DEF GoesOn, InFlight, Stays, Returns, Concludes
<1>4. CASE UNCHANGED vars
  BY <1>4 DEF vars, settings, walk, tally, output, SameCall, SameCounts
<1>5. QED  BY <1>1, <1>2, <1>3, <1>4, AbortStep DEF Next, Advance

(* No crash and no fault up to now, nor in this step.                      *)
Calm == crashes = 0 /\ faults = 0

LEMMA CalmStep ==
  ASSUME TypeInv, [Next]_vars, Calm'  PROVE Calm /\ ~Crash /\ UNCHANGED budget
<1>1. crashes \in Nat /\ faults \in Nat
  BY DEF TypeInv, TypeOK
<1>2. ~Crash /\ ~Fault
  BY <1>1 DEF Calm, Crash, Fault
<1>3. UNCHANGED budget
  BY <1>2
  DEF Next, Advance, Call, PreFlightRefused, NothingToWalk, Begin, ReadCursor, CursorThrows,
      CancelBetween, SkipRecord, ProcessRecord, StreamThrows, EndOfStream, Persist,
      PersistThrows, AppendAudit, AppendThrows, FlushSnapshot, FlushWrite, FlushThrows, Abort,
      vars
<1>4. QED  BY <1>2, <1>3 DEF Calm, budget

-----------------------------------------------------------------------------
(* Calls that do not overlap.  With one call in flight at a time, the text *)
(* of a flush is still the buffer when it is written.                      *)

Alone == \A p, q \in InFlight : p = q
Fresh == \A q \in Invocations : pc[q] = "write" => snapshot[q] = buffer

SerialInv == MaxConcurrent <= 1 => Alone /\ Fresh

LEMMA StartsAlone ==
  ASSUME MaxConcurrent <= 1, Alone, NEW r \in Invocations, Starts(r)  PROVE InFlight = {}
<1>1. InFlight = {} \/ \E p \in InFlight : InFlight = {p}
  BY DEF Alone
<1>2. IsFiniteSet(InFlight)
  <2>1. \A p : IsFiniteSet({p})
    BY FS_Singleton
  <2>2. IsFiniteSet({})
    BY FS_EmptySet
  <2>3. QED  BY <1>1, <2>1, <2>2
<1>3. Cardinality(InFlight) \in Nat
  BY <1>2, FS_CardinalityType
<1>4. Cardinality(InFlight) = 0
  BY <1>3, RunnerConstants DEF Starts
<1>5. QED  BY <1>2, <1>4, FS_EmptySet

LEMMA AloneStep ==
  ASSUME TypeInv, [Next]_vars, MaxConcurrent <= 1, Alone  PROVE Alone'
<1>1. CASE Crash
  BY <1>1, CrashStep DEF Alone, InFlight
<1>2. ASSUME \A q \in Invocations : SameCall(q)  PROVE Alone'
  BY <1>2 DEF Alone, InFlight, SameCall
<1>3. ASSUME NEW r \in Invocations, OthersSame(r), Starts(r)  PROVE Alone'
  <2>1. InFlight = {}
    BY <1>3, StartsAlone
  <2>2. InFlight' \subseteq {r}
    BY <1>3, <2>1 DEF InFlight, OthersSame, SameCall
  <2>3. QED  BY <2>2 DEF Alone
<1>4. ASSUME NEW r \in Invocations, OthersSame(r), GoesOn(r)  PROVE Alone'
  <2>1. InFlight' \subseteq InFlight
    BY <1>4 DEF GoesOn, InFlight, OthersSame, SameCall
  <2>2. QED  BY <2>1 DEF Alone
<1>5. QED  BY <1>1, <1>2, <1>3, <1>4, OneActs

LEMMA FreshStep ==
  ASSUME TypeInv, [Next]_vars, MaxConcurrent <= 1, Alone, Fresh  PROVE Fresh'
<1>1. CASE Crash
  BY <1>1, CrashStep DEF Fresh, InFlight
<1>2. ASSUME NEW r \in Invocations, Persist(r) \/ PersistThrows(r)  PROVE Fresh'
  <2>1. pc[r] = "persist" /\ pc'[r] = "append" /\ OthersSame(r)
    BY <1>2, PersistStep DEF Stays
  <2>2. \A q \in Invocations : pc'[q] # "write"
    BY <2>1 DEF Alone, InFlight, OthersSame, SameCall
  <2>3. QED  BY <2>2 DEF Fresh
<1>3. ASSUME NEW r \in Invocations, FlushSnapshot(r) \/ FlushWrite(r) \/ FlushThrows(r)
      PROVE  Fresh'
  <2>1. /\ buffer' = buffer /\ OthersSame(r)
        /\ pc'[r] = "write" => snapshot'[r] = buffer
    BY <1>3, FlushStep DEF Stays, Returns, Concludes
  <2>2. QED  BY <2>1 DEF Fresh, OthersSame, SameCall
<1>4. ASSUME UNCHANGED output, \A q \in Invocations : pc'[q] = "write" => pc[q] = "write"
      PROVE  Fresh'
  BY <1>4 DEF Fresh, output
<1>5. ASSUME NEW r \in Invocations,
             \/ PreFlightRefused(r) \/ NothingToWalk(r) \/ Begin(r) \/ ReadCursor(r)
             \/ CursorThrows(r) \/ SkipRecord(r) \/ ProcessRecord(r) \/ CancelBetween(r)
             \/ StreamThrows(r) \/ EndOfStream(r) \/ AppendAudit(r) \/ AppendThrows(r)
      PROVE  Fresh'
  <2>1. UNCHANGED output /\ OthersSame(r) /\ pc'[r] # "write"
    BY <1>5, CallStep, CursorStep, SkipStep, ProcessStep, LeaveStep, CountedStep,
       AppendThrowsStep DEF Stays, Returns, Concludes
  <2>2. QED  BY <1>4, <2>1 DEF OthersSame, SameCall
<1>6. ASSUME NEW r \in Invocations, Abort(r)  PROVE Fresh'
  BY <1>4, <1>6, AbortStep
<1>7. CASE UNCHANGED vars
  BY <1>4, <1>7 DEF vars
<1>8. QED  BY <1>1, <1>2, <1>3, <1>5, <1>6, <1>7 DEF Next, Advance

LEMMA SerialInit == Init => SerialInv
BY DEF Init, SerialInv, Alone, Fresh, InFlight

LEMMA SerialCorrect == Spec => []SerialInv
<1>1. TypeInv /\ SerialInv /\ [Next]_vars => SerialInv'
  BY AloneStep, FreshStep DEF SerialInv
<1>2. QED  BY <1>1, TypeInit, TypeNext, SerialInit, PTL DEF Spec

(* Between successes: what was written stays, in the file and in the sink  *)
(* that the next flush is taken from.                                      *)
Kept(r) == opts[r].mode = "execute" /\ result[r].status = "success" =>
  \A i \in Records \ skipSet[r] : Within(file, r, i) /\ Within(Sink, r, i)

KeptInv == HopCount > 0 /\ Calm => \A r \in Invocations : Kept(r)

LEMMA FileStep ==
  ASSUME TypeInv, FlushInv, [Next]_vars, SinkKind = "buffered", Calm'
  PROVE  \/ file' = file
         \/ \E q \in Invocations : pc[q] = "write" /\ file' = snapshot[q] /\ buffer' = buffer
<1>1. Calm /\ ~Crash /\ UNCHANGED budget
  BY CalmStep
<1>2. ASSUME NEW r \in Invocations, FlushSnapshot(r) \/ FlushWrite(r) \/ FlushThrows(r)
      PROVE  \/ file' = file
             \/ pc[r] = "write" /\ file' = snapshot[r] /\ buffer' = buffer
  <2>1. faults' = faults /\ faults \in Nat
    BY <1>1 DEF budget, TypeInv, TypeOK
  <2>2. faults' # faults + 1
    BY <2>1
  <2>3. QED  BY <1>2, <2>2, FlushStep
<1>3. ASSUME NEW r \in Invocations, Persist(r) \/ PersistThrows(r)  PROVE file' = file
  BY <1>3, PersistStep DEF Store, output
<1>4. ASSUME NEW r \in Invocations,
             \/ PreFlightRefused(r) \/ NothingToWalk(r) \/ Begin(r) \/ ReadCursor(r)
             \/ CursorThrows(r) \/ SkipRecord(r) \/ ProcessRecord(r) \/ CancelBetween(r)
             \/ StreamThrows(r) \/ EndOfStream(r) \/ AppendAudit(r) \/ AppendThrows(r)
             \/ Abort(r)
      PROVE  file' = file
  BY <1>4, CallStep, CursorStep, SkipStep, ProcessStep, LeaveStep, CountedStep,
     AppendThrowsStep, AbortStep DEF output
<1>5. QED  BY <1>1, <1>2, <1>3, <1>4 DEF Next, Advance, vars, output

LEMMA KeptStep ==
  ASSUME TypeInv, CountInv, FlushInv, HeldInv, SerialInv, KeptInv, [Next]_vars,
         MaxConcurrent <= 1 \/ SinkKind = "direct"
  PROVE  KeptInv'
<1> SUFFICES ASSUME HopCount > 0, Calm', NEW r \in Invocations,
                    opts'[r].mode = "execute", result'[r].status = "success",
                    NEW i \in Records \ skipSet'[r]
             PROVE  Within(file', r, i) /\ Within(Sink', r, i)
  BY DEF KeptInv, Kept
<1>1. Calm /\ ~Crash /\ UNCHANGED budget
  BY CalmStep
<1>2. SinkGrows
  BY <1>1, SinkStep
<1>3. CASE result[r].status = "success"
  <2>1. pc[r] = "done"
    BY <1>3 DEF CountInv, Unstarted
  <2>2. SameCall(r)
    BY <2>1, OverStays
  <2>3. Within(file, r, i) /\ Within(Sink, r, i)
    BY <1>1, <1>3, <2>2 DEF KeptInv, Kept, SameCall, SameCounts
  <2>4. Within(Sink', r, i)
    BY <1>2, <2>3, WithinGrows
  <2>5. CASE SinkKind = "direct"
    BY <2>4, <2>5 DEF Sink
  <2>6. CASE SinkKind = "buffered" /\ file' = file
    BY <2>3, <2>4, <2>6
  <2>7. CASE SinkKind = "buffered" /\ file' # file
    <3>1. file' = buffer
      BY <2>7, FileStep DEF SerialInv, Fresh
    <3>2. QED  BY <2>3, <2>4, <2>7, <3>1 DEF Sink
  <2>8. QED  BY <2>5, <2>6, <2>7, RunnerConstants
<1>4. CASE result[r].status # "success"
  <2>1. SucceedsNow(r)
    <3>1. pc[r] \notin {"done", "crashed"}
      BY <1>4, OverStays DEF SameCall
    <3>2. QED  BY <3>1 DEF CountInv, Unstarted, SucceedsNow
  <2>2. Within(file', r, i)
    BY <2>1, SuccessStep, SuccessHolds
  <2>3. Sink' = file'
    BY <2>1, SuccessStep DEF Sink, SerialInv, Fresh
  <2>4. QED  BY <2>2, <2>3
<1>5. QED  BY <1>3, <1>4

LEMMA KeptInit == Init => KeptInv
BY DEF Init, KeptInv, Kept, NoResult

(* With the durable sink, and with the buffered one when calls do not      *)
(* overlap, the output of a successful execute call is not lost to the     *)
(* flush of a later one (json-file-output.ts).                             *)
THEOREM OutputIsKept ==
  MaxConcurrent <= 1 \/ SinkKind = "direct" => (Spec => []WrittenStaysWritten)
<1> SUFFICES ASSUME MaxConcurrent <= 1 \/ SinkKind = "direct"
             PROVE  Spec => []WrittenStaysWritten
  OBVIOUS
<1>1. TypeInv /\ CountInv /\ FlushInv /\ HeldInv /\ SerialInv /\ KeptInv /\ [Next]_vars
        => KeptInv'
  BY KeptStep
<1>2. KeptInv => WrittenStaysWritten
  BY DEF KeptInv, Kept, Calm, Stored, Within, WrittenStaysWritten
<1>3. QED  BY <1>1, <1>2, KeptInit, HeldCorrect, SerialCorrect, PTL DEF Spec

-----------------------------------------------------------------------------
(* Resume.  The runId of a call is its own or that of a call that began    *)
(* before it, and a line carries the runId of the call that wrote it.  So  *)
(* a fresh runId has no line, and what the cursor gave a resumed call      *)
(* grows only by the call's own appends while no other call is in flight.  *)

Job(q)  == opts[q].runId
JobsBegun == \A q \in Invocations : pc[q] # "idle" => pc[Job(q)] # "idle"
LineIds == \A k \in DOMAIN log : pc[log[k].by] # "idle" /\ log[k].runId = Job(log[k].by)
IdInv   == JobsBegun /\ LineIds

Resumes(r) == Walking(r) =>
  \A i \in Cursor(log, Job(r)) : i \in skipSet[r] \/ i < Walked(r)

ResumeInv == MaxConcurrent <= 1 => \A r \in Invocations : Resumes(r)

LEMMA BegunStays ==
  ASSUME TypeInv, [Next]_vars, NEW q \in Invocations, pc[q] # "idle"
  PROVE  pc'[q] # "idle" /\ opts'[q] = opts[q]
<1>1. CASE Crash
  BY <1>1, CrashStep
<1>2. CASE ~Crash
  BY <1>2, OneActs DEF OthersSame, SameCall, Starts, GoesOn
<1>3. QED  BY <1>1, <1>2

LEMMA JobsStep ==
  ASSUME TypeInv, [Next]_vars, JobsBegun  PROVE JobsBegun'
<1> SUFFICES ASSUME NEW q \in Invocations, pc'[q] # "idle"  PROVE pc'[Job(q)'] # "idle"
  BY DEF JobsBegun
<1>1. \A p \in Invocations : Job(p) \in Invocations
  BY DEF Job, TypeInv, TypeOK, RunOpts
<1>2. CASE pc[q] # "idle"
  BY <1>1, <1>2, BegunStays DEF JobsBegun, Job
<1>3. CASE pc[q] = "idle"
  <2>1. ~Crash /\ ~(\A p \in Invocations : SameCall(p))
    BY <1>3, CrashStep DEF InFlight, SameCall
  <2>2. PICK r \in Invocations : OthersSame(r) /\ (Starts(r) \/ GoesOn(r))
    BY <2>1, OneActs
  <2>3. q = r /\ Starts(q)
    BY <1>3, <2>2 DEF OthersSame, SameCall, GoesOn, InFlight
  <2>4. Job(q)' = q \/ \E p \in Ended : Job(q)' = Job(p)
    BY <2>3 DEF Starts, StartOpts, Job
  <2>5. ASSUME NEW p \in Ended  PROVE pc'[Job(p)] # "idle"
    <3>1. p \in Invocations /\ pc[p] # "idle"
      BY DEF Ended
    <3>2. QED  BY <1>1, <3>1, BegunStays DEF JobsBegun
  <2>6. QED  BY <2>4, <2>5
<1>4. QED  BY <1>2, <1>3

LEMMA LineIdsStep ==
  ASSUME TypeInv, [Next]_vars, LineIds  PROVE LineIds'
<1>1. ASSUME NEW k \in DOMAIN log, NEW x, SameRecord(x, log[k]), NEW q, q = x.by
      PROVE  pc'[q] # "idle" /\ x.runId = opts'[q].runId
  <2>1. q \in Invocations /\ pc[q] # "idle" /\ x.runId = opts[q].runId
    BY <1>1, LineTypes DEF AuditLine, SameRecord, LineIds, Job
  <2>2. QED  BY <2>1, BegunStays
<1>2. ASSUME log' = log  PROVE LineIds'
  BY <1>1, <1>2 DEF LineIds, Job, SameRecord
<1>3. ASSUME NEW r \in Invocations, pc[r] = "append", LogGrows(r)  PROVE LineIds'
  <2> SUFFICES ASSUME NEW k \in DOMAIN log', NEW q, q = log'[k].by
               PROVE  pc'[q] # "idle" /\ log'[k].runId = opts'[q].runId
    BY DEF LineIds, Job
  <2>1. CASE k \in DOMAIN log /\ SameRecord(log'[k], log[k])
    BY <1>1, <2>1
  <2>2. CASE SameRecord(log'[k], EntryOf(r))
    <3>1. q = r /\ log'[k].runId = opts[r].runId
      BY <2>2 DEF SameRecord, EntryOf, AuditEntry
    <3>2. QED  BY <1>3, <3>1, BegunStays
  <2>3. QED  BY <1>3, <2>1, <2>2, GrownLines
<1>4. QED  BY <1>2, <1>3, LogStep DEF LineIds

(* The cursor of a job grows by nothing but the success line of its call.  *)
LEMMA GrownCursor ==
  ASSUME TypeInv, NEW r \in Invocations, LogGrows(r), NEW job,
         NEW i \in Cursor(log', job)
  PROVE  i \in Cursor(log, job) \/ (i = recordCount[r] - 1 /\ job = opts[r].runId)
<1>1. log \in Seq(AuditLine)
  BY DEF TypeInv, TypeOK
<1>2. PICK k \in DOMAIN log' : /\ log'[k].runId = job /\ log'[k].status = "success"
                              /\ i = log'[k].recordIndex
  BY DEF Cursor
<1>3. CASE k \in DOMAIN log /\ log'[k] = log[k]
  BY <1>2, <1>3 DEF Cursor
<1>4. CASE SameRecord(log'[k], EntryOf(r))
  BY <1>2, <1>4 DEF SameRecord, EntryOf, AuditEntry
<1>5. CASE log' = log
  BY <1>2, <1>3, <1>5
<1>6. CASE Appended(log, EntryOf(r), log')
  <2>1. PICK x \in AuditLine : SameRecord(x, EntryOf(r)) /\ log' = Append(log, x)
    BY <1>6 DEF Appended
  <2>2. (k \in DOMAIN log /\ log'[k] = log[k]) \/ log'[k] = x
    BY <1>1, <2>1
  <2>3. QED  BY <1>3, <1>4, <2>1, <2>2
<1>7. CASE Spoiled(log, log')
  <2>1. PICK x \in AuditLine :
          x.status = "unreadable" /\ log # <<>> /\ log' = [log EXCEPT ![Len(log)] = x]
    BY <1>7 DEF Spoiled
  <2>2. k \in DOMAIN log /\ (log'[k] = log[k] \/ log'[k] = x)
    <3>1. DOMAIN log' = DOMAIN log
      BY <1>1, <2>1
    <3>2. QED  BY <1>1, <2>1, <3>1
  <2>3. log'[k] # x
    BY <1>2, <2>1
  <2>4. QED  BY <1>3, <2>2, <2>3
<1>8. QED  BY <1>5, <1>6, <1>7 DEF LogGrows

(* A fresh call works under a runId that no line carries.                  *)
LEMMA FreshJob ==
  ASSUME TypeInv, IdInv, NEW r \in Invocations, pc[r] = "idle"  PROVE Cursor(log, r) = {}
<1> SUFFICES ASSUME NEW k \in DOMAIN log, log[k].runId = r, NEW q, q = log[k].by  PROVE FALSE
  BY DEF Cursor
<1>1. q \in Invocations
  BY LineTypes DEF AuditLine
<1>2. pc[q] # "idle" /\ Job(q) = r
  BY DEF IdInv, LineIds
<1>3. QED  BY <1>1, <1>2 DEF IdInv, JobsBegun

LEMMA ResumeStep ==
  ASSUME TypeInv, CountInv, LineInv, IdInv, Alone, MaxConcurrent <= 1, [Next]_vars,
         NEW r \in Invocations, Resumes(r)
  PROVE  Resumes(r)'
<1> SUFFICES ASSUME Walking(r)', NEW i \in Cursor(log', opts'[r].runId)
             PROVE  i \in skipSet'[r] \/ i < Walked(r)'
  BY DEF Resumes, Job
<1>1. ~Crash
  BY CrashStep DEF Walking, InFlight
<1>2. Forward
  BY WalksForward
<1>3. i \in Nat /\ Walked(r) \in Nat /\ Walked(r)' \in Nat /\ recordCount[r] \in Nat
  <2>1. \A k \in DOMAIN log' : log'[k] \in AuditLine
    BY TypeNext DEF TypeInv, TypeOK
  <2>2. i \in Records
    BY <2>1 DEF Cursor, AuditLine
  <2>3. QED  BY <2>2, TypeNext, WalkedType, WalkedTypeAfter, RunnerConstants DEF Records
(* A record the cursor already had is skipped or walked, and stays so.     *)
<1>4. ASSUME Walking(r), i \in Cursor(log, opts[r].runId), skipSet'[r] = skipSet[r]
      PROVE  i \in skipSet'[r] \/ i < Walked(r)'
  <2>1. i \in skipSet[r] \/ i < Walked(r)
    BY <1>4 DEF Resumes, Job
  <2>2. Walked(r)' >= Walked(r)
    BY <1>2 DEF Forward
  <2>3. QED  BY <1>3, <1>4, <2>1, <2>2
<1>5. ASSUME log' = log, Walking(r), opts'[r] = opts[r], skipSet'[r] = skipSet[r]
      PROVE  i \in skipSet'[r] \/ i < Walked(r)'
  BY <1>4, <1>5
<1>6. ASSUME log' = log, SameCall(r)  PROVE i \in skipSet'[r] \/ i < Walked(r)'
  BY <1>5, <1>6 DEF SameCall, SameCounts, Walking
<1>7. ASSUME NEW q \in Invocations, PreFlightRefused(q) \/ NothingToWalk(q) \/ Begin(q)
      PROVE  i \in skipSet'[r] \/ i < Walked(r)'
  <2>1. CASE q = r
    <3>1. pc'[r] \in {"cursor", "pull", "done"}
      BY <1>7, <2>1, CallStep DEF Stays, Returns
    <3>2. pc[r] = "idle" /\ log' = log /\ opts'[r] \in StartOpts(r) /\ ~opts'[r].resumed
      BY <1>7, <2>1, <3>1, CallStep DEF Walking
    <3>3. opts'[r].runId = r
      BY <3>2 DEF StartOpts
    <3>4. QED  BY <3>2, <3>3, FreshJob
  <2>2. QED  BY <1>6, <1>7, <2>1, CallStep DEF OthersSame
<1>8. ASSUME NEW q \in Invocations, ReadCursor(q) \/ CursorThrows(q)
      PROVE  i \in skipSet'[r] \/ i < Walked(r)'
  <2>1. CASE q = r
    BY <1>8, <2>1, CursorStep DEF Walking, Returns
  <2>2. QED  BY <1>6, <1>8, <2>1, CursorStep DEF OthersSame
<1>9. ASSUME NEW q \in Invocations,
             \/ SkipRecord(q) \/ ProcessRecord(q) \/ CancelBetween(q) \/ StreamThrows(q)
             \/ EndOfStream(q) \/ Persist(q) \/ PersistThrows(q)
             \/ FlushSnapshot(q) \/ FlushWrite(q) \/ FlushThrows(q)
      PROVE  i \in skipSet'[r] \/ i < Walked(r)'
  <2>1. /\ log' = log /\ OthersSame(q) /\ opts' = opts /\ skipSet'[q] = skipSet[q]
        /\ pc[q] \in {"pull", "persist", "flush", "write"}
    BY <1>9, SkipStep, ProcessStep, LeaveStep, PersistStep, FlushStep DEF SameCounts
  <2>2. CASE q = r
    BY <1>5, <2>1, <2>2 DEF Walking
  <2>3. QED  BY <1>6, <2>1, <2>2 DEF OthersSame
<1>10. ASSUME NEW q \in Invocations, AppendAudit(q) \/ AppendThrows(q)
       PROVE  i \in skipSet'[r] \/ i < Walked(r)'
  <2>1. /\ pc[q] = "append" /\ LogGrows(q) /\ OthersSame(q) /\ opts' = opts
        /\ recordCount' = recordCount /\ skipSet' = skipSet
        /\ pc'[q] \in {"pull", "done"}
    BY <1>10, CountedStep, AppendThrowsStep DEF Stays, Returns, walk
  <2>2. q = r
    <3>1. q # r => r \in InFlight
      BY <2>1 DEF OthersSame, SameCall, Walking, InFlight
    <3>2. QED  BY <2>1, <3>1 DEF Alone, InFlight
  <2>3. CASE i \in Cursor(log, opts[r].runId)
    BY <1>4, <2>1, <2>2, <2>3 DEF Walking
  <2>4. CASE i = recordCount[r] - 1
    <3>1. pc'[r] = "pull" /\ recordCount'[r] = recordCount[r]
      BY <2>1, <2>2 DEF Walking
    <3>2. Walked(r)' = recordCount[r]
      BY <1>3, <3>1 DEF Walked, InHand
    <3>3. QED  BY <1>3, <2>4, <3>2
  <2>5. QED  BY <2>1, <2>2, <2>3, <2>4, GrownCursor
<1>11. CASE UNCHANGED vars
  BY <1>6, <1>11 DEF vars, settings, walk, tally, output, SameCall, SameCounts
<1>12. QED  BY <1>1, <1>6, <1>7, <1>8, <1>9, <1>10, <1>11, AbortStep DEF Next, Advance

LEMMA ResumeInit == Init => IdInv /\ ResumeInv
BY DEF Init, IdInv, JobsBegun, LineIds, ResumeInv, Resumes, Walking

LEMMA ResumeCorrect ==
  Spec => [](TypeInv /\ CountInv /\ LineInv /\ SerialInv /\ IdInv /\ ResumeInv)
<1>1. TypeInv /\ IdInv /\ [Next]_vars => IdInv'
  BY JobsStep, LineIdsStep DEF IdInv
<1>2. TypeInv /\ CountInv /\ LineInv /\ SerialInv /\ IdInv /\ ResumeInv /\ [Next]_vars
        => ResumeInv'
  BY ResumeStep DEF ResumeInv, SerialInv
<1>3. QED  BY <1>1, <1>2, ResumeInit, LineCorrect, SerialCorrect, PTL DEF Spec

(* When calls do not overlap, a resumed call stores no record that the log *)
(* already marks success under its runId, whichever calls wrote those      *)
(* lines and however they ended (runner.ts:149-163, RUNNER.md:151-153).    *)
THEOREM ResumeStoresOnce == MaxConcurrent <= 1 => (Spec => ResumeNeverRepeatsAudited)
<1> SUFFICES ASSUME MaxConcurrent <= 1  PROVE Spec => ResumeNeverRepeatsAudited
  OBVIOUS
<1> DEFINE NotAgain == \A r \in Invocations :
             pc[r] = "persist" /\ pc'[r] = "append"
               => recordCount[r] - 1 \notin Cursor(log, opts[r].runId)
<1>1. TypeInv /\ LineInv /\ ResumeInv => [NotAgain]_vars
  <2> SUFFICES ASSUME TypeInv, LineInv, ResumeInv, NEW r \in Invocations, pc[r] = "persist"
               PROVE  recordCount[r] - 1 \notin Cursor(log, opts[r].runId)
    OBVIOUS
  <2>1. InHand(r) /\ recordCount[r] - 1 \notin skipSet[r]
    BY DEF InHand, LineInv
  <2>2. Walked(r) = recordCount[r] - 1 /\ ~(recordCount[r] - 1 < recordCount[r] - 1)
    BY <2>1, WalkedType DEF Walked
  <2>3. QED  BY <2>1, <2>2 DEF ResumeInv, Resumes, Walking, Job
<1> HIDE DEF NotAgain
<1>2. Spec => [][NotAgain]_vars
  BY <1>1, ResumeCorrect, PTL
<1>3. QED  BY <1>2 DEF ResumeNeverRepeatsAudited, NotAgain
===============================================================================
