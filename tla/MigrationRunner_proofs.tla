------------------------ MODULE MigrationRunner_proofs ------------------------
(***************************************************************************)
(* Theorems about the migration runner, for any number of calls, records,  *)
(* hops, faults and crashes: its types, and then what the audit log says   *)
(* and what a finished job has stored, over a sink whose persist is        *)
(* durable (AuditedImpliesStored, CompletedJobIsComplete and the           *)
(* refinement of AtLeastOnce).                                             *)
(***************************************************************************)
EXTENDS MigrationRunnerProperties, TLAPS

-----------------------------------------------------------------------------
(* The audit log *)

(* An append leaves the log, ends it with a line of that entry, or spoils  *)
(* the last line.                                                          *)
SameRecord(x, y) == x.by = y.by /\ x.runId = y.runId /\ x.recordIndex = y.recordIndex

Appended(L, e, M) == \E x \in AuditLine :
  /\ SameRecord(x, e) /\ (x.status = "success" => e.status = "success")
  /\ M = Append(L, x)

Spoiled(L, M) == \E x \in AuditLine :
  /\ L # <<>> /\ SameRecord(x, L[Len(L)]) /\ x.status = "unreadable"
  /\ M = [L EXCEPT ![Len(L)] = x]

LEMMA AppendShapes ==
  ASSUME NEW L \in Seq(AuditLine), NEW e \in AuditLine,
         NEW M \in {AppendLine(L, e)} \cup AppendPart(L, e)
  PROVE  M = L \/ Appended(L, e, M) \/ Spoiled(L, M)
<1>1. CASE M = L
  BY <1>1
<1>2. CASE EndsOpen(L) /\ M \in {Spoil(L, TRUE), Spoil(L, FALSE)}
  <2>1. PICK newline \in BOOLEAN : M = Spoil(L, newline)
    BY <1>2
  <2>2. L # <<>> /\ L[Len(L)] \in AuditLine
    BY <1>2 DEF EndsOpen
  <2> DEFINE x == [L[Len(L)] EXCEPT !.status = "unreadable", !.newline = newline]
  <2>3. x \in AuditLine /\ SameRecord(x, L[Len(L)]) /\ x.status = "unreadable"
    BY <2>2 DEF AuditLine, SameRecord
  <2>4. M = [L EXCEPT ![Len(L)] = x]
    BY <2>1 DEF Spoil
  <2>5. QED  BY <2>2, <2>3, <2>4 DEF Spoiled
<1>3. CASE M = Append(L, e)
  BY <1>3 DEF Appended, SameRecord
<1>4. CASE \E s \in {e.status, "unreadable"} :
             M = Append(L, [e EXCEPT !.status = s, !.newline = FALSE])
  <2>1. PICK s \in {e.status, "unreadable"} :
               M = Append(L, [e EXCEPT !.status = s, !.newline = FALSE])
    BY <1>4
  <2> DEFINE x == [e EXCEPT !.status = s, !.newline = FALSE]
  <2>2. x \in AuditLine /\ SameRecord(x, e) /\ (x.status = "success" => e.status = "success")
    BY DEF AuditLine, SameRecord
  <2>3. QED  BY <2>1, <2>2 DEF Appended
<1>5. QED  BY <1>1, <1>2, <1>3, <1>4 DEF AppendLine, AppendPart

LEMMA AppendType ==
  ASSUME NEW L \in Seq(AuditLine), NEW e \in AuditLine,
         NEW M \in {AppendLine(L, e)} \cup AppendPart(L, e)
  PROVE  M \in Seq(AuditLine)
<1>1. CASE Appended(L, e, M)
  BY <1>1 DEF Appended
<1>2. CASE Spoiled(L, M)
  <2>1. PICK x \in AuditLine : L # <<>> /\ M = [L EXCEPT ![Len(L)] = x]
    BY <1>2 DEF Spoiled
  <2>2. QED  BY <2>1
<1>3. QED  BY <1>1, <1>2, AppendShapes

-----------------------------------------------------------------------------
(* Type correctness.  A record in hand has been counted, which bounds the  *)
(* index of the audit line that is to be written for it.                   *)

TypeInv == TypeOK /\ \A r \in Invocations : InHand(r) => recordCount[r] > 0

LEMMA EntryType ==
  ASSUME TypeInv, NEW r \in Invocations, InHand(r)
  PROVE  /\ EntryOf(r) \in AuditLine
         /\ ItemOf(r) \in Item
<1>1. recordCount[r] - 1 \in Records
  BY RunnerConstants DEF TypeInv, TypeOK, Records
<1>2. opts[r].runId \in Invocations /\ outcome[r] \in Outcomes
  BY DEF TypeInv, TypeOK, RunOpts
<1>3. QED  BY <1>1, <1>2 DEF EntryOf, ItemOf, AuditEntry, AuditLine, Item, Outcomes

LEMMA TypeInit == Init => TypeInv
BY RunnerConstants DEF Init, TypeInv, TypeOK, Places, RunOpts, AllModes, Outcomes,
   NoResult, RunResults, InHand, Records

LEMMA ReturnType ==
  ASSUME TypeInv, NEW r \in Invocations, NEW counted \in BOOLEAN,
         NEW status \in {"none", "success"} \cup RecordClasses \cup RunClasses,
         NEW message \in {"none", "nOfM", "single"},
         Return(r, status, counted, message)
  PROVE  /\ pc' \in [Invocations -> Places] /\ pc'[r] = "done"
         /\ \A q \in Invocations : q # r => pc'[q] = pc[q]
         /\ result' \in [Invocations -> RunResults]
BY DEF TypeInv, TypeOK, Return, Places, RunResults

LEMMA GotoType ==
  ASSUME TypeInv, NEW r \in Invocations, NEW place \in Places, Goto(r, place)
  PROVE  /\ pc' \in [Invocations -> Places] /\ pc'[r] = place
         /\ \A q \in Invocations : q # r => pc'[q] = pc[q]
         /\ result' \in [Invocations -> RunResults]
BY DEF TypeInv, TypeOK, Goto

LEMMA OpenStreamType ==
  ASSUME TypeInv, NEW r \in Invocations, OpenStream(r)
  PROVE  /\ pc' \in [Invocations -> Places] /\ pc'[r] \in {"pull", "done"}
         /\ \A q \in Invocations : q # r => pc'[q] = pc[q]
         /\ result' \in [Invocations -> RunResults]
<1>1. CASE aborted[r]
  BY <1>1, ReturnType DEF OpenStream, RunClasses
<1>2. CASE ~aborted[r]
  BY <1>2, GotoType DEF OpenStream, Places
<1>3. QED  BY <1>1, <1>2

LEMMA ConcludeType ==
  ASSUME TypeInv, NEW r \in Invocations, Conclude(r)
  PROVE  /\ pc' \in [Invocations -> Places] /\ pc'[r] = "done"
         /\ \A q \in Invocations : q # r => pc'[q] = pc[q]
         /\ result' \in [Invocations -> RunResults]
<1>1. firstFailure[r] \in {"none", "success"} \cup RecordClasses \cup RunClasses
  BY DEF TypeInv, TypeOK
<1>2. QED  BY <1>1, ReturnType DEF Conclude, AggregateFailure

LEMMA TypeCall ==
  ASSUME TypeInv, NEW r \in Invocations,
         PreFlightRefused(r) \/ NothingToWalk(r) \/ Begin(r)
  PROVE  TypeInv'
<1>1. \A o \in StartOpts(r) : o \in RunOpts
  BY RunnerConstants DEF StartOpts, RunOpts, TypeInv, TypeOK, Ended
<1>2. PICK o \in RunOpts : Call(r, o)
  BY <1>1 DEF PreFlightRefused, NothingToWalk, Begin
<1>3. /\ pc' \in [Invocations -> Places] /\ result' \in [Invocations -> RunResults]
      /\ \A q \in Invocations : q # r => pc'[q] = pc[q]
      /\ pc'[r] \in {"done", "cursor", "pull"}
  <2>1. CASE PreFlightRefused(r)
    BY <2>1, ReturnType DEF PreFlightRefused, RunClasses
  <2>2. CASE NothingToWalk(r)
    BY <2>2, ReturnType DEF NothingToWalk
  <2>3. CASE Begin(r)
    BY <2>3, GotoType, OpenStreamType DEF Begin, Places
  <2>4. QED  BY <2>1, <2>2, <2>3
<1>4. skipSet' = skipSet
  BY DEF PreFlightRefused, NothingToWalk, Begin
<1>5. QED  BY <1>2, <1>3, <1>4 DEF TypeInv, TypeOK, Call, tally, output, budget, InHand

LEMMA FaultType ==
  ASSUME TypeInv, Fault  PROVE  faults' \in Nat /\ crashes' \in Nat
BY DEF TypeInv, TypeOK, Fault

LEMMA LineTypes ==
  ASSUME TypeInv, NEW k \in DOMAIN log  PROVE  log[k] \in AuditLine
BY DEF TypeInv, TypeOK

LEMMA TypeCursor ==
  ASSUME TypeInv, NEW r \in Invocations, ReadCursor(r) \/ CursorThrows(r)
  PROVE  TypeInv'
<1>1. CASE ReadCursor(r)
  <2>1. Cursor(log, opts[r].runId) \subseteq Records
    BY LineTypes DEF Cursor, AuditLine
  <2>2. QED  BY <1>1, <2>1, OpenStreamType
             DEF ReadCursor, TypeInv, TypeOK, settings, tally, output, budget, InHand
<1>2. CASE CursorThrows(r)
  <2>1. faults' \in Nat /\ crashes' \in Nat
    BY <1>2, FaultType DEF CursorThrows, TypeInv, TypeOK, budget
  <2>2. QED  BY <1>2, <2>1, ReturnType
             DEF CursorThrows, TypeInv, TypeOK, settings, walk, tally, output, InHand, RunClasses
<1>3. QED  BY <1>1, <1>2

LEMMA TypePull ==
  ASSUME TypeInv, NEW r \in Invocations,
         CancelBetween(r) \/ SkipRecord(r) \/ ProcessRecord(r)
           \/ StreamThrows(r) \/ EndOfStream(r)
  PROVE  TypeInv'
<1>1. CASE CancelBetween(r)
  BY <1>1, ReturnType
  DEF CancelBetween, TypeInv, TypeOK, settings, walk, tally, output, budget, InHand, RunClasses
<1>2. CASE SkipRecord(r)
  <2>1. recordCount[r] + 1 \in 0 .. NumRecords
    BY <1>2, RunnerConstants DEF SkipRecord, AtRecord, TypeInv, TypeOK
  <2>2. QED  BY <1>2, <2>1
             DEF SkipRecord, AtRecord, TypeInv, TypeOK, settings, tally, output, budget, InHand
<1>3. CASE ProcessRecord(r)
  <2>1. recordCount[r] + 1 \in 0 .. NumRecords /\ recordCount[r] + 1 > 0
    BY <1>3, RunnerConstants DEF ProcessRecord, AtRecord, TypeInv, TypeOK
  <2>2. PICK o \in {"success"} \cup PipelineFailures :
          /\ outcome' = [outcome EXCEPT ![r] = o]
          /\ Goto(r, IF o = "success" /\ opts[r].mode = "execute" THEN "persist" ELSE "append")
    BY <1>3 DEF ProcessRecord
  <2>3. o \in Outcomes
    BY RunnerConstants DEF Outcomes, RecordClasses
  <2>4. /\ pc' \in [Invocations -> Places]
        /\ \A q \in Invocations : q # r => pc'[q] = pc[q]
        /\ result' \in [Invocations -> RunResults]
    BY <2>2, GotoType DEF Places
  <2>5. QED  BY <1>3, <2>1, <2>2, <2>3, <2>4
             DEF ProcessRecord, TypeInv, TypeOK, settings, tally, output, budget, InHand
<1>4. CASE StreamThrows(r)
  BY <1>4, ReturnType, FaultType
  DEF StreamThrows, TypeInv, TypeOK, settings, walk, tally, output, InHand, RunClasses
<1>5. CASE EndOfStream(r)
  <2>1. /\ pc' \in [Invocations -> Places] /\ pc'[r] \in {"flush", "done"}
        /\ \A q \in Invocations : q # r => pc'[q] = pc[q]
        /\ result' \in [Invocations -> RunResults]
    BY <1>5, GotoType, ConcludeType DEF EndOfStream, Places
  <2>2. QED  BY <1>5, <2>1
             DEF EndOfStream, TypeInv, TypeOK, settings, walk, tally, output, budget, InHand
<1>6. QED  BY <1>1, <1>2, <1>3, <1>4, <1>5

LEMMA NoItems == <<>> \in Seq(Item)
OBVIOUS

LEMMA TypeStore ==
  ASSUME TypeInv, NEW r \in Invocations, InHand(r), Store(r)
  PROVE  /\ file' \in Seq(Item) /\ buffer' \in Seq(Item)
         /\ snapshot' \in [Invocations -> Seq(Item)]
<1>1. ItemOf(r) \in Item
  BY EntryType
<1>2. Append(file, ItemOf(r)) \in Seq(Item) /\ Append(buffer, ItemOf(r)) \in Seq(Item)
  BY <1>1 DEF TypeInv, TypeOK
<1>3. QED  BY <1>2 DEF Store, TypeInv, TypeOK

LEMMA TypePersist ==
  ASSUME TypeInv, NEW r \in Invocations, Persist(r) \/ PersistThrows(r)
  PROVE  TypeInv'
<1>1. InHand(r)
  BY DEF InHand, Persist, PersistThrows
<1>2. CASE Persist(r)
  BY <1>1, <1>2, TypeStore, GotoType
  DEF Persist, TypeInv, TypeOK, settings, walk, tally, budget, InHand, Places
<1>3. CASE PersistThrows(r)
  <2>1. /\ file' \in Seq(Item) /\ buffer' \in Seq(Item)
        /\ snapshot' \in [Invocations -> Seq(Item)]
    BY <1>1, <1>3, TypeStore DEF PersistThrows, TypeInv, TypeOK, output
  <2>2. outcome' \in [Invocations -> Outcomes]
    BY <1>3 DEF PersistThrows, TypeInv, TypeOK, Outcomes, RecordClasses
  <2>3. QED  BY <1>1, <1>3, <2>1, <2>2, FaultType, GotoType
             DEF PersistThrows, TypeInv, TypeOK, settings, tally, InHand, Places
<1>4. QED  BY <1>2, <1>3

LEMMA TypeAppend ==
  ASSUME TypeInv, NEW r \in Invocations, AppendAudit(r) \/ AppendThrows(r)
  PROVE  TypeInv'
<1>1. InHand(r)
  BY DEF InHand, AppendAudit, AppendThrows
<1>2. EntryOf(r) \in AuditLine
  BY <1>1, EntryType
<1>3. CASE AppendAudit(r)
  <2>1. log' \in Seq(AuditLine)
    BY <1>2, <1>3, AppendType DEF AppendAudit, TypeInv, TypeOK
  <2>2. CASE outcome[r] = "success"
    <3>1. CountSuccess(r)
      BY <1>3, <2>2 DEF AppendAudit
    <3>2. /\ pc' \in [Invocations -> Places] /\ pc'[r] = "pull"
          /\ \A q \in Invocations : q # r => pc'[q] = pc[q]
          /\ result' \in [Invocations -> RunResults]
      BY <3>1, GotoType DEF CountSuccess, Places
    <3>3. successCount' \in [Invocations -> Nat]
      BY <3>1 DEF CountSuccess, TypeInv, TypeOK
    <3>4. UNCHANGED <<failureCount, firstFailure>>
      BY <3>1 DEF CountSuccess
    <3>5. QED  BY <1>3, <2>1, <3>2, <3>3, <3>4
               DEF AppendAudit, TypeInv, TypeOK, settings, walk, output, budget, InHand
  <2>3. CASE outcome[r] # "success"
    <3>1. CountFailure(r)
      BY <1>3, <2>3 DEF AppendAudit
    <3>2. FirstFailure(r) \in RecordClasses \cup {"none"}
      BY <2>3 DEF FirstFailure, TypeInv, TypeOK, Outcomes
    <3>3. firstFailure' \in [Invocations -> RecordClasses \cup {"none"}]
      BY <3>1, <3>2 DEF CountFailure, TypeInv, TypeOK
    <3>4. /\ pc' \in [Invocations -> Places] /\ pc'[r] \in {"pull", "done"}
          /\ \A q \in Invocations : q # r => pc'[q] = pc[q]
          /\ result' \in [Invocations -> RunResults]
      BY <3>1, <3>2, GotoType, ReturnType DEF CountFailure, AggregateFailure, Places
    <3>5. failureCount' \in [Invocations -> Nat] /\ UNCHANGED successCount
      BY <3>1 DEF CountFailure, TypeInv, TypeOK
    <3>6. QED  BY <1>3, <2>1, <3>3, <3>4, <3>5
               DEF AppendAudit, TypeInv, TypeOK, settings, walk, output, budget, InHand
  <2>4. QED  BY <2>2, <2>3
<1>4. CASE AppendThrows(r)
  <2>1. log' \in Seq(AuditLine)
    BY <1>2, <1>4, AppendType DEF AppendThrows, TypeInv, TypeOK
  <2>2. QED  BY <1>4, <2>1, FaultType, ReturnType
             DEF AppendThrows, TypeInv, TypeOK, settings, walk, tally, output, InHand, RunClasses
<1>5. QED  BY <1>3, <1>4

LEMMA TypeFlush ==
  ASSUME TypeInv, NEW r \in Invocations,
         FlushSnapshot(r) \/ FlushWrite(r) \/ FlushThrows(r)
  PROVE  TypeInv'
<1>1. CASE FlushSnapshot(r)
  BY <1>1, GotoType
  DEF FlushSnapshot, FlushText, TypeInv, TypeOK, settings, walk, tally, budget, InHand, Places
<1>2. CASE FlushWrite(r)
  BY <1>2, ConcludeType
  DEF FlushWrite, TypeInv, TypeOK, settings, walk, tally, budget, InHand
<1>3. CASE FlushThrows(r)
  <2>1. file' \in {file, <<>>}
    BY <1>3 DEF FlushThrows
  <2>2. file' \in Seq(Item)
    BY <2>1, NoItems DEF TypeInv, TypeOK
  <2>3. QED  BY <1>3, <2>2, FaultType, ReturnType
             DEF FlushThrows, TypeInv, TypeOK, settings, walk, tally, InHand, RecordClasses
<1>4. QED  BY <1>1, <1>2, <1>3

LEMMA TypeAbort ==
  ASSUME TypeInv, NEW r \in Invocations, Abort(r)  PROVE  TypeInv'
BY DEF Abort, TypeInv, TypeOK, walk, tally, output, budget, InHand

LEMMA TypeCrash ==
  ASSUME TypeInv, Crash  PROVE  TypeInv'
<1>1. log' \in Seq(AuditLine)
  <2>1. CASE AuditKind = "memory"
    BY <2>1 DEF Crash
  <2>2. CASE AuditKind # "memory"
    <3>1. \A r \in Invocations : pc[r] = "append"
            => AppendPart(log, EntryOf(r)) \subseteq Seq(AuditLine)
      BY EntryType, AppendType DEF InHand, TypeInv, TypeOK
    <3>2. QED  BY <2>2, <3>1 DEF Crash, TypeInv, TypeOK
  <2>3. QED  BY <2>1, <2>2
<1>2. file' \in Seq(Item) /\ buffer' \in Seq(Item)
  <2>1. file' \in {file, <<>>} /\ buffer' = <<>>
    BY DEF Crash
  <2>2. QED  BY <2>1, NoItems DEF TypeInv, TypeOK
<1>3. /\ pc' \in [Invocations -> Places]
      /\ \A q \in Invocations : pc'[q] \in {pc[q], "crashed"}
  BY DEF Crash, TypeInv, TypeOK, Places
<1>4. QED  BY <1>1, <1>2, <1>3
           DEF Crash, TypeInv, TypeOK, settings, walk, tally, InHand

LEMMA TypeNext == TypeInv /\ [Next]_vars => TypeInv'
<1> SUFFICES ASSUME TypeInv, [Next]_vars  PROVE TypeInv'
  OBVIOUS
<1>1. CASE Crash
  BY <1>1, TypeCrash
<1>2. CASE UNCHANGED vars
  BY <1>2 DEF vars, settings, walk, tally, output, budget, TypeInv, TypeOK, InHand
<1>3. CASE \E r \in Invocations :
             \/ PreFlightRefused(r) \/ NothingToWalk(r) \/ Begin(r)
             \/ Advance(r)
             \/ StreamThrows(r) \/ PersistThrows(r) \/ AppendThrows(r) \/ FlushThrows(r)
             \/ Abort(r)
  BY <1>3, TypeCall, TypeCursor, TypePull, TypePersist, TypeAppend, TypeFlush, TypeAbort
  DEF Advance
<1>4. QED  BY <1>1, <1>2, <1>3 DEF Next

(* Every variable of the runner keeps its type, and the index of the audit *)
(* line a call is about to write is that of a record (runner.ts:83-397).   *)
THEOREM TypeCorrect == Spec => []TypeOK
<1>1. TypeInv => TypeOK
  BY DEF TypeInv
<1>2. QED  BY <1>1, TypeInit, TypeNext, PTL DEF Spec

-----------------------------------------------------------------------------
(* Storage: the inductive invariant.  A line of the log belongs to a call  *)
(* that has started; a call knows where every record it has passed is      *)
(* stored, or that a dry run has walked past it under the same runId.      *)

LogInv == \A k \in DOMAIN log :
  /\ pc[log[k].by] # "idle"
  /\ log[k].runId = opts[log[k].by].runId
  /\ opts[log[k].by].mode \in {"dry-run", "execute"}
  /\ log[k].recordIndex < recordCount[log[k].by]
  /\ log[k].status = "success" /\ opts[log[k].by].mode = "execute"
       => Stored(log[k].by, log[k].recordIndex)

FileInv == \A n \in DOMAIN file : pc[file[n].by] # "idle"

Passed(r, i) == i < recordCount[r] - IF pc[r] = "pull" THEN 0 ELSE 1

Progress(r) ==
  /\ pc[r] \notin {"flush", "write"}
  /\ pc[r] = "idle" => skipSet[r] = {} /\ result[r].status = "none"
  /\ pc[r] \in {"idle", "cursor"} => recordCount[r] = 0
  /\ pc[r] \in {"cursor", "pull", "persist", "append"}
       => opts[r].mode \in {"dry-run", "execute"}

HandStored(r) ==
  pc[r] = "append" /\ outcome[r] = "success" /\ opts[r].mode = "execute"
    => Stored(r, recordCount[r] - 1)

CoveredUnder(job) == StoredUnder(job) \cup DryWalked(job)

SkippedStored(r) == skipSet[r] \subseteq CoveredUnder(opts[r].runId)

PassedStored(r) ==
  pc[r] \in {"pull", "persist", "append"} /\ opts[r].mode = "execute" /\ failureCount[r] = 0
    => \A i \in Records : Passed(r, i) => i \in skipSet[r] \/ Stored(r, i)

JobStored(r) ==
  HopCount > 0 /\ opts[r].mode = "execute" /\ result[r].status = "success"
    => Records \subseteq CoveredUnder(opts[r].runId)

CallInv(r) == /\ Progress(r) /\ HandStored(r) /\ SkippedStored(r)
              /\ PassedStored(r) /\ JobStored(r)

StorageInv == LogInv /\ FileInv /\ \A r \in Invocations : CallInv(r)

-----------------------------------------------------------------------------
(* What every step keeps: the file grows at its end, the options of a call *)
(* are settled when it starts, and it never walks back.                    *)

HistoryKept ==
  /\ \A n \in DOMAIN file : n \in DOMAIN file' /\ file'[n] = file[n]
  /\ \A q \in Invocations : pc[q] # "idle" =>
       /\ pc'[q] # "idle" /\ opts'[q] = opts[q]
       /\ recordCount'[q] \in {recordCount[q], recordCount[q] + 1}

LEMMA StoredStays ==
  ASSUME HistoryKept, NEW r, NEW i, Stored(r, i)  PROVE Stored(r, i)'
BY DEF HistoryKept, Stored

LEMMA PassedStays ==
  ASSUME HistoryKept, TypeInv, NEW q \in Invocations, pc[q] # "idle",
         NEW i \in Records, i < recordCount[q]
  PROVE  i < recordCount'[q]
<1>1. recordCount[q] \in Nat /\ i \in Nat
  BY RunnerConstants DEF TypeInv, TypeOK, Records
<1>2. recordCount'[q] = recordCount[q] \/ recordCount'[q] = recordCount[q] + 1
  BY DEF HistoryKept
<1>3. QED  BY <1>1, <1>2

LEMMA DryWalkedStays ==
  ASSUME HistoryKept, TypeInv, NEW job
  PROVE  DryWalked(job) \subseteq DryWalked(job)'
<1> SUFFICES ASSUME NEW i \in Records, NEW q \in DryRunUnder(job), i < recordCount[q]
             PROVE  i \in DryWalked(job)'
  BY DEF DryWalked
<1>1. q \in DryRunUnder(job)'
  BY DEF DryRunUnder, HistoryKept
<1>2. i < recordCount'[q]
  BY PassedStays DEF DryRunUnder
<1>3. QED  BY <1>1, <1>2 DEF DryWalked

LEMMA ItemTypes ==
  ASSUME TypeInv, NEW n \in DOMAIN file  PROVE file[n] \in Item
BY DEF TypeInv, TypeOK

LEMMA StoredUnderStays ==
  ASSUME HistoryKept, TypeInv, FileInv, NEW job
  PROVE  StoredUnder(job) \subseteq StoredUnder(job)'
<1> SUFFICES ASSUME NEW n \in DOMAIN file, opts[file[n].by].runId = job
             PROVE  file[n].recordIndex \in StoredUnder(job)'
  BY DEF StoredUnder
<1>1. file[n].by \in Invocations
  BY ItemTypes DEF Item
<1>2. n \in DOMAIN file' /\ file'[n] = file[n] /\ opts'[file[n].by] = opts[file[n].by]
  BY <1>1 DEF HistoryKept, FileInv
<1>3. QED  BY <1>2 DEF StoredUnder

LEMMA CoveredUnderStays ==
  ASSUME HistoryKept, TypeInv, FileInv, NEW job
  PROVE  CoveredUnder(job) \subseteq CoveredUnder(job)'
BY StoredUnderStays, DryWalkedStays DEF CoveredUnder

LEMMA StoredIsStoredUnder ==
  ASSUME NEW r, NEW i, Stored(r, i)  PROVE i \in StoredUnder(opts[r].runId)
BY DEF Stored, StoredUnder

(* A call keeps its part of the invariant when a step does not touch it.   *)
LEMMA CallUntouched ==
  ASSUME HistoryKept, TypeInv, FileInv, NEW r \in Invocations, CallInv(r),
         pc'[r] \in {pc[r], "crashed"}, pc[r] = "idle" => pc'[r] = "idle",
         opts'[r] = opts[r], result'[r] = result[r], outcome'[r] = outcome[r],
         recordCount'[r] = recordCount[r], skipSet'[r] = skipSet[r],
         failureCount'[r] = failureCount[r]
  PROVE  CallInv(r)'
<1>1. Progress(r)'
  BY DEF CallInv, Progress
<1>2. HandStored(r)'
  BY StoredStays DEF CallInv, HandStored
<1>3. SkippedStored(r)'
  BY CoveredUnderStays DEF CallInv, SkippedStored
<1>4. PassedStored(r)'
  BY StoredStays DEF CallInv, PassedStored, Passed
<1>5. JobStored(r)'
  BY CoveredUnderStays DEF CallInv, JobStored
<1>6. QED  BY <1>1, <1>2, <1>3, <1>4, <1>5 DEF CallInv

(* The same of the log and of the file. *)
LEMMA LogUntouched ==
  ASSUME HistoryKept, TypeInv, LogInv, log' = log  PROVE LogInv'
<1> SUFFICES ASSUME NEW k \in DOMAIN log
             PROVE  /\ pc'[log[k].by] # "idle"
                    /\ log[k].runId = opts'[log[k].by].runId
                    /\ opts'[log[k].by].mode \in {"dry-run", "execute"}
                    /\ log[k].recordIndex < recordCount'[log[k].by]
                    /\ log[k].status = "success" /\ opts'[log[k].by].mode = "execute"
                         => Stored(log[k].by, log[k].recordIndex)'
  BY DEF LogInv
<1>1. log[k].by \in Invocations /\ log[k].recordIndex \in Records
  BY LineTypes DEF AuditLine
<1>2. pc'[log[k].by] # "idle" /\ opts'[log[k].by] = opts[log[k].by]
  BY <1>1 DEF LogInv, HistoryKept
<1>3. log[k].recordIndex < recordCount'[log[k].by]
  BY <1>1, PassedStays DEF LogInv
<1>4. QED  BY <1>2, <1>3, StoredStays DEF LogInv

LEMMA FileUntouched ==
  ASSUME HistoryKept, TypeInv, FileInv, file' = file  PROVE FileInv'
BY ItemTypes DEF FileInv, HistoryKept, Item

(* The steps of one call leave the others alone. *)
OthersUntouched(r) == \A q \in Invocations \ {r} :
  /\ pc'[q] = pc[q] /\ opts'[q] = opts[q] /\ result'[q] = result[q]
  /\ outcome'[q] = outcome[q] /\ recordCount'[q] = recordCount[q]
  /\ skipSet'[q] = skipSet[q] /\ failureCount'[q] = failureCount[q]

LEMMA StepOfOne ==
  ASSUME TypeInv, StorageInv, NEW r \in Invocations, OthersUntouched(r),
         HistoryKept, LogInv', FileInv', CallInv(r)'
  PROVE  StorageInv'
<1>1. \A q \in Invocations \ {r} : CallInv(q)'
  BY CallUntouched DEF StorageInv, OthersUntouched
<1>2. QED  BY <1>1 DEF StorageInv

LEMMA QuietStep ==
  ASSUME TypeInv, StorageInv, NEW r \in Invocations, OthersUntouched(r),
         HistoryKept, log' = log, file' = file, CallInv(r)'
  PROVE  StorageInv'
BY StepOfOne, LogUntouched, FileUntouched DEF StorageInv

-----------------------------------------------------------------------------
(* The actions *)

LEMMA StorageCall ==
  ASSUME TypeInv, StorageInv, SinkKind = "direct", NEW r \in Invocations,
         PreFlightRefused(r) \/ NothingToWalk(r) \/ Begin(r)
  PROVE  StorageInv'
<1>1. PICK o \in StartOpts(r) :
        /\ Call(r, o)
        /\ \/ Return(r, "pre_flight_failed", FALSE, "single")
           \/ /\ HopCount = 0 \/ o.mode = "validate-only"
              /\ Return(r, "success", TRUE, "none")
           \/ /\ o.mode # "validate-only"
              /\ Goto(r, "cursor") \/ OpenStream(r)
        /\ skipSet' = skipSet
  BY DEF PreFlightRefused, NothingToWalk, Begin
<1>2. o \in RunOpts /\ o.mode \in AllModes
  BY RunnerConstants DEF StartOpts, RunOpts, TypeInv, TypeOK, Ended
<1>3. pc[r] = "idle" /\ pc'[r] \in {"done", "cursor", "pull"} /\ opts'[r] = o
  BY <1>1 DEF Call, Return, Goto, OpenStream, TypeInv, TypeOK
<1>4. OthersUntouched(r)
  BY <1>1 DEF OthersUntouched, Call, Return, Goto, OpenStream, TypeInv, TypeOK, tally
<1>5. file' = file /\ log' = log
  BY <1>1 DEF Call, output
<1>6. HistoryKept
  BY <1>3, <1>4, <1>5 DEF HistoryKept, OthersUntouched
<1>7. skipSet'[r] = {} /\ recordCount'[r] = 0 /\ result[r].status = "none"
  BY <1>1, <1>3 DEF Call, StorageInv, CallInv, Progress
<1>8. /\ pc'[r] # "done" => result'[r] = result[r] /\ o.mode # "validate-only"
      /\ result'[r].status = "success" => HopCount = 0 \/ o.mode = "validate-only"
  BY <1>1, <1>3, <1>7 DEF Return, Goto, OpenStream, TypeInv, TypeOK
<1>9. CallInv(r)'
  <2>1. Progress(r)'
    BY <1>2, <1>3, <1>7, <1>8 DEF Progress, AllModes
  <2>2. HandStored(r)' /\ SkippedStored(r)'
    BY <1>3, <1>7 DEF HandStored, SkippedStored
  <2>3. PassedStored(r)'
    BY <1>3, <1>7 DEF PassedStored, Passed, Records
  <2>4. JobStored(r)'
    BY <1>3, <1>8, RunnerConstants DEF JobStored
  <2>5. QED  BY <2>1, <2>2, <2>3, <2>4 DEF CallInv
<1>10. QED  BY <1>4, <1>5, <1>6, <1>9, QuietStep

(* A record is on the skip list of a call because a line says so: the call *)
(* that wrote it has stored the record, or was a dry run.                  *)
LEMMA CursorCovered ==
  ASSUME TypeInv, LogInv, NEW job
  PROVE  Cursor(log, job) \subseteq CoveredUnder(job)
<1> SUFFICES ASSUME NEW k \in DOMAIN log, log[k].runId = job, log[k].status = "success"
             PROVE  log[k].recordIndex \in CoveredUnder(job)
  BY DEF Cursor
<1>1. log[k].by \in Invocations /\ log[k].recordIndex \in Records
  BY LineTypes DEF AuditLine
<1>2. opts[log[k].by].runId = job
  BY DEF LogInv
<1>3. CASE opts[log[k].by].mode = "execute"
  BY <1>2, <1>3, StoredIsStoredUnder DEF LogInv, CoveredUnder
<1>4. CASE opts[log[k].by].mode = "dry-run"
  BY <1>1, <1>2, <1>4 DEF LogInv, CoveredUnder, DryWalked, DryRunUnder
<1>5. QED  BY <1>3, <1>4 DEF LogInv

LEMMA StorageCursor ==
  ASSUME TypeInv, StorageInv, SinkKind = "direct", NEW r \in Invocations,
         ReadCursor(r) \/ CursorThrows(r)
  PROVE  StorageInv'
<1>1. /\ pc[r] = "cursor" /\ pc'[r] \in {"pull", "done"}
      /\ result'[r].status # "success" \/ result'[r] = result[r]
      /\ opts' = opts /\ file' = file /\ log' = log /\ recordCount' = recordCount
      /\ OthersUntouched(r)
  BY DEF ReadCursor, CursorThrows, OpenStream, Goto, Return, OthersUntouched, settings,
     walk, tally, output, TypeInv, TypeOK
<1>2. HistoryKept
  BY <1>1 DEF HistoryKept, OthersUntouched
<1>3. skipSet'[r] \in {skipSet[r], Cursor(log, opts[r].runId)}
  BY DEF ReadCursor, CursorThrows, walk, TypeInv, TypeOK
<1>4. CallInv(r)'
  <2>1. Progress(r)' /\ HandStored(r)'
    BY <1>1 DEF StorageInv, CallInv, Progress, HandStored
  <2>2. SkippedStored(r)'
    <3>1. skipSet[r] \subseteq CoveredUnder(opts[r].runId)
      BY DEF StorageInv, CallInv, SkippedStored
    <3>2. Cursor(log, opts[r].runId) \subseteq CoveredUnder(opts[r].runId)
      BY CursorCovered DEF StorageInv
    <3>3. CoveredUnder(opts[r].runId) \subseteq CoveredUnder(opts[r].runId)'
      BY <1>1, <1>2, CoveredUnderStays DEF StorageInv
    <3>4. QED  BY <1>1, <1>3, <3>1, <3>2, <3>3 DEF SkippedStored
  <2>3. PassedStored(r)'
    <3>1. recordCount'[r] = 0
      BY <1>1 DEF StorageInv, CallInv, Progress
    <3>2. QED  BY <1>1, <3>1 DEF PassedStored, Passed, Records
  <2>4. JobStored(r)'
    BY <1>1, <1>2, CoveredUnderStays DEF StorageInv, CallInv, JobStored
  <2>5. QED  BY <2>1, <2>2, <2>3, <2>4 DEF CallInv
<1>5. QED  BY <1>1, <1>2, <1>4, QuietStep

(* What a step of the walk that only moves the call keeps.                 *)
LEMMA WalkStep ==
  ASSUME TypeInv, StorageInv, NEW r \in Invocations, pc[r] = "pull",
         opts' = opts, file' = file, skipSet' = skipSet, failureCount' = failureCount,
         pc'[r] \in {"pull", "persist", "append", "done"},
         OthersUntouched(r), HistoryKept
  PROVE  SkippedStored(r)' /\ Progress(r)'
<1>1. Progress(r)'
  BY DEF StorageInv, CallInv, Progress
<1>2. CoveredUnder(opts[r].runId) \subseteq CoveredUnder(opts[r].runId)'
  BY CoveredUnderStays DEF StorageInv
<1>3. QED  BY <1>1, <1>2 DEF StorageInv, CallInv, SkippedStored

LEMMA StoragePull ==
  ASSUME TypeInv, StorageInv, SinkKind = "direct", NEW r \in Invocations,
         CancelBetween(r) \/ SkipRecord(r) \/ ProcessRecord(r)
           \/ StreamThrows(r) \/ EndOfStream(r)
  PROVE  StorageInv'
<1>1. /\ opts' = opts /\ file' = file /\ log' = log
      /\ skipSet' = skipSet /\ failureCount' = failureCount /\ pc[r] = "pull"
  BY DEF CancelBetween, SkipRecord, ProcessRecord, StreamThrows, EndOfStream,
     AtRecord, settings, walk, tally, output
<1>2. OthersUntouched(r)
  BY DEF CancelBetween, SkipRecord, ProcessRecord, StreamThrows, EndOfStream,
     Conclude, AggregateFailure, Return, Goto, OthersUntouched, TypeInv, TypeOK,
     settings, walk, tally
<1>3. pc'[r] \in {"pull", "persist", "append", "done"}
  BY DEF CancelBetween, SkipRecord, ProcessRecord, StreamThrows, EndOfStream,
     Conclude, AggregateFailure, Return, Goto, MustFlush, AtRecord, TypeInv, TypeOK
<1>4. HistoryKept
  <2>1. recordCount'[r] \in {recordCount[r], recordCount[r] + 1}
    BY DEF CancelBetween, SkipRecord, ProcessRecord, StreamThrows, EndOfStream, walk,
       TypeInv, TypeOK
  <2>2. QED  BY <1>1, <1>2, <1>3, <2>1 DEF HistoryKept, OthersUntouched
<1>5. SkippedStored(r)' /\ Progress(r)'
  BY <1>1, <1>2, <1>3, <1>4, WalkStep
<1>6. \A i : Stored(r, i)' <=> Stored(r, i)
  BY <1>1 DEF Stored
<1>7. HandStored(r)'
  BY <1>1, <1>3
  DEF CancelBetween, SkipRecord, ProcessRecord, StreamThrows, EndOfStream, AtRecord,
      Conclude, AggregateFailure, Return, Goto, MustFlush, TypeInv, TypeOK, HandStored
<1>8. PassedStored(r)'
  <2> SUFFICES ASSUME pc'[r] # "done", opts[r].mode = "execute", failureCount[r] = 0,
                      NEW i \in Records, Passed(r, i)'
               PROVE  i \in skipSet[r] \/ Stored(r, i)
    BY <1>1, <1>3, <1>6 DEF PassedStored
  <2>1. SkipRecord(r) \/ ProcessRecord(r)
    BY DEF CancelBetween, StreamThrows, EndOfStream, Conclude, AggregateFailure, Return,
       MustFlush, TypeInv, TypeOK
  <2>2. /\ recordCount[r] \in Nat /\ recordCount'[r] = recordCount[r] + 1 /\ i \in Nat
        /\ ProcessRecord(r) => pc'[r] # "pull"
        /\ SkipRecord(r) => recordCount[r] \in skipSet[r]
    BY <2>1, RunnerConstants
    DEF SkipRecord, ProcessRecord, IsSkipped, Goto, TypeInv, TypeOK, Records
  <2>3. CASE i < recordCount[r]
    <3>1. PassedStored(r)
      BY DEF StorageInv, CallInv
    <3>2. Passed(r, i)
      BY <1>1, <2>2, <2>3 DEF Passed
    <3>3. QED  BY <1>1, <3>1, <3>2 DEF PassedStored
  <2>4. CASE ~(i < recordCount[r])
    BY <2>1, <2>2, <2>4 DEF Passed
  <2>5. QED  BY <2>3, <2>4
<1>9. JobStored(r)'
  <2> SUFFICES ASSUME HopCount > 0, opts[r].mode = "execute", result'[r].status = "success"
               PROVE  Records \subseteq CoveredUnder(opts[r].runId)
    <3>1. CoveredUnder(opts[r].runId) \subseteq CoveredUnder(opts[r].runId)'
      BY <1>1, <1>4, CoveredUnderStays DEF StorageInv
    <3>2. QED  BY <1>1, <3>1 DEF JobStored
  <2>2. CASE result'[r] = result[r]
    BY <2>2 DEF StorageInv, CallInv, JobStored
  <2>3. CASE result'[r] # result[r]
    <3>1. EndOfStream(r) /\ Conclude(r)
      BY <2>3 DEF CancelBetween, SkipRecord, ProcessRecord, StreamThrows, EndOfStream,
         Return, Goto, MustFlush, TypeInv, TypeOK
    <3>2. failureCount[r] = 0
      <4>1. failureCount[r] \in Nat /\ firstFailure[r] # "success"
        BY DEF TypeInv, TypeOK, RecordClasses, PipelineClasses
      <4>2. QED  BY <3>1, <4>1 DEF Conclude, AggregateFailure, Return, TypeInv, TypeOK
    <3>3. \A i \in Records : Passed(r, i)
      BY <1>1, <3>1, RunnerConstants DEF EndOfStream, Passed, Records
    <3>4. \A i \in Records : i \in skipSet[r] \/ Stored(r, i)
      BY <1>1, <3>2, <3>3 DEF StorageInv, CallInv, PassedStored
    <3>5. QED  BY <3>4, StoredIsStoredUnder DEF StorageInv, CallInv, SkippedStored, CoveredUnder
  <2>4. QED  BY <2>2, <2>3
<1>10. QED  BY <1>1, <1>2, <1>4, <1>5, <1>7, <1>8, <1>9, QuietStep DEF CallInv

LEMMA StorageGrowth ==
  ASSUME TypeInv, SinkKind = "direct", NEW r \in Invocations, Store(r),
         recordCount' = recordCount
  PROVE  /\ file' = Append(file, ItemOf(r))
         /\ Stored(r, recordCount[r] - 1)'
         /\ \A n \in DOMAIN file : n \in DOMAIN file' /\ file'[n] = file[n]
         /\ \A n \in DOMAIN file' : n \in DOMAIN file \/ file'[n] = ItemOf(r)
<1>1. file' = Append(file, ItemOf(r)) /\ file \in Seq(Item)
  BY DEF Store, TypeInv, TypeOK
<1>2. /\ Len(file) + 1 \in DOMAIN file' /\ file'[Len(file) + 1] = ItemOf(r)
      /\ \A n \in DOMAIN file : n \in DOMAIN file' /\ file'[n] = file[n]
      /\ \A n \in DOMAIN file' : n \in DOMAIN file \/ n = Len(file) + 1
  BY <1>1
<1>3. file'[Len(file) + 1] = [by |-> r, recordIndex |-> recordCount[r] - 1]
  BY <1>2 DEF ItemOf
<1>4. Stored(r, recordCount[r] - 1)'
  BY <1>2, <1>3 DEF Stored
<1>5. QED  BY <1>1, <1>2, <1>4

LEMMA StoragePersist ==
  ASSUME TypeInv, StorageInv, SinkKind = "direct", NEW r \in Invocations,
         Persist(r) \/ PersistThrows(r)
  PROVE  StorageInv'
<1>1. /\ opts' = opts /\ log' = log /\ skipSet' = skipSet
      /\ failureCount' = failureCount /\ recordCount' = recordCount /\ result' = result
      /\ pc[r] = "persist" /\ pc'[r] = "append"
      /\ OthersUntouched(r)
  BY DEF Persist, PersistThrows, Goto, settings, walk, tally, OthersUntouched, TypeInv, TypeOK
<1>2. /\ \A n \in DOMAIN file : n \in DOMAIN file' /\ file'[n] = file[n]
      /\ \A n \in DOMAIN file' : n \in DOMAIN file \/ file'[n] = ItemOf(r)
  BY <1>1, StorageGrowth DEF Persist, PersistThrows, output
<1>3. HistoryKept
  BY <1>1, <1>2 DEF HistoryKept, OthersUntouched
<1>4. Persist(r) \/ outcome'[r] # "success"
  BY DEF PersistThrows, TypeInv, TypeOK
<1>5. LogInv'
  BY <1>1, <1>3, LogUntouched DEF StorageInv
<1>6. FileInv'
  <2> SUFFICES ASSUME NEW n \in DOMAIN file'  PROVE pc'[file'[n].by] # "idle"
    BY DEF FileInv
  <2>1. CASE n \in DOMAIN file
    BY <1>2, <1>3, <2>1, ItemTypes DEF StorageInv, FileInv, HistoryKept, Item
  <2>2. CASE file'[n] = ItemOf(r)
    BY <1>1, <2>2 DEF ItemOf
  <2>3. QED  BY <1>2, <2>1, <2>2
<1>7. CallInv(r)'
  <2>1. Progress(r)'
    BY <1>1 DEF StorageInv, CallInv, Progress
  <2>2. HandStored(r)'
    <3>1. Persist(r) => Stored(r, recordCount[r] - 1)'
      BY <1>1, StorageGrowth DEF Persist
    <3>2. QED  BY <1>1, <1>4, <3>1 DEF HandStored
  <2>4. CoveredUnder(opts[r].runId) \subseteq CoveredUnder(opts[r].runId)'
    BY <1>1, <1>3, CoveredUnderStays DEF StorageInv
  <2>5. SkippedStored(r)' /\ JobStored(r)'
    BY <1>1, <2>4 DEF StorageInv, CallInv, SkippedStored, JobStored
  <2>6. PassedStored(r)'
    BY <1>1, <1>3, StoredStays DEF StorageInv, CallInv, PassedStored, Passed
  <2>7. QED  BY <2>1, <2>2, <2>5, <2>6 DEF CallInv
<1>8. QED  BY <1>1, <1>3, <1>5, <1>6, <1>7, StepOfOne

(* A new line of the log is the entry of the record in hand. *)
LEMMA NewLine ==
  ASSUME TypeInv, NEW r \in Invocations, InHand(r),
         log' \in {AppendLine(log, EntryOf(r))} \cup AppendPart(log, EntryOf(r)),
         NEW k \in DOMAIN log'
  PROVE  \/ /\ k \in DOMAIN log
            /\ log'[k].by = log[k].by /\ log'[k].runId = log[k].runId
            /\ log'[k].recordIndex = log[k].recordIndex
            /\ log'[k].status = "success" => log[k].status = "success"
         \/ /\ log'[k].by = r /\ log'[k].runId = opts[r].runId
            /\ log'[k].recordIndex = recordCount[r] - 1
            /\ log'[k].status = "success" => outcome[r] = "success"
<1>1. log \in Seq(AuditLine)
  BY DEF TypeInv, TypeOK
<1>2. EntryOf(r) \in AuditLine
  BY EntryType
<1>3. /\ EntryOf(r).by = r /\ EntryOf(r).runId = opts[r].runId
      /\ EntryOf(r).recordIndex = recordCount[r] - 1
      /\ EntryOf(r).status = "success" => outcome[r] = "success"
  BY DEF EntryOf, AuditEntry
<1>4. CASE log' = log
  BY <1>4
<1>5. CASE Appended(log, EntryOf(r), log')
  <2>1. PICK x \in AuditLine :
          /\ SameRecord(x, EntryOf(r)) /\ (x.status = "success" => EntryOf(r).status = "success")
          /\ log' = Append(log, x)
    BY <1>5 DEF Appended
  <2>2. CASE k \in DOMAIN log
    BY <1>1, <2>1, <2>2
  <2>3. CASE k \notin DOMAIN log
    <3>1. log'[k] = x
      BY <1>1, <2>1, <2>3
    <3>2. QED  BY <1>3, <2>1, <3>1 DEF SameRecord
  <2>4. QED  BY <2>2, <2>3
<1>6. CASE Spoiled(log, log')
  <2>1. PICK x \in AuditLine :
          /\ log # <<>> /\ SameRecord(x, log[Len(log)]) /\ x.status = "unreadable"
          /\ log' = [log EXCEPT ![Len(log)] = x]
    BY <1>6 DEF Spoiled
  <2>2. k \in DOMAIN log /\ log'[k] = IF k = Len(log) THEN x ELSE log[k]
    BY <1>1, <2>1
  <2>3. QED  BY <2>1, <2>2 DEF SameRecord
<1>7. QED  BY <1>1, <1>2, <1>4, <1>5, <1>6, AppendShapes

LEMMA StorageAppend ==
  ASSUME TypeInv, StorageInv, SinkKind = "direct", NEW r \in Invocations,
         AppendAudit(r) \/ AppendThrows(r)
  PROVE  StorageInv'
<1>1. /\ opts' = opts /\ file' = file /\ skipSet' = skipSet /\ recordCount' = recordCount
      /\ pc[r] = "append" /\ InHand(r)
      /\ log' \in {AppendLine(log, EntryOf(r))} \cup AppendPart(log, EntryOf(r))
  BY DEF AppendAudit, AppendThrows, settings, walk, output, InHand
<1>2. /\ OthersUntouched(r) /\ pc'[r] \in {"pull", "done"}
      /\ result'[r].status = "success" => result'[r] = result[r]
      /\ pc'[r] = "pull" => \/ outcome[r] = "success" /\ failureCount' = failureCount
                           \/ failureCount'[r] # 0
  <2>1. CASE AppendAudit(r) /\ outcome[r] = "success"
    BY <2>1 DEF AppendAudit, CountSuccess, Goto, OthersUntouched, TypeInv, TypeOK,
       settings, walk
  <2>2. CASE AppendAudit(r) /\ outcome[r] # "success"
    <3>1. CountFailure(r) /\ opts' = opts /\ recordCount' = recordCount
          /\ skipSet' = skipSet /\ outcome' = outcome
      BY <2>2 DEF AppendAudit, settings, walk
    <3>2. FirstFailure(r) # "success"
      BY <2>2 DEF FirstFailure, TypeInv, TypeOK, RecordClasses, PipelineClasses
    <3>3. failureCount[r] \in Nat /\ failureCount'[r] = failureCount[r] + 1
      BY <3>1 DEF CountFailure, TypeInv, TypeOK
    <3>4. \A q \in Invocations : q # r => failureCount'[q] = failureCount[q]
      BY <3>1 DEF CountFailure, TypeInv, TypeOK
    <3>5. /\ pc'[r] \in {"pull", "done"}
          /\ result'[r].status = "success" => result'[r] = result[r]
          /\ \A q \in Invocations : q # r => pc'[q] = pc[q] /\ result'[q] = result[q]
      BY <3>1, <3>2 DEF CountFailure, AggregateFailure, Return, Goto, TypeInv, TypeOK
    <3>6. QED  BY <3>1, <3>3, <3>4, <3>5 DEF OthersUntouched
  <2>3. CASE AppendThrows(r)
    BY <2>3 DEF AppendThrows, Return, OthersUntouched, TypeInv, TypeOK, settings, walk, tally
  <2>4. QED  BY <2>1, <2>2, <2>3 DEF AppendAudit
<1>3. HistoryKept
  BY <1>1, <1>2 DEF HistoryKept, OthersUntouched
<1>4. Progress(r) /\ HandStored(r) /\ PassedStored(r) /\ SkippedStored(r) /\ JobStored(r)
  BY DEF StorageInv, CallInv
<1>5. LogInv'
  <2> SUFFICES ASSUME NEW k \in DOMAIN log'
               PROVE  /\ pc'[log'[k].by] # "idle"
                      /\ log'[k].runId = opts[log'[k].by].runId
                      /\ opts[log'[k].by].mode \in {"dry-run", "execute"}
                      /\ log'[k].recordIndex < recordCount[log'[k].by]
                      /\ log'[k].status = "success" /\ opts[log'[k].by].mode = "execute"
                           => Stored(log'[k].by, log'[k].recordIndex)
    BY <1>1 DEF LogInv, Stored
  <2>1. CASE /\ k \in DOMAIN log
             /\ log'[k].by = log[k].by /\ log'[k].runId = log[k].runId
             /\ log'[k].recordIndex = log[k].recordIndex
             /\ log'[k].status = "success" => log[k].status = "success"
    <3>1. log[k].by \in Invocations
      BY <2>1, LineTypes DEF AuditLine
    <3>2. QED  BY <1>3, <2>1, <3>1 DEF StorageInv, LogInv, HistoryKept
  <2>2. CASE /\ log'[k].by = r /\ log'[k].runId = opts[r].runId
             /\ log'[k].recordIndex = recordCount[r] - 1
             /\ log'[k].status = "success" => outcome[r] = "success"
    <3>1. recordCount[r] - 1 < recordCount[r]
      BY DEF TypeInv, TypeOK
    <3>2. QED  BY <1>1, <1>2, <1>4, <2>2, <3>1 DEF Progress, HandStored
  <2>3. QED  BY <1>1, <2>1, <2>2, NewLine
<1>6. FileInv'
  BY <1>1, <1>3, FileUntouched DEF StorageInv
<1>7. CallInv(r)'
  <2>1. Progress(r)' /\ HandStored(r)'
    BY <1>1, <1>2, <1>4 DEF Progress, HandStored
  <2>3. CoveredUnder(opts[r].runId) \subseteq CoveredUnder(opts[r].runId)'
    BY <1>1, <1>3, CoveredUnderStays DEF StorageInv
  <2>4. SkippedStored(r)' /\ JobStored(r)'
    BY <1>1, <1>2, <1>4, <2>3 DEF SkippedStored, JobStored
  <2>5. PassedStored(r)'
    <3> SUFFICES ASSUME pc'[r] = "pull", opts[r].mode = "execute", failureCount'[r] = 0,
                        NEW i \in Records, Passed(r, i)'
                 PROVE  i \in skipSet[r] \/ Stored(r, i)'
      BY <1>1, <1>2 DEF PassedStored
    <3>1. outcome[r] = "success" /\ failureCount[r] = 0
      BY <1>2
    <3>2. i \in Nat /\ recordCount[r] \in Nat
      BY RunnerConstants DEF Records, TypeInv, TypeOK
    <3>3. i < recordCount[r] /\ (Stored(r, i) => Stored(r, i)')
      BY <1>1, <1>3, <3>2, StoredStays DEF Passed
    <3>4. CASE i < recordCount[r] - 1
      BY <1>1, <1>4, <3>1, <3>3, <3>4 DEF PassedStored, Passed
    <3>5. CASE i = recordCount[r] - 1
      BY <1>1, <1>4, <3>1, <3>3, <3>5 DEF HandStored
    <3>6. QED  BY <3>2, <3>3, <3>4, <3>5
  <2>6. QED  BY <2>1, <2>4, <2>5 DEF CallInv
<1>8. QED  BY <1>2, <1>3, <1>5, <1>6, <1>7, StepOfOne

LEMMA StorageAbort ==
  ASSUME TypeInv, StorageInv, NEW r \in Invocations, Abort(r)
  PROVE  StorageInv'
<1>1. /\ pc' = pc /\ opts' = opts /\ log' = log /\ file' = file
      /\ OthersUntouched(r) /\ HistoryKept
  BY DEF Abort, walk, tally, output, OthersUntouched, HistoryKept
<1>2. CallInv(r)'
  BY <1>1, CallUntouched DEF StorageInv, Abort, walk, tally
<1>3. QED  BY <1>1, <1>2, QuietStep

(* A crash ends the calls in flight, loses a log in memory and may leave   *)
(* one line that is cut short or without its newline.                      *)
LEMMA StorageCrash ==
  ASSUME TypeInv, StorageInv, Crash
  PROVE  StorageInv'
<1>1. /\ opts' = opts /\ result' = result /\ outcome' = outcome
      /\ recordCount' = recordCount /\ skipSet' = skipSet /\ failureCount' = failureCount
      /\ \A q \in Invocations : pc'[q] \in {pc[q], "crashed"} /\ (pc[q] = "idle" => pc'[q] = "idle")
  BY DEF Crash, settings, walk, tally, InFlight, TypeInv, TypeOK
<1>2. file' = file
  BY DEF Crash, StorageInv, CallInv, Progress
<1>3. HistoryKept
  BY <1>1, <1>2 DEF HistoryKept
<1>4. \A q \in Invocations : CallInv(q)'
  BY <1>1, <1>3, CallUntouched DEF StorageInv
<1>5. LogInv'
  <2>1. CASE log' = <<>>
    BY <2>1 DEF LogInv
  <2>2. CASE log' # <<>>
    <3>1. \/ log' = log
          \/ \E r \in Invocations : pc[r] = "append" /\ log' \in AppendPart(log, EntryOf(r))
      BY <2>2 DEF Crash
    <3>2. CASE log' = log
      BY <1>3, <3>2, LogUntouched DEF StorageInv
    <3>3. CASE \E r \in Invocations : pc[r] = "append" /\ log' \in AppendPart(log, EntryOf(r))
      <4>1. PICK r \in Invocations : pc[r] = "append" /\ log' \in AppendPart(log, EntryOf(r))
        BY <3>3
      <4>2. InHand(r) /\ Progress(r) /\ HandStored(r)
        BY <4>1 DEF InHand, StorageInv, CallInv
      <4> SUFFICES ASSUME NEW k \in DOMAIN log'
                   PROVE  /\ pc'[log'[k].by] # "idle"
                          /\ log'[k].runId = opts[log'[k].by].runId
                          /\ opts[log'[k].by].mode \in {"dry-run", "execute"}
                          /\ log'[k].recordIndex < recordCount[log'[k].by]
                          /\ log'[k].status = "success" /\ opts[log'[k].by].mode = "execute"
                               => Stored(log'[k].by, log'[k].recordIndex)
        BY <1>1, <1>2 DEF LogInv, Stored
      <4>3. CASE /\ k \in DOMAIN log
                 /\ log'[k].by = log[k].by /\ log'[k].runId = log[k].runId
                 /\ log'[k].recordIndex = log[k].recordIndex
                 /\ log'[k].status = "success" => log[k].status = "success"
        <5>1. log[k].by \in Invocations
          BY <4>3, LineTypes DEF AuditLine
        <5>2. QED  BY <1>3, <4>3, <5>1 DEF StorageInv, LogInv, HistoryKept
      <4>4. CASE /\ log'[k].by = r /\ log'[k].runId = opts[r].runId
                 /\ log'[k].recordIndex = recordCount[r] - 1
                 /\ log'[k].status = "success" => outcome[r] = "success"
        <5>1. recordCount[r] - 1 < recordCount[r]
          BY DEF TypeInv, TypeOK
        <5>2. QED  BY <1>1, <4>1, <4>2, <4>4, <5>1 DEF Progress, HandStored
      <4>5. QED  BY <4>1, <4>2, <4>3, <4>4, NewLine
    <3>4. QED  BY <3>1, <3>2, <3>3
  <2>3. QED  BY <2>1, <2>2
<1>6. FileInv'
  BY <1>2, <1>3, FileUntouched DEF StorageInv
<1>7. QED  BY <1>4, <1>5, <1>6 DEF StorageInv

-----------------------------------------------------------------------------
LEMMA StorageInit == Init => StorageInv
<1> SUFFICES ASSUME Init  PROVE StorageInv
  OBVIOUS
<1>1. LogInv /\ FileInv
  BY DEF Init, LogInv, FileInv
<1>2. \A r \in Invocations : CallInv(r)
  BY DEF Init, CallInv, Progress, HandStored, SkippedStored, PassedStored, JobStored, NoResult
<1>3. QED  BY <1>1, <1>2 DEF StorageInv

LEMMA StorageStutter ==
  ASSUME TypeInv, StorageInv, UNCHANGED vars  PROVE StorageInv'
<1>1. /\ pc' = pc /\ opts' = opts /\ log' = log /\ file' = file /\ result' = result
      /\ outcome' = outcome /\ recordCount' = recordCount /\ skipSet' = skipSet
      /\ failureCount' = failureCount /\ HistoryKept
  BY DEF vars, settings, walk, tally, output, HistoryKept
<1>2. QED  BY <1>1, CallUntouched, LogUntouched, FileUntouched DEF StorageInv

LEMMA StorageNext ==
  ASSUME SinkKind = "direct"
  PROVE  TypeInv /\ StorageInv /\ [Next]_vars => StorageInv'
<1> SUFFICES ASSUME TypeInv, StorageInv, [Next]_vars  PROVE StorageInv'
  OBVIOUS
<1>1. CASE Crash
  BY <1>1, StorageCrash
<1>2. CASE UNCHANGED vars
  BY <1>2, StorageStutter
<1>3. ASSUME NEW r \in Invocations,
             \/ PreFlightRefused(r) \/ NothingToWalk(r) \/ Begin(r)
             \/ Advance(r)
             \/ StreamThrows(r) \/ PersistThrows(r) \/ AppendThrows(r) \/ FlushThrows(r)
             \/ Abort(r)
      PROVE  StorageInv'
  <2>1. ~(FlushSnapshot(r) \/ FlushWrite(r) \/ FlushThrows(r))
    BY DEF StorageInv, CallInv, Progress, FlushSnapshot, FlushWrite, FlushThrows
  <2>2. QED  BY <1>3, <2>1, StorageCall, StorageCursor, StoragePull, StoragePersist,
                StorageAppend, StorageAbort DEF Advance
<1>4. QED  BY <1>1, <1>2, <1>3 DEF Next

LEMMA StorageCorrect == SinkKind = "direct" => (Spec => [](TypeInv /\ StorageInv))
<1>1. CASE SinkKind = "direct"
  <2>1. TypeInv /\ StorageInv /\ [Next]_vars => (TypeInv /\ StorageInv)'
    BY <1>1, TypeNext, StorageNext
  <2>2. Init => TypeInv /\ StorageInv
    BY TypeInit, StorageInit
  <2>3. QED  BY <2>1, <2>2, PTL DEF Spec
<1>2. QED  BY <1>1

-----------------------------------------------------------------------------
(* A success line of an execute run is never ahead of the output: what it  *)
(* names was stored by the call that wrote it (runner.ts:222 before :255), *)
(* over any number of calls, crashes and adapter failures.                 *)
THEOREM AuditedStored == Spec => []AuditedImpliesStored
<1>1. CASE SinkKind = "direct"
  <2>1. StorageInv => AuditedImpliesStored
    BY DEF StorageInv, LogInv, AuditedImpliesStored
  <2>2. QED  BY <1>1, <2>1, StorageCorrect, PTL
<1>2. CASE SinkKind # "direct"
  <2>1. AuditedImpliesStored
    BY <1>2 DEF AuditedImpliesStored
  <2>2. QED  BY <2>1, PTL
<1>3. QED  BY <1>1, <1>2

(* When an execute call returns success, all records of the input are      *)
(* stored under its runId, whatever calls, crashes and failures came       *)
(* before, but for those a dry run has walked past under that runId        *)
(* (runner.ts:149-163, 196-351).                                           *)
THEOREM CompletedStored == Spec => []CompletedJobIsComplete
<1>1. CASE SinkKind = "direct"
  <2>1. StorageInv => CompletedJobIsComplete
    BY DEF StorageInv, CallInv, JobStored, CoveredUnder, CompletedJobIsComplete
  <2>2. QED  BY <1>1, <2>1, StorageCorrect, PTL
<1>2. CASE SinkKind # "direct"
  <2>1. CompletedJobIsComplete
    BY <1>2 DEF CompletedJobIsComplete
  <2>2. QED  BY <2>1, PTL
<1>3. QED  BY <1>1, <1>2

-----------------------------------------------------------------------------
(* The refinement of AtLeastOnce: a persist delivers, a success line of an *)
(* execute call acknowledges, a crash may lose a ledger held in memory.    *)

LEMMA DeliveredSame ==
  ASSUME TypeInv, FileInv, HistoryKept, file' = file, NEW job
  PROVE  StoredUnder(job)' = StoredUnder(job)
<1>1. \A n \in DOMAIN file : opts'[file[n].by] = opts[file[n].by]
  BY ItemTypes DEF FileInv, HistoryKept, Item
<1>2. QED  BY <1>1 DEF StoredUnder

LEMMA AckedSame ==
  ASSUME TypeInv, LogInv, HistoryKept, NEW job,
         \A k \in DOMAIN log : k \in DOMAIN log' /\ (log[k].status = "success" => log'[k] = log[k]),
         \A k \in DOMAIN log' : log'[k].status = "success" /\ opts'[log'[k].by].mode = "execute"
           => k \in DOMAIN log /\ log[k].status = "success"
  PROVE  AckedUnder(job)' = AckedUnder(job)
<1>1. \A k \in DOMAIN log : opts'[log[k].by] = opts[log[k].by]
  BY LineTypes DEF LogInv, HistoryKept, AuditLine
<1>2. QED  BY <1>1 DEF AckedUnder

LedgerStep(job, item) ==
  /\ \A j \in Invocations : AckedUnder(j)' =
       IF j = job THEN AckedUnder(j) \cup {item} ELSE AckedUnder(j)
  /\ item \in StoredUnder(job)

DeliveryStep(job, item) ==
  \A j \in Invocations : StoredUnder(j)' =
    IF j = job THEN StoredUnder(j) \cup {item} ELSE StoredUnder(j)

LedgerLoss(job, item) ==
  \A j \in Invocations : AckedUnder(j)' \in
    IF j = job THEN {AckedUnder(j), AckedUnder(j) \ {item}} ELSE {AckedUnder(j)}

(* A line at the end of the log acknowledges the record it names if it is  *)
(* the success of an execute call, and nothing otherwise.                  *)
LEMMA AppendedAcks ==
  ASSUME TypeInv, StorageInv, NEW r \in Invocations, HistoryKept, opts' = opts,
         pc[r] = "append", Appended(log, EntryOf(r), log')
  PROVE  \/ \A j \in Invocations : AckedUnder(j)' = AckedUnder(j)
         \/ LedgerStep(opts[r].runId, recordCount[r] - 1)
<1>1. PICK e \in AuditLine :
        /\ SameRecord(e, EntryOf(r)) /\ (e.status = "success" => EntryOf(r).status = "success")
        /\ log' = Append(log, e)
  BY DEF Appended
<1>2. /\ e.by = r /\ e.runId = opts[r].runId /\ e.recordIndex = recordCount[r] - 1
      /\ e.status = "success" => outcome[r] = "success"
  BY <1>1 DEF EntryOf, AuditEntry, SameRecord
<1>3. /\ Len(log) + 1 \in DOMAIN log' /\ log'[Len(log) + 1] = e
      /\ \A k \in DOMAIN log : k \in DOMAIN log' /\ log'[k] = log[k]
      /\ \A k \in DOMAIN log' : k \in DOMAIN log \/ log'[k] = e
  <2>1. log \in Seq(AuditLine)
    BY DEF TypeInv, TypeOK
  <2>2. QED  BY <1>1, <2>1
<1>4. CASE e.status = "success" /\ opts[r].mode = "execute"
  <2>1. recordCount[r] - 1 \in StoredUnder(opts[r].runId)
    BY <1>2, <1>4, StoredIsStoredUnder DEF StorageInv, CallInv, HandStored
  <2>2. \A j \in Invocations : AckedUnder(j)' =
          IF j = opts[r].runId THEN AckedUnder(j) \cup {recordCount[r] - 1} ELSE AckedUnder(j)
    <3> TAKE j \in Invocations
    <3>1. \A i \in AckedUnder(j)' : i \in AckedUnder(j) \/ (j = opts[r].runId /\ i = recordCount[r] - 1)
      BY <1>2, <1>3 DEF AckedUnder
    <3>2. \A i \in AckedUnder(j) : i \in AckedUnder(j)'
      BY <1>3 DEF AckedUnder
    <3>3. j = opts[r].runId => recordCount[r] - 1 \in AckedUnder(j)'
      BY <1>2, <1>3, <1>4 DEF AckedUnder
    <3>4. QED  BY <3>1, <3>2, <3>3
  <2>3. QED  BY <2>1, <2>2 DEF LedgerStep
<1>5. CASE ~(e.status = "success" /\ opts[r].mode = "execute")
  <2>1. \A k \in DOMAIN log' : log'[k].status = "success" /\ opts'[log'[k].by].mode = "execute"
           => k \in DOMAIN log /\ log[k].status = "success"
    BY <1>2, <1>3, <1>5
  <2>2. QED  BY <1>3, <2>1, AckedSame DEF StorageInv
<1>6. QED  BY <1>4, <1>5

(* A spoilt line withdraws at most the acknowledgement it was.             *)
LEMMA SpoiledAcks ==
  ASSUME TypeInv, opts' = opts, Spoiled(log, log')
  PROVE  \E job \in Invocations, item \in Records : LedgerLoss(job, item)
<1>1. PICK x \in AuditLine : /\ log # <<>> /\ SameRecord(x, log[Len(log)])
                             /\ x.status = "unreadable" /\ log' = [log EXCEPT ![Len(log)] = x]
  BY DEF Spoiled
<1>2. /\ DOMAIN log' = DOMAIN log /\ Len(log) \in DOMAIN log
      /\ \A k \in DOMAIN log : log'[k] = IF k = Len(log) THEN x ELSE log[k]
  <2>1. log \in Seq(AuditLine)
    BY DEF TypeInv, TypeOK
  <2>2. QED  BY <1>1, <2>1
<1> DEFINE last == log[Len(log)]
<1>3. last.runId \in Invocations /\ last.recordIndex \in Records
  BY <1>2, LineTypes DEF AuditLine
<1>4. ASSUME NEW j \in Invocations
      PROVE  /\ \A i \in AckedUnder(j)' : i \in AckedUnder(j)
             /\ \A i \in AckedUnder(j) :
                  i \in AckedUnder(j)' \/ (j = last.runId /\ i = last.recordIndex)
  <2>1. \A i \in AckedUnder(j)' : i \in AckedUnder(j)
    BY <1>1, <1>2 DEF AckedUnder
  <2>2. \A i \in AckedUnder(j) : i \in AckedUnder(j)' \/ (j = last.runId /\ i = last.recordIndex)
    BY <1>1, <1>2 DEF AckedUnder
  <2>3. QED  BY <2>1, <2>2
<1>5. LedgerLoss(last.runId, last.recordIndex)
  BY <1>4 DEF LedgerLoss
<1>6. QED  BY <1>3, <1>5

LEMMA PersistDelivers ==
  ASSUME TypeInv, SinkKind = "direct", NEW r \in Invocations, Persist(r) \/ PersistThrows(r)
  PROVE  \/ file' = file
         \/ DeliveryStep(opts[r].runId, recordCount[r] - 1)
<1>1. opts' = opts /\ recordCount' = recordCount
  BY DEF Persist, PersistThrows, settings, walk
<1>2. CASE Store(r)
  <2>1. /\ \A n \in DOMAIN file : n \in DOMAIN file' /\ file'[n] = file[n]
        /\ \A n \in DOMAIN file' : n \in DOMAIN file \/ file'[n] = ItemOf(r)
        /\ Stored(r, recordCount[r] - 1)'
    BY <1>1, <1>2, StorageGrowth
  <2>2. ItemOf(r).by = r /\ ItemOf(r).recordIndex = recordCount[r] - 1
    BY DEF ItemOf
  <2> SUFFICES ASSUME NEW j \in Invocations
               PROVE  StoredUnder(j)' = IF j = opts[r].runId
                        THEN StoredUnder(j) \cup {recordCount[r] - 1} ELSE StoredUnder(j)
    BY DEF DeliveryStep
  <2>3. \A i \in StoredUnder(j)' : i \in StoredUnder(j) \/ (j = opts[r].runId /\ i = recordCount[r] - 1)
    BY <1>1, <2>1, <2>2 DEF StoredUnder
  <2>4. \A i \in StoredUnder(j) : i \in StoredUnder(j)'
    BY <1>1, <2>1 DEF StoredUnder
  <2>5. j = opts[r].runId => recordCount[r] - 1 \in StoredUnder(j)'
    BY <1>1, <2>1 DEF StoredUnder, Stored
  <2>6. QED  BY <2>3, <2>4, <2>5
<1>3. QED  BY <1>2 DEF Persist, PersistThrows, output

LEMMA KeepsHistory ==
  ASSUME TypeInv, StorageInv, SinkKind = "direct", [Next]_vars
  PROVE  HistoryKept
<1>1. CASE Crash
  <2>1. file' = file /\ opts' = opts /\ recordCount' = recordCount
    BY <1>1 DEF Crash, StorageInv, CallInv, Progress, settings, walk
  <2>2. \A q \in Invocations : pc[q] # "idle" => pc'[q] # "idle"
    BY <1>1 DEF Crash
  <2>3. QED  BY <2>1, <2>2 DEF HistoryKept
<1>2. CASE UNCHANGED vars
  BY <1>2 DEF vars, settings, walk, output, HistoryKept
<1>3. ASSUME NEW r \in Invocations, PreFlightRefused(r) \/ NothingToWalk(r) \/ Begin(r)
      PROVE  HistoryKept
  BY <1>3 DEF PreFlightRefused, NothingToWalk, Begin, Call, Return, Goto, OpenStream, output,
     HistoryKept, TypeInv, TypeOK
<1>4. ASSUME NEW r \in Invocations, Persist(r) \/ PersistThrows(r)
      PROVE  HistoryKept
  <2>1. \A n \in DOMAIN file : n \in DOMAIN file' /\ file'[n] = file[n]
    BY <1>4, StorageGrowth DEF Persist, PersistThrows, output, walk
  <2>2. QED  BY <1>4, <2>1 DEF Persist, PersistThrows, Goto, settings, walk, HistoryKept,
                TypeInv, TypeOK
<1>5. ASSUME NEW r \in Invocations,
             \/ ReadCursor(r) \/ CursorThrows(r) \/ CancelBetween(r) \/ SkipRecord(r)
             \/ ProcessRecord(r) \/ EndOfStream(r) \/ AppendAudit(r)
             \/ StreamThrows(r) \/ AppendThrows(r) \/ Abort(r)
      PROVE  HistoryKept
  <2>1. opts' = opts /\ file' = file
    BY <1>5 DEF ReadCursor, CursorThrows, CancelBetween, SkipRecord, ProcessRecord, EndOfStream,
       AppendAudit, StreamThrows, AppendThrows, Abort, settings, output
  <2>2. \A q \in Invocations : pc[q] # "idle" => pc'[q] # "idle"
    BY <1>5 DEF ReadCursor, CursorThrows, OpenStream, CancelBetween, SkipRecord, ProcessRecord,
       EndOfStream, Conclude, AppendAudit, CountSuccess, CountFailure, AggregateFailure,
       StreamThrows, AppendThrows, Abort, Goto, Return, TypeInv, TypeOK
  <2>3. recordCount' = recordCount \/ recordCount' = [recordCount EXCEPT ![r] = @ + 1]
    BY <1>5 DEF ReadCursor, CursorThrows, CancelBetween, SkipRecord, ProcessRecord, EndOfStream,
       AppendAudit, StreamThrows, AppendThrows, Abort, walk
  <2>4. \A q \in Invocations : recordCount'[q] \in {recordCount[q], recordCount[q] + 1}
    BY <2>3 DEF TypeInv, TypeOK
  <2>5. QED  BY <2>1, <2>2, <2>4 DEF HistoryKept
<1>6. \A r \in Invocations : ~(FlushSnapshot(r) \/ FlushWrite(r) \/ FlushThrows(r))
  BY DEF StorageInv, CallInv, Progress, FlushSnapshot, FlushWrite, FlushThrows
<1>7. QED  BY <1>1, <1>2, <1>3, <1>4, <1>5, <1>6 DEF Next, Advance

LEMMA LedgerInit == Init => Ledger!Init
BY DEF Init, Ledger!Init, StoredUnder, AckedUnder

Delivered == [j \in Invocations |-> StoredUnder(j)]
Acked     == [j \in Invocations |-> AckedUnder(j)]

LEMMA LedgerNext ==
  ASSUME TypeInv, StorageInv, SinkKind = "direct", [Next]_vars
  PROVE  [Ledger!Next]_<<Delivered, Acked>>
<1>1. HistoryKept
  BY KeepsHistory
<1>2. LogInv /\ FileInv
  BY DEF StorageInv
<1>3. file' = file => Delivered' = Delivered
  BY <1>1, <1>2, DeliveredSame DEF Delivered
<1>4. log' = log => Acked' = Acked
  BY <1>1, <1>2, AckedSame DEF Acked
<1>5. ASSUME NEW r \in Invocations, pc[r] = "append", opts' = opts, file' = file,
             log' \in {AppendLine(log, EntryOf(r))} \cup AppendPart(log, EntryOf(r))
      PROVE  [Ledger!Next]_<<Delivered, Acked>>
  <2>1. InHand(r)
    BY <1>5 DEF InHand
  <2>2. opts[r].runId \in Invocations /\ recordCount[r] - 1 \in Records
    BY <2>1, EntryType DEF ItemOf, Item, TypeInv, TypeOK, RunOpts
  <2>3. CASE \A j \in Invocations : AckedUnder(j)' = AckedUnder(j)
    BY <1>3, <1>5, <2>3 DEF Acked
  <2>4. CASE LedgerStep(opts[r].runId, recordCount[r] - 1)
    <3>1. Acked' = [Acked EXCEPT ![opts[r].runId] = @ \cup {recordCount[r] - 1}]
      BY <2>2, <2>4 DEF LedgerStep, Acked
    <3>2. recordCount[r] - 1 \in Delivered[opts[r].runId]
      BY <2>2, <2>4 DEF LedgerStep, Delivered
    <3>3. QED  BY <1>3, <1>5, <2>2, <3>1, <3>2 DEF Ledger!Next, Ledger!Ack, Delivered, Acked
  <2>5. CASE Spoiled(log, log')
    <3>1. PICK job \in Invocations, item \in Records : LedgerLoss(job, item)
      BY <1>5, <2>5, SpoiledAcks
    <3>2. Acked' = Acked \/ Acked' = [Acked EXCEPT ![job] = @ \ {item}]
      <4>1. CASE AckedUnder(job)' = AckedUnder(job)
        BY <3>1, <4>1 DEF LedgerLoss, Acked
      <4>2. CASE AckedUnder(job)' = AckedUnder(job) \ {item}
        BY <3>1, <4>2 DEF LedgerLoss, Acked
      <4>3. QED  BY <3>1, <4>1, <4>2 DEF LedgerLoss
    <3>3. QED  BY <1>3, <1>5, <3>2 DEF Ledger!Next, Ledger!LoseAck, Delivered, Acked
  <2>6. log \in Seq(AuditLine) /\ EntryOf(r) \in AuditLine
    BY <2>1, EntryType DEF TypeInv, TypeOK
  <2>7. QED  BY <1>1, <1>4, <1>5, <2>3, <2>4, <2>5, <2>6, AppendShapes, AppendedAcks, <1>3
<1>6. CASE Crash
  <2>1. file' = file
    BY <1>6 DEF Crash, StorageInv, CallInv, Progress
  <2>2. CASE log' = <<>>
    <3>1. Acked' = [j \in Invocations |-> {}]
      BY <2>2 DEF Acked, AckedUnder
    <3>2. QED  BY <1>3, <2>1, <3>1 DEF Ledger!Next, Ledger!LoseLedger, Delivered, Acked
  <2>3. CASE log' # <<>>
    <3>1. \/ log' = log
          \/ \E r \in Invocations : pc[r] = "append" /\ log' \in AppendPart(log, EntryOf(r))
      BY <1>6, <2>3 DEF Crash
    <3>2. QED  BY <1>3, <1>4, <1>5, <1>6, <2>1, <3>1 DEF Crash, settings
  <2>4. QED  BY <2>2, <2>3
<1>7. ASSUME NEW r \in Invocations, Persist(r) \/ PersistThrows(r)
      PROVE  [Ledger!Next]_<<Delivered, Acked>>
  <2>1. log' = log /\ InHand(r)
    BY <1>7 DEF Persist, PersistThrows, InHand
  <2>2. opts[r].runId \in Invocations /\ recordCount[r] - 1 \in Records
    BY <2>1, EntryType DEF ItemOf, Item, TypeInv, TypeOK, RunOpts
  <2>3. CASE file' = file
    BY <1>3, <1>4, <2>1, <2>3
  <2>4. CASE DeliveryStep(opts[r].runId, recordCount[r] - 1)
    <3>1. Delivered' = [Delivered EXCEPT ![opts[r].runId] = @ \cup {recordCount[r] - 1}]
      BY <2>2, <2>4 DEF DeliveryStep, Delivered
    <3>2. QED  BY <1>4, <2>1, <2>2, <3>1 DEF Ledger!Next, Ledger!Deliver, Delivered, Acked
  <2>5. QED  BY <1>7, <2>3, <2>4, PersistDelivers
<1>8. ASSUME NEW r \in Invocations, AppendAudit(r) \/ AppendThrows(r)
      PROVE  [Ledger!Next]_<<Delivered, Acked>>
  BY <1>5, <1>8 DEF AppendAudit, AppendThrows, settings, output
<1>10. CASE UNCHANGED vars
  BY <1>3, <1>4, <1>10 DEF vars, output
<1>11. ASSUME NEW r \in Invocations,
             \/ PreFlightRefused(r) \/ NothingToWalk(r) \/ Begin(r)
             \/ ReadCursor(r) \/ CursorThrows(r) \/ CancelBetween(r) \/ SkipRecord(r)
             \/ ProcessRecord(r) \/ EndOfStream(r) \/ StreamThrows(r) \/ Abort(r)
       PROVE  [Ledger!Next]_<<Delivered, Acked>>
  <2>1. file' = file /\ log' = log
    BY <1>11 DEF PreFlightRefused, NothingToWalk, Begin, Call, ReadCursor, CursorThrows,
       CancelBetween, SkipRecord, ProcessRecord, EndOfStream, StreamThrows, Abort, output
  <2>2. QED  BY <1>3, <1>4, <2>1
<1>12. \A r \in Invocations : ~(FlushSnapshot(r) \/ FlushWrite(r) \/ FlushThrows(r))
  BY DEF StorageInv, CallInv, Progress, FlushSnapshot, FlushWrite, FlushThrows
<1>13. QED  BY <1>6, <1>7, <1>8, <1>10, <1>11, <1>12 DEF Next, Advance

(* The runner implements AtLeastOnce over a sink whose persist is durable: *)
(* an execute call acknowledges what it has delivered, and only a crash    *)
(* or a broken append withdraws an acknowledgement.                        *)
THEOREM LedgerImplemented == SinkKind = "direct" => (Spec => ImplementsAtLeastOnce)
<1>1. CASE SinkKind = "direct"
  <2>1. TypeInv /\ StorageInv /\ [Next]_vars => [Ledger!Next]_<<Delivered, Acked>>
    BY <1>1, LedgerNext
  <2>2. Spec => [](TypeInv /\ StorageInv)
    BY <1>1, StorageCorrect
  <2>3. QED  BY <2>1, <2>2, LedgerInit, PTL
             DEF Spec, ImplementsAtLeastOnce, Ledger!Spec, Delivered, Acked
<1>2. QED  BY <1>1
=============================================================================
