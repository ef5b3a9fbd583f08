---------------------- MODULE MigrationRunnerProperties ----------------------
(***************************************************************************)
(* What must be true of the migration runner, with the code each property  *)
(* is about.  Line numbers are those of packages/migrate-runner/src.       *)
(***************************************************************************)
EXTENDS MigrationRunner

(* Every variable keeps its type (the types of types.ts and of the walk).  *)
TypeOK ==
  /\ pc \in [Invocations -> Places]
  /\ opts \in [Invocations -> RunOpts]
  /\ recordCount \in [Invocations -> 0 .. NumRecords]
  /\ successCount \in [Invocations -> Nat]
  /\ failureCount \in [Invocations -> Nat]
  /\ skipSet \in [Invocations -> SUBSET Records]
  /\ firstFailure \in [Invocations -> RecordClasses \cup {"none"}]
  /\ outcome \in [Invocations -> Outcomes]
  /\ aborted \in [Invocations -> BOOLEAN]
  /\ result \in [Invocations -> RunResults]
  /\ snapshot \in [Invocations -> Seq(Item)]
  /\ log \in Seq(AuditLine)
  /\ buffer \in Seq(Item)
  /\ file \in Seq(Item)
  /\ faults \in Nat
  /\ crashes \in Nat

-----------------------------------------------------------------------------
LinesBy(r)    == {k \in DOMAIN log : log[k].by = r /\ Readable(log[k])}
LogIntact     == ~Malformed(log) /\ (AuditKind = "memory" => crashes = 0)
InHand(r)     == pc[r] \in {"persist", "append"}
(* a call that lost the record it had in hand: a crash, an audit that threw *)
Interrupted(r) == pc[r] = "crashed" \/ result[r].status = "adapter_init_failed"
(* the records the walk has passed and is done with *)
Settled(r) ==
  {i \in Records : i < recordCount[r] - IF InHand(r) \/ Interrupted(r) THEN 1 ELSE 0}
Stored(r, i)  == \E n \in DOMAIN file : file[n] = [by |-> r, recordIndex |-> i]

(* The three counts of a RunResult account for every record that was       *)
(* pulled: succeeded, failed or skipped on resume.  One record may be      *)
(* missing, the one in hand when an await has not settled or never will    *)
(* (runner.ts:202-296, the increments sit on both sides of two awaits).    *)
RecordAccounting == \A r \in Invocations :
  LET skipped == Cardinality({i \in skipSet[r] : i < recordCount[r]})
      missing == recordCount[r] - (successCount[r] + failureCount[r] + skipped)
  IN /\ InHand(r) => missing = 1
     /\ ~InHand(r) => missing \in 0 .. 1
     /\ ~InHand(r) /\ ~Interrupted(r) => missing = 0

(* The audit lines of one call are in input order, at most one per record, *)
(* and none for a record it skipped: the log can be replayed as a history  *)
(* (types.ts:130 "One audit-log entry per record").                        *)
OneOutcomePerRecord == \A k, l \in DOMAIN log :
  /\ log[k].recordIndex \notin skipSet[log[k].by]
  /\ k < l /\ log[k].by = log[l].by => log[k].recordIndex < log[l].recordIndex

(* Every record a call has settled and not skipped has a readable line of  *)
(* that call, whatever happened to it (types.ts:111 "Every record outcome  *)
(* is appended"), as long as no line was torn and the log was not lost.    *)
EveryOutcomeAudited == LogIntact =>
  \A r \in Invocations : \A i \in Settled(r) \ skipSet[r] :
    \E k \in LinesBy(r) : log[k].recordIndex = i

(* A success line of an execute run is never ahead of the output: what it  *)
(* names was stored by the call that wrote it (persist at runner.ts:222    *)
(* is awaited before the append at :255).                                  *)
AuditedImpliesStored == SinkKind = "direct" =>
  \A k \in DOMAIN log :
    log[k].status = "success" /\ opts[log[k].by].mode = "execute"
      => Stored(log[k].by, log[k].recordIndex)

(* When an execute run returns success, every record of the input has been *)
(* stored by some call under its runId, over any number of crashes, failed *)
(* and resumed calls.  The one way to lose a record is a dry run that has  *)
(* walked past it under the same runId: it writes success lines too        *)
(* (runner.ts:253-267), which the cursor of a later execute run does not   *)
(* tell from those of an execute run (:149-163).                           *)
StoredUnder(job) == {file[n].recordIndex :
                       n \in {m \in DOMAIN file : opts[file[m].by].runId = job}}

DryRunUnder(job) == {q \in Invocations :
  pc[q] # "idle" /\ opts[q].runId = job /\ opts[q].mode = "dry-run"}
DryWalked(job)   == {i \in Records : \E q \in DryRunUnder(job) : i < recordCount[q]}

CompletedJobIsComplete == SinkKind = "direct" /\ HopCount > 0 =>
  \A r \in Invocations :
    opts[r].mode = "execute" /\ result[r].status = "success"
    => Records \subseteq StoredUnder(opts[r].runId) \cup DryWalked(opts[r].runId)

(* The classification of a failed walk is that of its first failure line   *)
(* (runner.ts:241-246 and :287-292), also when the failure was a persist.  *)
FailureLines(r) == {k \in LinesBy(r) : log[k].status = "failure"}

FirstFailureReported == LogIntact =>
  \A r \in Invocations :
    \/ result[r].status \in PipelineClasses
    \/ result[r].status = "persist_failed" /\ SinkKind = "direct"
    => \E k \in FailureLines(r) :
         /\ log[k].classification = result[r].status
         /\ \A l \in FailureLines(r) : k <= l

(* Only a call that walked the whole stream flushes: not a cancelled, a    *)
(* stopped nor an interrupted one (RUNNER.md:125).                         *)
FlushOnlyAfterWholeWalk == \A r \in Invocations :
  snapshot[r] # <<>> =>
    /\ recordCount[r] = NumRecords
    /\ result[r].status \notin {"cancelled", "adapter_init_failed"}
    /\ opts[r].onError = "stop" => failureCount[r] = 0

(* With the buffered adapter, what a successful execute call processed     *)
(* stays in the output file while no crash or failed flush intervenes,     *)
(* also when later calls of the same runner flush again.  This needs calls *)
(* that do not overlap: the text of a flush is taken before it is written. *)
WrittenStaysWritten == HopCount > 0 /\ crashes = 0 /\ faults = 0 =>
  \A r \in Invocations :
    opts[r].mode = "execute" /\ result[r].status = "success"
      => \A i \in Records \ skipSet[r] : Stored(r, i)

-----------------------------------------------------------------------------
(* Action properties *)

(* At the moment an execute call returns success, all it did not skip is   *)
(* on durable storage under its name, with either adapter.                 *)
SuccessMeansWritten == [][\A r \in Invocations :
  /\ HopCount > 0 /\ opts'[r].mode = "execute"
  /\ result[r].status = "none" /\ result'[r].status = "success"
  => \A i \in Records \ skipSet[r] : Stored(r, i)' ]_vars

(* A resumed call never stores again what the log already marks success    *)
(* under its runId (RUNNER.md:151-153), when calls do not overlap.         *)
ResumeNeverRepeatsAudited == [][\A r \in Invocations :
  pc[r] = "persist" /\ pc'[r] = "append"
    => recordCount[r] - 1 \notin Cursor(log, opts[r].runId)]_vars

(* The runner implements AtLeastOnce: an execute call's success line is    *)
(* the acknowledgement, an item on storage the delivery.                   *)
AckedUnder(job) ==
  {log[k].recordIndex : k \in {n \in DOMAIN log :
     /\ log[n].runId = job /\ log[n].status = "success"
     /\ opts[log[n].by].mode = "execute"}}

Ledger == INSTANCE AtLeastOnce
            WITH Jobs <- Invocations, Items <- Records,
                 delivered <- [j \in Invocations |-> StoredUnder(j)],
                 acked     <- [j \in Invocations |-> AckedUnder(j)]

ImplementsAtLeastOnce == Ledger!Spec

=============================================================================
