------------------------------ MODULE AuditLog ------------------------------
(***************************************************************************)
(* The audit log of the migration runner as data: a sequence of lines, the *)
(* one operation that grows it and the resume cursor read from it.         *)
(*                                                                         *)
(* Both adapters of packages/migrate-runner are covered.  The in-memory    *)
(* adapter (src/audit.ts) only ever holds whole entries.  The JSONL        *)
(* adapter (src/adapters/jsonl-audit.ts) appends `JSON + "\n"` with        *)
(* appendFile, so a process or a disk that stops in the middle leaves a    *)
(* last line that is cut short, or whole but without its newline.  The     *)
(* next append is written behind it, on the same line, and spoils both.    *)
(***************************************************************************)
EXTENDS Naturals, Sequences

CONSTANT Invocations,      \* the run() calls; a fresh call is its own runId
         NumRecords        \* the records the input stream yields

Records == 0 .. NumRecords - 1

PipelineClasses == {"input_validation_failed", "transform_threw",
                    "transform_timeout", "output_validation_failed"}
RecordClasses   == PipelineClasses \cup {"persist_failed"}
RunClasses      == {"pre_flight_failed", "adapter_init_failed", "cancelled"}

(* One line of the log.  `by` is a history field, the invocation that      *)
(* wrote the line.  An unreadable line keeps the fields of the entry it    *)
(* was to hold; the reader sees none of them.                              *)
AuditLine == [runId: Invocations, by: Invocations, recordIndex: Records,
              status: {"success", "failure", "unreadable"},
              classification: RecordClasses \cup {"none"}, newline: BOOLEAN]

Readable(line)  == line.status # "unreadable"
Malformed(log)  == \E k \in DOMAIN log : ~Readable(log[k])
EndsOpen(log)   == log # <<>> /\ ~log[Len(log)].newline

(* makeAuditEntry: the classification is present iff the status is failure *)
AuditEntry(runId, by, recordIndex, outcome) ==
  [runId |-> runId, by |-> by, recordIndex |-> recordIndex,
   status         |-> IF outcome = "success" THEN "success" ELSE "failure",
   classification |-> IF outcome = "success" THEN "none" ELSE outcome,
   newline        |-> TRUE]

(* text behind an open last line: both are lost to the reader *)
Spoil(log, newline) ==
  [log EXCEPT ![Len(log)] = [@ EXCEPT !.status = "unreadable", !.newline = newline]]

(* append: a line of its own, unless the last line is open.  The           *)
(* definitions named M... are faults: variants no operator uses.           *)
MAppendSuccessOnly(log, entry) ==
  IF entry.status = "success" THEN Append(log, entry) ELSE log
AppendLine(log, entry) ==
  IF EndsOpen(log) THEN Spoil(log, TRUE) ELSE Append(log, entry)

(* the logs an append that stops half way may leave *)
AppendPart(log, entry) ==
  {log} \cup
  IF EndsOpen(log) THEN {Spoil(log, FALSE)}
  ELSE {Append(log, [entry EXCEPT !.status = s, !.newline = FALSE]) :
          s \in {entry.status, "unreadable"}}

(* cursor(runId): the indexes marked success for that runId.  A malformed  *)
(* line makes the call throw, whichever run the line belongs to.           *)
MCursorAnyStatus(log, runId) ==
  {log[k].recordIndex : k \in {n \in DOMAIN log : log[n].runId = runId}}
Cursor(log, runId) ==
  {log[k].recordIndex :
     k \in {n \in DOMAIN log : log[n].runId = runId /\ log[n].status = "success"}}
=============================================================================
