---------------------------- MODULE RecordPipeline ----------------------------
(***************************************************************************)
(* runRecordPipeline, packages/migrate-runner/src/per-record-pipeline.ts:  *)
(* one record is validated against the source schema, walked through the   *)
(* transforms of the chain and validated against the destination schema.   *)
(* What the author's transforms and the two schemas make of the record is  *)
(* chosen when the record is taken; the steps below are what the code does *)
(* with it.                                                                *)
(***************************************************************************)
EXTENDS Integers, FiniteSets

CONSTANTS HopCount,    \* hops of the chain, at least one (runner.ts:166-169)
          MaxElapsed,  \* bound: milliseconds a transform takes
          NoBudget     \* transformTimeoutMs left out

ASSUME PipelineConstants ==
  /\ HopCount \in Nat \ {0}
  /\ MaxElapsed \in Nat
  /\ NoBudget \notin 0 .. MaxElapsed

Hops    == 0 .. HopCount - 1
Budgets == {NoBudget} \cup 0 .. MaxElapsed

VARIABLES record,   \* how the two schemas and each transform treat the record
          budget,   \* transformTimeoutMs
          phase,    \* "input", "walk" or "done"
          hop,      \* the loop variable i
          called,   \* the hops whose transform was invoked, a history variable
          verdict   \* the PerRecordPipelineResult; success has the index HopCount

vars == <<record, budget, phase, hop, called, verdict>>

RecordKinds == [sourceKnown: BOOLEAN, inputValid: BOOLEAN,
                throws: SUBSET Hops, elapsed: [Hops -> 0 .. MaxElapsed],
                destKnown: BOOLEAN, outputValid: BOOLEAN]
Verdicts == [class: {"success", "input_validation_failed", "transform_threw",
                     "transform_timeout", "output_validation_failed"},
             chainIndex: -1 .. HopCount]
Pending == [class |-> "pending", chainIndex |-> -1]

Init ==
  /\ record \in RecordKinds
  /\ budget \in Budgets
  /\ phase = "input" /\ hop = 0 /\ called = {} /\ verdict = Pending

(* Definitions named M... are faults: variants no action uses. *)
Finish(class, index) ==
  /\ verdict' = [class |-> class, chainIndex |-> index]
  /\ phase' = "done"

MOverBudget(ms) == budget # NoBudget /\ ms >= budget
OverBudget(ms) == budget # NoBudget /\ ms > budget

ValidateInput ==
  /\ phase = "input"
  /\ IF record.sourceKnown /\ record.inputValid
     THEN phase' = "walk" /\ UNCHANGED verdict
     ELSE Finish("input_validation_failed", -1)
  /\ UNCHANGED <<record, budget, hop, called>>

(* one iteration of the loop: the clock is read after the transform came   *)
(* back, so a transform that throws is never a timeout                     *)
Transform ==
  /\ phase = "walk" /\ hop < HopCount
  /\ called' = called \cup {hop}
  /\ \/ hop \in record.throws /\ Finish("transform_threw", hop) /\ UNCHANGED hop
     \/ /\ hop \notin record.throws /\ OverBudget(record.elapsed[hop])
        /\ Finish("transform_timeout", hop) /\ UNCHANGED hop
     \/ /\ hop \notin record.throws /\ ~OverBudget(record.elapsed[hop])
        /\ hop' = hop + 1 /\ UNCHANGED <<phase, verdict>>
  /\ UNCHANGED <<record, budget>>

(* only the last hop's output is validated *)
ValidateOutput ==
  /\ phase = "walk" /\ hop = HopCount
  /\ IF record.destKnown /\ record.outputValid
     THEN Finish("success", HopCount)
     ELSE Finish("output_validation_failed", HopCount)
  /\ UNCHANGED <<record, budget, hop, called>>

Next == ValidateInput \/ Transform \/ ValidateOutput
Spec == Init /\ [][Next]_vars

-----------------------------------------------------------------------------
TypeOK ==
  /\ record \in RecordKinds
  /\ budget \in Budgets
  /\ phase \in {"input", "walk", "done"}
  /\ hop \in 0 .. HopCount
  /\ called \subseteq Hops
  /\ verdict \in Verdicts \cup {Pending}

(* The first fault of the record in pipeline order names its class and     *)
(* position; where a transform both throws and runs late, it threw.        *)
Late(h)  == budget # NoBudget /\ record.elapsed[h] > budget
Faulty   == {h \in Hops : h \in record.throws \/ Late(h)}
FirstOf(S) == CHOOSE h \in S : \A g \in S : h <= g
InputBad == ~record.sourceKnown \/ ~record.inputValid
Expected ==
  IF InputBad THEN [class |-> "input_validation_failed", chainIndex |-> -1]
  ELSE IF Faulty # {}
  THEN [class |-> IF FirstOf(Faulty) \in record.throws THEN "transform_threw"
                                                       ELSE "transform_timeout",
        chainIndex |-> FirstOf(Faulty)]
  ELSE [class |-> IF record.destKnown /\ record.outputValid THEN "success"
                  ELSE "output_validation_failed",
        chainIndex |-> HopCount]

(* The verdict is the one of the first fault, in the order input, hops,    *)
(* output (RUNNER.md:72-82), with the hop where the walk stopped, and no   *)
(* transform ran but those up to it (RUNNER.md:86-90).                     *)
VerdictIsFirstFault == phase = "done" =>
  /\ verdict = Expected
  /\ called = IF InputBad THEN {}
              ELSE IF Faulty # {} THEN 0 .. FirstOf(Faulty) ELSE Hops
=============================================================================
