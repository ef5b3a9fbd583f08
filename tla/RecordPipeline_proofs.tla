------------------------- MODULE RecordPipeline_proofs -------------------------
(***************************************************************************)
(* The verdict on a record, for chains of any length, transforms that take *)
(* any time and any budget.                                                *)
(***************************************************************************)
EXTENDS RecordPipeline, TLAPS

LEMMA HopFacts ==
  /\ HopCount \in Nat \ {0} /\ Hops = 0 .. HopCount - 1
  /\ \A h \in 0 .. HopCount : h \in Int
BY PipelineConstants DEF Hops

(* What the walk has passed is without fault and was called, and nothing   *)
(* else was.                                                               *)
Passed == 0 .. hop - 1

Judged ==
  /\ verdict = Expected
  /\ called = IF InputBad THEN {}
              ELSE IF Faulty # {} THEN 0 .. FirstOf(Faulty) ELSE Hops

PipelineInv ==
  /\ TypeOK
  /\ phase = "input" => hop = 0 /\ called = {}
  /\ phase = "walk"  => ~InputBad /\ called = Passed /\ Faulty \cap Passed = {}
  /\ phase = "done"  => Judged

(* A fault behind which there is none before it is the first.              *)
LEMMA FirstIs ==
  ASSUME TypeOK, NEW h \in Faulty, \A g \in Faulty : h <= g  PROVE FirstOf(Faulty) = h
<1>1. Faulty \subseteq Int
  BY HopFacts DEF Faulty
<1>2. \A f \in Faulty : (\A g \in Faulty : f <= g) => f = h
  BY <1>1
<1>3. FirstOf(Faulty) \in Faulty /\ \A g \in Faulty : FirstOf(Faulty) <= g
  BY DEF FirstOf
<1>4. QED  BY <1>2, <1>3

LEMMA PipelineInit == Init => PipelineInv
<1> SUFFICES ASSUME Init  PROVE PipelineInv
  OBVIOUS
<1>1. 0 \in 0 .. HopCount
  BY HopFacts
<1>2. TypeOK
  BY <1>1 DEF Init, TypeOK
<1>3. QED  BY <1>2 DEF Init, PipelineInv

LEMMA FinishType ==
  ASSUME NEW class \in {"success", "input_validation_failed", "transform_threw",
                        "transform_timeout", "output_validation_failed"},
         NEW index \in -1 .. HopCount, Finish(class, index)
  PROVE  verdict' \in Verdicts /\ phase' = "done"
BY DEF Finish, Verdicts

LEMMA InputStep ==
  ASSUME PipelineInv, ValidateInput  PROVE PipelineInv'
<1>1. phase = "input" /\ hop = 0 /\ called = {} /\ UNCHANGED <<record, budget, hop, called>>
  BY DEF ValidateInput, PipelineInv
<1>2. CASE ~InputBad
  <2>1. phase' = "walk" /\ verdict' = verdict
    BY <1>2 DEF ValidateInput, InputBad, TypeOK, PipelineInv, RecordKinds
  <2>2. Passed = {} /\ Passed' = {}
    BY <1>1 DEF Passed
  <2>3. QED  BY <1>1, <1>2, <2>1, <2>2 DEF PipelineInv, TypeOK, InputBad
<1>3. CASE InputBad
  <2>1. Finish("input_validation_failed", -1)
    BY <1>3 DEF ValidateInput, InputBad
  <2>2. -1 \in -1 .. HopCount
    BY HopFacts
  <2>3. TypeOK'
    BY <1>1, <2>1, <2>2, FinishType DEF PipelineInv, TypeOK
  <2>4. verdict' = Expected /\ Expected' = Expected /\ InputBad'
    BY <1>1, <1>3, <2>1
    DEF Finish, Expected, InputBad, Faulty, Late, FirstOf
  <2>5. QED  BY <1>1, <1>3, <2>1, <2>3, <2>4 DEF PipelineInv, Judged, Finish
<1>4. QED  BY <1>2, <1>3

LEMMA TransformStep ==
  ASSUME PipelineInv, Transform  PROVE PipelineInv'
<1>1. /\ phase = "walk" /\ hop \in Hops /\ hop \in Nat /\ ~InputBad /\ called = Passed
      /\ Faulty \cap Passed = {} /\ called' = called \cup {hop}
      /\ UNCHANGED <<record, budget>>
  BY HopFacts DEF Transform, PipelineInv, TypeOK
<1>2. Faulty' = Faulty /\ InputBad' = InputBad /\ Expected' = Expected
  BY <1>1 DEF Faulty, Late, InputBad, Expected, FirstOf
<1>3. called' = 0 .. hop /\ called' \subseteq Hops
  BY <1>1, HopFacts DEF Passed
<1>4. CASE hop \in Faulty
  <2> DEFINE class == IF hop \in record.throws THEN "transform_threw" ELSE "transform_timeout"
  <2>1. Finish(class, hop) /\ hop' = hop
    BY <1>1, <1>4 DEF Transform, Faulty, Late, OverBudget
  <2>2. FirstOf(Faulty) = hop
    <3>1. \A g \in Faulty : g \in Int /\ g >= 0 /\ g \notin Passed
      BY <1>1, HopFacts DEF Faulty
    <3>2. \A g \in Faulty : hop <= g
      BY <1>1, <3>1 DEF Passed
    <3>3. QED  BY <1>4, <3>2, FirstIs DEF PipelineInv
  <2>3. verdict' = Expected
    BY <1>1, <1>4, <2>1, <2>2 DEF Finish, Expected
  <2>4. TypeOK'
    <3>1. hop \in -1 .. HopCount
      BY <1>1, HopFacts
    <3>2. verdict' \in Verdicts /\ phase' = "done"
      BY <2>1, <3>1, FinishType
    <3>3. QED  BY <1>1, <1>3, <2>1, <3>2 DEF PipelineInv, TypeOK
  <2>5. Judged'
    BY <1>1, <1>2, <1>3, <1>4, <2>2, <2>3 DEF Judged
  <2>6. QED  BY <2>1, <2>4, <2>5 DEF PipelineInv, Finish
<1>5. CASE hop \notin Faulty
  <2>1. hop' = hop + 1 /\ UNCHANGED <<phase, verdict>>
    BY <1>1, <1>5 DEF Transform, Faulty, Late, OverBudget
  <2>2. TypeOK'
    <3>1. hop + 1 \in 0 .. HopCount
      BY <1>1, HopFacts
    <3>2. QED  BY <1>1, <1>3, <2>1, <3>1 DEF PipelineInv, TypeOK
  <2>3. Passed' = 0 .. hop /\ Passed' = Passed \cup {hop}
    BY <1>1, <2>1 DEF Passed
  <2>4. QED  BY <1>1, <1>2, <1>3, <1>5, <2>1, <2>2, <2>3 DEF PipelineInv
<1>6. QED  BY <1>4, <1>5

LEMMA OutputStep ==
  ASSUME PipelineInv, ValidateOutput  PROVE PipelineInv'
<1>1. /\ phase = "walk" /\ hop = HopCount /\ ~InputBad /\ called = Passed
      /\ Faulty \cap Passed = {} /\ UNCHANGED <<record, budget, hop, called>>
  BY DEF ValidateOutput, PipelineInv
<1>2. Passed = Hops /\ Faulty = {}
  BY <1>1, HopFacts DEF Passed, Faulty
<1>3. Faulty' = Faulty /\ InputBad' = InputBad /\ Expected' = Expected
  BY <1>1 DEF Faulty, Late, InputBad, Expected, FirstOf
<1> DEFINE class == IF record.destKnown /\ record.outputValid THEN "success"
                    ELSE "output_validation_failed"
<1>4. Finish(class, HopCount)
  BY <1>1 DEF ValidateOutput
<1>5. TypeOK'
  <2>1. HopCount \in -1 .. HopCount
    BY HopFacts
  <2>2. verdict' \in Verdicts /\ phase' = "done"
    BY <1>4, <2>1, FinishType
  <2>3. QED  BY <1>1, <2>2 DEF PipelineInv, TypeOK
<1>6. verdict' = Expected
  BY <1>1, <1>2, <1>4 DEF Finish, Expected
<1>7. QED  BY <1>1, <1>2, <1>3, <1>4, <1>5, <1>6 DEF PipelineInv, Judged, Finish

LEMMA PipelineStep == PipelineInv /\ [Next]_vars => PipelineInv'
<1>1. PipelineInv /\ UNCHANGED vars => PipelineInv'
  BY DEF PipelineInv, TypeOK, Judged, Passed, InputBad, Faulty, Late, Expected, FirstOf, vars
<1>2. QED  BY <1>1, InputStep, TransformStep, OutputStep DEF Next

(* The verdict is that of the first fault in the order input, hops, output *)
(* and no transform ran but those up to it (RUNNER.md:72-90).              *)
THEOREM FirstFaultDecides == Spec => []VerdictIsFirstFault
<1>1. PipelineInv => VerdictIsFirstFault
  BY DEF PipelineInv, Judged, VerdictIsFirstFault
<1>2. QED  BY <1>1, PipelineInit, PipelineStep, PTL DEF Spec
=============================================================================
