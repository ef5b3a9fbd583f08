-------------------------- MODULE MCMigrationRunner --------------------------
(* Instances of the migration runner for TLC. *)
EXTENDS MigrationRunnerProperties, TLC

CONSTANTS r1, r2, r3

TwoCalls   == {r1, r2}
ThreeCalls == {r1, r2, r3}
NoCalls    == {}

(* Calls are interchangeable: they start idle, no property names one. *)
CallSymmetry == Permutations(Invocations)

EveryMode  == {"validate-only", "dry-run", "execute"}
RunModes   == {"dry-run", "execute"}
ThrowsOnly == {"transform_threw"}
TwoClasses == {"input_validation_failed", "transform_timeout"}
Continue     == {"continue"}
BothPolicies == {"continue", "stop"}
Execute      == {"execute"}
=============================================================================
