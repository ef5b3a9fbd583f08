----------------------------- MODULE MCPreFlight -----------------------------
(* Instance of the pre-flight for TLC. *)
EXTENDS PreFlight, TLC

CONSTANTS v1, v2, v3, i1, i2, i3, s1, s2

ThreeVersions == {v1, v2, v3}
ThreeIrs      == {i1, i2, i3}
TwoSources    == {s1, s2}
(* texts are interchangeable *)
TextSymmetry  == Permutations(TwoSources)

(* i2 adds an optional field to i1, i3 differs from i2 in a description *)
SampleDiff == [p \in ThreeIrs \X ThreeIrs |->
  CASE p[1] = p[2] -> "none"
    [] p = <<i1, i2>> -> "additive"
    [] {p[1], p[2]} = {i2, i3} -> "cosmetic"
    [] OTHER -> "breaking"]
=============================================================================
