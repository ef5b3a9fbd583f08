----------------------------- MODULE VersionGraph -----------------------------
(***************************************************************************)
(* The graph of authored migrations of one schemaId: an edge <<f, t>> is a *)
(* migration file from version f to version t.  A chain is written as the  *)
(* sequence of the versions it passes.                                     *)
(***************************************************************************)
EXTENDS Naturals, Sequences, FiniteSets

CONSTANT Versions

Distinct(s) == \A k, l \in DOMAIN s : s[k] = s[l] => k = l
IsWalk(s, graph) == \A k \in 1 .. Len(s) - 1 : <<s[k], s[k + 1]>> \in graph

(* Every simple path from a to b, defined over all sequences of versions.  *)
SimplePaths(graph, a, b) ==
  {s \in UNION {[1 .. n -> Versions] : n \in 2 .. Cardinality(Versions)} :
     /\ s[1] = a /\ s[Len(s)] = b
     /\ Distinct(s) /\ IsWalk(s, graph)}

Hops(s) == {<<s[k], s[k + 1]>> : k \in 1 .. Len(s) - 1}
=============================================================================
