---------------------------- MODULE MCChainSearch ----------------------------
(* Instance of the chain search for TLC. *)
EXTENDS ChainSearch

CONSTANTS v1, v2, v3, v4
FourVersions == {v1, v2, v3, v4}

(* Every graph over the versions but for the self-loops: one is enough,    *)
(* the search meets it with its version in `visited` and passes on.        *)
MCInit == Init /\ \A v \in Versions \ {v2} : <<v, v>> \notin edges
MCSpec == MCInit /\ [][Next]_vars /\ WF_vars(Next)
=============================================================================
