----------------------------- MODULE ChainSearch -----------------------------
(***************************************************************************)
(* enumerateChains and dfs, packages/schema/src/migrations/                *)
(* plan-migration.ts:209-256: every simple path of authored migrations     *)
(* from one version to another, found by a depth-first walk that shares    *)
(* one `visited` set and one `chain` between its recursive calls.          *)
(*                                                                         *)
(* The call stack is the variable `todo`: the successors each open call    *)
(* has still to look at.  The order in which a call looks at them is that  *)
(* of a Map; any order is allowed here.  A chain is written as the         *)
(* versions it passes, `path[1]` being the start.                          *)
(***************************************************************************)
EXTENDS VersionGraph

CONSTANTS Start, End

ASSUME SearchConstants ==
  /\ IsFiniteSet(Versions)
  /\ Start \in Versions /\ End \in Versions

VARIABLES edges,    \* the adjacency map of the schemaId
          path,     \* the chain being extended
          visited,
          todo,
          out,      \* the chains found
          pushes    \* out.push calls: the length of the code's array

vars == <<edges, path, visited, todo, out, pushes>>

Outgoing(v) == {w \in Versions : <<v, w>> \in edges}
Last(s)     == s[Len(s)]
Front(s)    == SubSeq(s, 1, Len(s) - 1)
Entered(s)  == {s[k] : k \in DOMAIN s}

Init ==
  /\ edges \in SUBSET (Versions \X Versions)
  /\ path = <<Start>>
  /\ visited = {Start}
  /\ todo = IF Start = End THEN <<>> ELSE <<Outgoing(Start)>>
  /\ out = {} /\ pushes = 0

Searching == todo # <<>>

(* the loop of the innermost call takes its next successor *)
Look(w) == Searching /\ w \in Last(todo) /\ UNCHANGED edges

(* Definitions named M... are faults: variants no action uses. *)
MWithoutNothing(w) == todo
Without(w) == Append(Front(todo), Last(todo) \ {w})

Revisited(w) == w \in visited

SkipVisited == \E w \in Versions :
  /\ Look(w) /\ Revisited(w)
  /\ todo' = Without(w)
  /\ UNCHANGED <<path, visited, out, pushes>>

MReachEndStops == \E w \in Versions :
  /\ Look(w) /\ ~Revisited(w) /\ w = End
  /\ out' = out \cup {Append(path, w)} /\ pushes' = pushes + 1
  /\ todo' = <<>>
  /\ UNCHANGED <<path, visited>>
ReachEnd == \E w \in Versions :
  /\ Look(w) /\ ~Revisited(w) /\ w = End
  /\ out' = out \cup {Append(path, w)} /\ pushes' = pushes + 1
  /\ todo' = Without(w)
  /\ UNCHANGED <<path, visited>>

Descend == \E w \in Versions :
  /\ Look(w) /\ ~Revisited(w) /\ w # End
  /\ visited' = visited \cup {w}
  /\ path' = Append(path, w)
  /\ todo' = Append(Without(w), Outgoing(w))
  /\ UNCHANGED <<out, pushes>>

(* the call is over: its version may be entered again on another path *)
Leave ==
  /\ Searching /\ Last(todo) = {}
  /\ todo' = Front(todo)
  /\ IF Len(path) > 1
     THEN path' = Front(path) /\ visited' = visited \ {Last(path)}
     ELSE UNCHANGED <<path, visited>>
  /\ UNCHANGED <<edges, out, pushes>>

Next == SkipVisited \/ ReachEnd \/ Descend \/ Leave
Spec == Init /\ [][Next]_vars
FairSpec == Spec /\ WF_vars(Next)

-----------------------------------------------------------------------------
TypeOK ==
  /\ edges \subseteq Versions \X Versions
  /\ path \in Seq(Versions) /\ path # <<>>
  /\ visited \subseteq Versions
  /\ todo \in Seq(SUBSET Versions)
  /\ out \subseteq Seq(Versions)
  /\ pushes \in Nat

(* The shared `visited` set is, at every moment of the walk, exactly the   *)
(* versions on the chain being extended (add, recurse, delete at :250-252  *)
(* and push, pop at :246-254 keep in step).                                *)
VisitedIsPath == visited = Entered(path)

(* Whatever was found so far is a simple chain from Start to End.          *)
FoundAreChains == \A s \in out :
  /\ s # <<>> /\ s[1] = Start /\ Last(s) = End
  /\ Distinct(s) /\ IsWalk(s, edges)

(* When the walk is over it has found every simple chain, each once: the   *)
(* planner's verdict 0, 1 or more (plan-migration.ts:143-157) counts them. *)
FindsEveryChainOnce == ~Searching =>
  /\ out = (IF Start = End THEN {} ELSE SimplePaths(edges, Start, End))
  /\ pushes = Cardinality(out)

(* The walk ends on every graph, cycles and self-loops included.           *)
SearchEnds == <>~Searching
=============================================================================
