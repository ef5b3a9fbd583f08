-------------------------- MODULE ChainSearch_proofs --------------------------
(***************************************************************************)
(* Theorems about the chain search, for every graph of migrations and      *)
(* every pair of versions.                                                 *)
(***************************************************************************)
EXTENDS ChainSearch, SequenceTheorems, FiniteSetTheorems, TLAPS

(* The call stack follows the path: what an open call has still to look at *)
(* leaves the version it stands on.                                        *)
SearchInv ==
  /\ TypeOK
  /\ path[1] = Start /\ Distinct(path) /\ IsWalk(path, edges)
  /\ VisitedIsPath
  /\ Searching => Len(todo) = Len(path)
  /\ \A k \in DOMAIN todo : k \in DOMAIN path /\ todo[k] \subseteq Outgoing(path[k])
  /\ FoundAreChains

LEMMA FrontFacts ==
  ASSUME NEW S, NEW s \in Seq(S), s # <<>>
  PROVE  /\ Front(s) \in Seq(S) /\ Len(Front(s)) = Len(s) - 1
         /\ Last(s) \in S
         /\ \A k \in 1 .. Len(s) - 1 : Front(s)[k] = s[k]
<1>1. Len(s) \in Nat \ {0} /\ \A k \in 1 .. Len(s) : s[k] \in S
  OBVIOUS
<1>2. 1 \in Int /\ Len(s) - 1 \in Int /\ \A k \in 1 .. Len(s) - 1 : s[k] \in S
  BY <1>1
<1>3. /\ Front(s) \in Seq(S)
      /\ Len(Front(s)) = IF 1 <= Len(s) - 1 THEN (Len(s) - 1) - 1 + 1 ELSE 0
      /\ \A k \in 1 .. (Len(s) - 1) - 1 + 1 : Front(s)[k] = s[1 + k - 1]
  BY <1>2, SubSeqProperties DEF Front
<1>4. Len(Front(s)) = Len(s) - 1
  <2>1. CASE Len(s) = 1
    BY <1>3, <2>1
  <2>2. CASE Len(s) # 1
    <3>1. \A n \in Nat \ {0} : n # 1 => 1 <= n - 1 /\ (n - 1) - 1 + 1 = n - 1
      OBVIOUS
    <3>2. QED  BY <1>1, <1>3, <2>2, <3>1
  <2>3. QED  BY <2>1, <2>2
<1>5. \A k \in 1 .. Len(s) - 1 : Front(s)[k] = s[k]
  BY <1>1, <1>3
<1>6. Last(s) \in S
  BY <1>1 DEF Last
<1>7. QED  BY <1>3, <1>4, <1>5, <1>6

LEMMA ExtendPath ==
  ASSUME SearchInv, NEW w \in Versions, Look(w), ~Revisited(w)
  PROVE  /\ Append(path, w) \in Seq(Versions) /\ Append(path, w)[1] = Start
         /\ Last(Append(path, w)) = w
         /\ Distinct(Append(path, w)) /\ IsWalk(Append(path, w), edges)
         /\ Entered(Append(path, w)) = Entered(path) \cup {w}
<1> DEFINE p == Append(path, w)
<1>1. path \in Seq(Versions) /\ path # <<>> /\ todo \in Seq(SUBSET Versions) /\ todo # <<>>
  BY DEF SearchInv, TypeOK, Look, Searching
<1>2. /\ p \in Seq(Versions) /\ Len(p) = Len(path) + 1 /\ p[Len(path) + 1] = w
      /\ \A k \in 1 .. Len(path) : p[k] = path[k]
      /\ Len(path) \in Nat \ {0}
  BY <1>1
<1> HIDE DEF p
<1>3. w \notin Entered(path)
  BY DEF Revisited, SearchInv, VisitedIsPath
<1>4. <<path[Len(path)], w>> \in edges
  <2>1. Len(todo) = Len(path) /\ Len(todo) \in DOMAIN todo /\ w \in todo[Len(todo)]
    BY <1>1 DEF SearchInv, Searching, Look, Last
  <2>2. QED  BY <2>1 DEF SearchInv, Outgoing
<1>5. Distinct(p)
  <2>1. DOMAIN p = 1 .. Len(path) + 1 /\ DOMAIN path = 1 .. Len(path)
    BY <1>1, <1>2
  <2>2. \A k \in 1 .. Len(path) : p[k] # w
    BY <1>2, <1>3, <2>1 DEF Entered
  <2>3. \A k, l \in 1 .. Len(path) : p[k] = p[l] => k = l
    BY <1>2, <2>1 DEF SearchInv, Distinct
  <2>4. QED  BY <1>2, <2>1, <2>2, <2>3 DEF Distinct
<1>6. IsWalk(p, edges)
  <2>1. SUFFICES ASSUME NEW k \in 1 .. Len(p) - 1  PROVE <<p[k], p[k + 1]>> \in edges
    BY DEF IsWalk
  <2>2. CASE k = Len(path)
    BY <1>2, <1>4, <2>2
  <2>3. CASE k # Len(path)
    <3>1. k \in 1 .. Len(path) - 1 /\ p[k] = path[k] /\ p[k + 1] = path[k + 1]
      BY <1>2, <2>3
    <3>2. QED  BY <3>1 DEF SearchInv, IsWalk
  <2>4. QED  BY <2>2, <2>3
<1>7. Entered(p) = Entered(path) \cup {w}
  BY <1>1, <1>2 DEF Entered
<1>8. p[1] = Start /\ Last(p) = w
  BY <1>2 DEF SearchInv, Last
<1>9. QED  BY <1>2, <1>5, <1>6, <1>7, <1>8 DEF p

LEMMA LookOn ==
  ASSUME SearchInv, NEW w \in Versions, Look(w)
  PROVE  /\ Without(w) \in Seq(SUBSET Versions) /\ Len(Without(w)) = Len(path)
         /\ \A k \in DOMAIN Without(w) :
              k \in DOMAIN path /\ Without(w)[k] \subseteq Outgoing(path[k])
<1>1. todo \in Seq(SUBSET Versions) /\ todo # <<>> /\ Len(todo) = Len(path)
  BY DEF SearchInv, TypeOK, Look, Searching
<1>2. /\ Front(todo) \in Seq(SUBSET Versions) /\ Len(Front(todo)) = Len(todo) - 1
      /\ Last(todo) \in SUBSET Versions
      /\ \A k \in 1 .. Len(todo) - 1 : Front(todo)[k] = todo[k]
  BY <1>1, FrontFacts
<1>3. /\ Without(w) \in Seq(SUBSET Versions) /\ Len(Without(w)) = Len(todo)
      /\ Without(w)[Len(todo)] = todo[Len(todo)] \ {w}
      /\ \A k \in 1 .. Len(todo) - 1 : Without(w)[k] = todo[k]
  BY <1>1, <1>2 DEF Without, Last
<1>4. \A k \in 1 .. Len(todo) : Without(w)[k] \subseteq todo[k]
  BY <1>1, <1>3
<1>5. QED  BY <1>1, <1>3, <1>4 DEF SearchInv

LEMMA SearchInit == Init => SearchInv
<1> SUFFICES ASSUME Init  PROVE SearchInv
  OBVIOUS
<1>1. path \in Seq(Versions) /\ Len(path) = 1 /\ path[1] = Start /\ DOMAIN path = {1}
  BY SearchConstants DEF Init
<1>2. Outgoing(Start) \in SUBSET Versions
  BY DEF Outgoing
<1>3. /\ todo \in Seq(SUBSET Versions)
      /\ todo # <<>> => Len(todo) = 1
      /\ \A k \in DOMAIN todo : k = 1 /\ todo[k] = Outgoing(Start)
  <2>1. CASE Start = End
    <3>1. todo = <<>>
      BY <2>1 DEF Init
    <3>2. QED  BY <3>1
  <2>2. CASE Start # End
    <3>1. todo = <<Outgoing(Start)>>
      BY <2>2 DEF Init
    <3>2. QED  BY <1>2, <3>1
  <2>3. QED  BY <2>1, <2>2
<1>4. TypeOK
  <2>1. edges \subseteq Versions \X Versions
    BY DEF Init
  <2>2. path # <<>> /\ visited \subseteq Versions /\ out \subseteq Seq(Versions) /\ pushes \in Nat
    BY <1>1, SearchConstants DEF Init
  <2>3. QED  BY <1>1, <1>3, <2>1, <2>2 DEF TypeOK
<1>5. VisitedIsPath
  BY <1>1 DEF Init, VisitedIsPath, Entered
<1>6. FoundAreChains
  BY DEF Init, FoundAreChains
<1>7. Distinct(path) /\ IsWalk(path, edges)
  BY <1>1 DEF Distinct, IsWalk
<1>8. \A k \in DOMAIN todo : k \in DOMAIN path /\ todo[k] \subseteq Outgoing(path[k])
  BY <1>1, <1>3
<1>9. Searching => Len(todo) = Len(path)
  BY <1>1, <1>3 DEF Searching
<1>10. QED  BY <1>1, <1>4, <1>5, <1>6, <1>7, <1>8, <1>9 DEF SearchInv

LEMMA SearchNext == SearchInv /\ [Next]_vars => SearchInv'
<1> SUFFICES ASSUME SearchInv, [Next]_vars  PROVE SearchInv'
  OBVIOUS
<1>1. CASE SkipVisited
  <2>1. PICK w \in Versions : Look(w) /\ todo' = Without(w)
    BY <1>1 DEF SkipVisited
  <2>2. UNCHANGED <<edges, path, visited, out, pushes>>
    BY <1>1 DEF SkipVisited, Look
  <2>3. QED  BY <2>1, <2>2, LookOn
             DEF SearchInv, TypeOK, VisitedIsPath, FoundAreChains, Searching, Outgoing
<1>2. CASE ReachEnd
  <2>1. PICK w \in Versions : /\ Look(w) /\ ~Revisited(w) /\ w = End /\ todo' = Without(w)
                              /\ out' = out \cup {Append(path, w)} /\ pushes' = pushes + 1
    BY <1>2 DEF ReachEnd
  <2>2. UNCHANGED <<edges, path, visited>>
    BY <1>2 DEF ReachEnd, Look
  <2>3. Append(path, w) # <<>>
    BY DEF SearchInv, TypeOK
  <2>4. FoundAreChains'
    BY <2>1, <2>2, <2>3, ExtendPath DEF SearchInv, FoundAreChains
  <2>5. TypeOK'
    <3>1. Append(path, w) \in Seq(Versions)
      BY <2>1, ExtendPath
    <3>2. out' \subseteq Seq(Versions) /\ pushes' \in Nat
      BY <2>1, <3>1 DEF SearchInv, TypeOK
    <3>3. todo' \in Seq(SUBSET Versions)
      BY <2>1, LookOn
    <3>4. QED  BY <2>2, <3>2, <3>3 DEF SearchInv, TypeOK
  <2>6. QED  BY <2>1, <2>2, <2>4, <2>5, LookOn
             DEF SearchInv, VisitedIsPath, Searching, Outgoing
<1>3. CASE Descend
  <2>1. PICK w \in Versions : /\ Look(w) /\ ~Revisited(w)
                              /\ visited' = visited \cup {w} /\ path' = Append(path, w)
                              /\ todo' = Append(Without(w), Outgoing(w))
    BY <1>3 DEF Descend
  <2>2. UNCHANGED <<edges, out, pushes>>
    BY <1>3 DEF Descend, Look
  <2>3. Outgoing(w) \in SUBSET Versions
    BY DEF Outgoing
  <2>4. /\ Without(w) \in Seq(SUBSET Versions) /\ Len(Without(w)) = Len(path)
        /\ \A k \in DOMAIN Without(w) :
             k \in DOMAIN path /\ Without(w)[k] \subseteq Outgoing(path[k])
        /\ path \in Seq(Versions)
    BY <2>1, LookOn DEF SearchInv, TypeOK
  <2>5. /\ todo' \in Seq(SUBSET Versions) /\ Len(todo') = Len(path')
        /\ \A k \in DOMAIN todo' : k \in DOMAIN path' /\ todo'[k] \subseteq Outgoing(path'[k])
    <3>1. /\ Len(todo') = Len(path) + 1 /\ Len(path') = Len(path) + 1
          /\ todo'[Len(path) + 1] = Outgoing(w) /\ path'[Len(path) + 1] = w
          /\ \A k \in 1 .. Len(path) : todo'[k] = Without(w)[k] /\ path'[k] = path[k]
          /\ todo' \in Seq(SUBSET Versions) /\ path' \in Seq(Versions)
      BY <2>1, <2>3, <2>4
    <3>2. QED  BY <2>4, <3>1
  <2>6. FoundAreChains' /\ VisitedIsPath'
    BY <2>1, <2>2, ExtendPath DEF SearchInv, FoundAreChains, VisitedIsPath
  <2>7. TypeOK'
    <3>1. path' \in Seq(Versions) /\ path' # <<>>
      BY <2>1, <2>4, ExtendPath
    <3>2. QED  BY <2>1, <2>2, <2>5, <3>1 DEF SearchInv, TypeOK
  <2>8. path'[1] = Start /\ Distinct(path)' /\ IsWalk(path, edges)'
    BY <2>1, <2>2, ExtendPath
  <2>9. QED  BY <2>2, <2>5, <2>6, <2>7, <2>8 DEF SearchInv, Outgoing
<1>4. CASE Leave
  <2>1. /\ todo \in Seq(SUBSET Versions) /\ todo # <<>> /\ Len(todo) = Len(path)
        /\ path \in Seq(Versions) /\ path # <<>>
    BY <1>4 DEF SearchInv, TypeOK, Leave, Searching
  <2>2. /\ UNCHANGED <<edges, out, pushes>> /\ todo' = Front(todo)
        /\ todo' \in Seq(SUBSET Versions) /\ Len(todo') = Len(path) - 1
        /\ \A k \in 1 .. Len(path) - 1 : todo'[k] = todo[k]
    <3>1. UNCHANGED <<edges, out, pushes>> /\ todo' = Front(todo)
      BY <1>4 DEF Leave
    <3>2. /\ Front(todo) \in Seq(SUBSET Versions) /\ Len(Front(todo)) = Len(todo) - 1
          /\ \A k \in 1 .. Len(todo) - 1 : Front(todo)[k] = todo[k]
      BY <2>1, FrontFacts
    <3>3. QED  BY <2>1, <3>1, <3>2
  <2>3. FoundAreChains'
    BY <2>2 DEF SearchInv, FoundAreChains
  <2>4. CASE Len(path) > 1
    <3>1. /\ path' = Front(path) /\ visited' = visited \ {Last(path)}
          /\ path' \in Seq(Versions) /\ Len(path') = Len(path) - 1
          /\ \A k \in 1 .. Len(path) - 1 : path'[k] = path[k]
      <4>1. path' = Front(path) /\ visited' = visited \ {Last(path)}
        BY <1>4, <2>4 DEF Leave
      <4>2. /\ Front(path) \in Seq(Versions) /\ Len(Front(path)) = Len(path) - 1
            /\ \A k \in 1 .. Len(path) - 1 : Front(path)[k] = path[k]
        BY <2>1, FrontFacts
      <4>3. QED  BY <4>1, <4>2
    <3>2. path'[1] = Start /\ path' # <<>>
      BY <2>1, <2>4, <3>1 DEF SearchInv
    <3>3. Distinct(path)'
      <4>1. DOMAIN path' = 1 .. Len(path) - 1 /\ DOMAIN path = 1 .. Len(path)
        BY <2>1, <3>1
      <4>2. \A k \in 1 .. Len(path) - 1 : k \in 1 .. Len(path)
        BY <2>1
      <4>3. QED  BY <3>1, <4>1, <4>2 DEF SearchInv, Distinct
    <3>3a. IsWalk(path, edges)'
      <4>1. SUFFICES ASSUME NEW k \in 1 .. Len(path') - 1
                     PROVE  <<path'[k], path'[k + 1]>> \in edges'
        BY DEF IsWalk
      <4>2. /\ k \in 1 .. Len(path) - 1
            /\ path'[k] = path[k] /\ path'[k + 1] = path[k + 1]
        BY <2>1, <2>4, <3>1
      <4>3. QED  BY <2>2, <4>2 DEF SearchInv, IsWalk
    <3>4. VisitedIsPath'
      <4>1. Entered(path)' = Entered(path) \ {Last(path)}
        <5>1. DOMAIN path = 1 .. Len(path) /\ DOMAIN path' = 1 .. Len(path) - 1
          BY <2>1, <3>1
        <5>2. \A k \in 1 .. Len(path) - 1 : path[k] # path[Len(path)]
          BY <2>1, <2>4, <5>1 DEF SearchInv, Distinct
        <5>3. \A x : x \in Entered(path)' <=> \E k \in 1 .. Len(path) - 1 : path[k] = x
          BY <3>1, <5>1 DEF Entered
        <5>4. \A x : x \in Entered(path) <=>
                       (\E k \in 1 .. Len(path) - 1 : path[k] = x) \/ x = path[Len(path)]
          BY <2>1, <5>1 DEF Entered
        <5>5. QED  BY <5>2, <5>3, <5>4 DEF Last
      <4>2. QED  BY <3>1, <4>1 DEF SearchInv, VisitedIsPath
    <3>5. TypeOK'
      BY <2>2, <3>1, <3>2 DEF SearchInv, TypeOK
    <3>6. \A k \in DOMAIN todo' : k \in DOMAIN path' /\ todo'[k] \subseteq Outgoing(path'[k])
      BY <2>1, <2>2, <3>1 DEF SearchInv
    <3>7. QED  BY <2>2, <2>3, <3>1, <3>2, <3>3, <3>4, <3>5, <3>6, <3>3a DEF SearchInv, Outgoing
  <2>5. CASE ~(Len(path) > 1)
    <3>1. path' = path /\ visited' = visited
      BY <1>4, <2>5 DEF Leave
    <3>2. todo' = <<>>
      BY <2>1, <2>2, <2>5
    <3>3. QED  BY <2>2, <2>3, <3>1, <3>2
               DEF SearchInv, TypeOK, VisitedIsPath, Searching
  <2>6. QED  BY <2>4, <2>5
<1>5. CASE UNCHANGED vars
  BY <1>5 DEF vars, SearchInv, TypeOK, VisitedIsPath, FoundAreChains, Searching, Outgoing
<1>6. QED  BY <1>1, <1>2, <1>3, <1>4, <1>5 DEF Next

(* The shared `visited` set is the set of the versions on the chain being  *)
(* extended, at every step of the walk (plan-migration.ts:244-255).        *)
THEOREM VisitedFollowsPath == Spec => []VisitedIsPath
<1>1. SearchInv => VisitedIsPath
  BY DEF SearchInv
<1>2. QED  BY <1>1, SearchInit, SearchNext, PTL DEF Spec

(* Every chain the search pushes to `out` is a simple path of authored     *)
(* migrations from the start to the end version, whatever the graph        *)
(* (plan-migration.ts:221-256).                                            *)
THEOREM FoundChainsAreChains == Spec => []FoundAreChains
<1>1. SearchInv => FoundAreChains
  BY DEF SearchInv
<1>2. QED  BY <1>1, SearchInit, SearchNext, PTL DEF Spec

-----------------------------------------------------------------------------
(* Completeness.  A chain is either found, or it lies ahead: it leaves the *)
(* path at the version of an open call that has yet to look at the chain's *)
(* next version.  Never both, so that no chain is found again.             *)

Chain(s) ==
  /\ s \in Seq(Versions) /\ s # <<>> /\ s[1] = Start /\ Last(s) = End
  /\ Distinct(s) /\ IsWalk(s, edges)

LeavesAt(s, k) ==
  /\ k \in DOMAIN todo /\ k < Len(s)
  /\ \A j \in 1 .. k : s[j] = path[j]
  /\ s[k + 1] \in todo[k]
Ahead(s) == \E k \in DOMAIN todo : LeavesAt(s, k)

(* What the path entered, the call before has done with.                   *)
DoneWith == \A k \in DOMAIN todo : k + 1 \in DOMAIN todo => path[k + 1] \notin todo[k]
CountedOnce == IsFiniteSet(out) /\ pushes = Cardinality(out)

CompleteInv ==
  /\ Start = End => todo = <<>> /\ out = {}
  /\ Start # End => \A s : Chain(s) => (s \in out \/ Ahead(s)) /\ ~(s \in out /\ Ahead(s))
  /\ DoneWith
  /\ CountedOnce

LEMMA CompleteInit == Init => CompleteInv
<1> SUFFICES ASSUME Init  PROVE CompleteInv
  OBVIOUS
<1>1. Start = End => todo = <<>> /\ out = {}
  BY DEF Init
<1>2. CountedOnce
  <2>1. IsFiniteSet({}) /\ Cardinality({}) = 0
    BY FS_EmptySet
  <2>2. QED  BY <2>1 DEF Init, CountedOnce
<1>3. ASSUME Start # End
      PROVE  /\ DoneWith
             /\ \A s : Chain(s) => (s \in out \/ Ahead(s)) /\ ~(s \in out /\ Ahead(s))
  <2>1. /\ todo = <<Outgoing(Start)>> /\ path = <<Start>> /\ out = {}
        /\ DOMAIN todo = 1 .. 1 /\ todo[1] = Outgoing(Start) /\ path[1] = Start
    BY <1>3 DEF Init
  <2>2. DoneWith
    BY <2>1 DEF DoneWith
  <2>3. ASSUME NEW s, Chain(s)  PROVE Ahead(s)
    <3>1. Len(s) \in Nat /\ Len(s) > 1
      BY <1>3, <2>3 DEF Chain, Last
    <3>2. <<s[1], s[1 + 1]>> \in edges /\ s[1] = Start
      BY <2>3, <3>1 DEF Chain, IsWalk
    <3>3. s[1 + 1] \in Versions
      BY <2>3, <3>1 DEF Chain
    <3>4. s[1 + 1] \in Outgoing(Start)
      BY <3>2, <3>3 DEF Outgoing
    <3>5. LeavesAt(s, 1)
      BY <2>1, <3>1, <3>2, <3>4 DEF LeavesAt
    <3>6. QED  BY <2>1, <3>5 DEF Ahead
  <2>4. QED  BY <2>1, <2>2, <2>3
<1>4. Start = End => DoneWith
  BY <1>1 DEF DoneWith
<1>5. QED  BY <1>1, <1>2, <1>3, <1>4 DEF CompleteInv

(* The call stack after a look: the innermost call is done with w.         *)
LEMMA StackAfterLook ==
  ASSUME SearchInv, NEW w \in Versions, Look(w)
  PROVE  /\ Len(todo) \in Nat \ {0} /\ Len(todo) = Len(path)
         /\ DOMAIN todo = 1 .. Len(path) /\ DOMAIN Without(w) = 1 .. Len(path)
         /\ w \in todo[Len(path)] /\ Without(w)[Len(path)] = todo[Len(path)] \ {w}
         /\ \A k \in 1 .. Len(path) - 1 : Without(w)[k] = todo[k]
         /\ Without(w) \in Seq(SUBSET Versions) /\ Len(Without(w)) = Len(path)
<1>1. todo \in Seq(SUBSET Versions) /\ todo # <<>> /\ Len(todo) = Len(path)
  BY DEF SearchInv, TypeOK, Look, Searching
<1>2. /\ Front(todo) \in Seq(SUBSET Versions) /\ Len(Front(todo)) = Len(todo) - 1
      /\ Last(todo) \in SUBSET Versions
      /\ \A k \in 1 .. Len(todo) - 1 : Front(todo)[k] = todo[k]
  BY <1>1, FrontFacts
<1>3. /\ Without(w) \in Seq(SUBSET Versions) /\ Len(Without(w)) = Len(todo)
      /\ Without(w)[Len(todo)] = todo[Len(todo)] \ {w}
      /\ \A k \in 1 .. Len(todo) - 1 : Without(w)[k] = todo[k]
  BY <1>1, <1>2 DEF Without, Last
<1>4. QED  BY <1>1, <1>3 DEF Look, Last

(* A chain that leaves the path at the innermost call, at w.               *)
LEMMA LeavesAtW ==
  ASSUME SearchInv, NEW w \in Versions, Look(w),
         NEW s, Chain(s), LeavesAt(s, Len(path)), s[Len(path) + 1] = w
  PROVE  /\ ~Revisited(w)
         /\ w = End => s = Append(path, w)
         /\ w # End => Len(path) + 1 < Len(s) /\ s[(Len(path) + 1) + 1] \in Outgoing(w)
<1> DEFINE n == Len(path)
<1>1. n \in Nat \ {0} /\ path \in Seq(Versions) /\ DOMAIN path = 1 .. n
  BY DEF SearchInv, TypeOK
<1>2. /\ s \in Seq(Versions) /\ Len(s) \in Nat /\ n < Len(s) /\ DOMAIN s = 1 .. Len(s)
      /\ \A j \in 1 .. n : s[j] = path[j]
  BY DEF Chain, LeavesAt
<1>3. n + 1 \in DOMAIN s /\ \A j \in 1 .. n : j \in DOMAIN s /\ j # n + 1
  BY <1>1, <1>2
<1>4. ~Revisited(w)
  <2>1. SUFFICES ASSUME NEW j \in 1 .. n, path[j] = w  PROVE FALSE
    BY <1>1 DEF Revisited, SearchInv, VisitedIsPath, Entered
  <2>2. s[j] = s[n + 1]
    BY <1>2, <2>1
  <2>3. QED  BY <1>3, <2>2 DEF Chain, Distinct
<1>5. ASSUME w = End  PROVE s = Append(path, w)
  <2>1. s[Len(s)] = s[n + 1] /\ Len(s) \in DOMAIN s
    BY <1>2, <1>3, <1>5 DEF Chain, Last
  <2>2. Len(s) = n + 1
    BY <1>3, <2>1 DEF Chain, Distinct
  <2>3. /\ Append(path, w) \in Seq(Versions) /\ Len(Append(path, w)) = n + 1
        /\ Append(path, w)[n + 1] = w
        /\ \A j \in 1 .. n : Append(path, w)[j] = path[j]
    BY <1>1
  <2> HIDE DEF n
  <2>4. \A j \in 1 .. n + 1 : j \in 1 .. n \/ j = n + 1
    BY <1>1
  <2>5. \A j \in 1 .. n + 1 : Append(path, w)[j] = s[j]
    BY <1>2, <2>3, <2>4 DEF n
  <2>6. QED  BY <1>2, <2>2, <2>3, <2>5
<1>6. ASSUME w # End
      PROVE  n + 1 < Len(s) /\ s[(n + 1) + 1] \in Outgoing(w)
  <2>1. Len(s) # n + 1
    <3>1. s[Len(s)] = End /\ s[n + 1] = w
      BY DEF Chain, Last
    <3> HIDE DEF n
    <3>2. QED  BY <1>6, <3>1
  <2>2. n + 1 < Len(s)
    <3>1. n \in Nat /\ Len(s) \in Nat /\ n < Len(s)
      BY <1>1, <1>2
    <3> HIDE DEF n
    <3>2. QED  BY <2>1, <3>1
  <2>3. n + 1 \in 1 .. Len(s) - 1 /\ (n + 1) + 1 \in 1 .. Len(s)
    BY <1>1, <1>2, <2>2
  <2>4. <<w, s[(n + 1) + 1]>> \in edges
    BY <2>3 DEF Chain, IsWalk
  <2>5. s[(n + 1) + 1] \in Versions
    BY <1>2, <2>3
  <2>6. QED  BY <2>2, <2>4, <2>5 DEF Outgoing
<1>7. QED  BY <1>4, <1>5, <1>6

LEMMA CompleteNext == SearchInv /\ CompleteInv /\ [Next]_vars => CompleteInv'
<1> SUFFICES ASSUME SearchInv, CompleteInv, [Next]_vars  PROVE CompleteInv'
  OBVIOUS
<1> DEFINE n == Len(path)
<1>1. edges' = edges /\ \A s : Chain(s)' <=> Chain(s)
  <2>1. edges' = edges
    BY DEF Next, SkipVisited, ReachEnd, Descend, Leave, Look, vars
  <2>2. QED  BY <2>1 DEF Chain
<1>2. n \in Nat \ {0} /\ path \in Seq(Versions) /\ out \subseteq Seq(Versions)
  BY DEF SearchInv, TypeOK
<1>3. Searching => Start # End
  BY DEF Searching, CompleteInv
<1>4. CASE SkipVisited
  <2>1. PICK w \in Versions : Look(w) /\ Revisited(w) /\ todo' = Without(w)
    BY <1>4 DEF SkipVisited
  <2>2. UNCHANGED <<path, out, pushes>> /\ Start # End
    BY <1>3, <1>4 DEF SkipVisited, Look
  <2>3. /\ DOMAIN todo = 1 .. n /\ DOMAIN todo' = 1 .. n
        /\ todo'[n] = todo[n] \ {w} /\ \A k \in 1 .. n - 1 : todo'[k] = todo[k]
    BY <2>1, StackAfterLook
  <2>4. \A k \in 1 .. n : k = n \/ k \in 1 .. n - 1
    BY <1>2
  <2> HIDE DEF n
  <2>5. \A s, k : LeavesAt(s, k)' => LeavesAt(s, k)
    BY <2>2, <2>3, <2>4 DEF LeavesAt
  <2>6. ASSUME NEW s, Chain(s), NEW k, LeavesAt(s, k)  PROVE LeavesAt(s, k)'
    <3>1. CASE k = n /\ s[n + 1] = w
      BY <2>1, <2>6, <3>1, LeavesAtW DEF n
    <3>2. CASE k # n \/ s[n + 1] # w
      BY <2>2, <2>3, <2>4, <2>6, <3>2 DEF LeavesAt
    <3>3. QED  BY <3>1, <3>2
  <2>7. \A s : Chain(s) => (Ahead(s)' <=> Ahead(s))
    BY <2>3, <2>5, <2>6 DEF Ahead
  <2>8. DoneWith'
    BY <2>2, <2>3, <2>4 DEF CompleteInv, DoneWith
  <2>9. CountedOnce'
    BY <2>2 DEF CompleteInv, CountedOnce
  <2>10. QED  BY <1>1, <2>2, <2>7, <2>8, <2>9 DEF CompleteInv
<1>5. CASE ReachEnd
  <2>1. PICK w \in Versions : /\ Look(w) /\ ~Revisited(w) /\ w = End /\ todo' = Without(w)
                              /\ out' = out \cup {Append(path, w)} /\ pushes' = pushes + 1
    BY <1>5 DEF ReachEnd
  <2>1a. PICK c : c = Append(path, w)
    OBVIOUS
  <2>2. UNCHANGED path /\ Start # End
    BY <1>3, <1>5 DEF ReachEnd, Look
  <2>3. /\ DOMAIN todo = 1 .. n /\ DOMAIN todo' = 1 .. n /\ w \in todo[n]
        /\ todo'[n] = todo[n] \ {w} /\ \A k \in 1 .. n - 1 : todo'[k] = todo[k]
    BY <2>1, StackAfterLook
  <2>4. \A k \in 1 .. n : k = n \/ k \in 1 .. n - 1
    BY <1>2
  <2>5. n \in 1 .. n /\ n < n + 1 /\ \A k \in 1 .. n - 1 : k \in 1 .. n /\ k + 1 \in 1 .. n
    BY <1>2
  <2>6. /\ Len(c) = n + 1 /\ c[n + 1] = w /\ \A j \in 1 .. n : c[j] = path[j]
        /\ c \in Seq(Versions) /\ c # <<>>
    BY <1>2, <2>1a
  <2>7. Chain(c)
    BY <2>1, <2>1a, <2>6, ExtendPath DEF Chain
  <2> HIDE DEF n
  <2>8. LeavesAt(c, n)
    BY <2>3, <2>5, <2>6 DEF LeavesAt
  <2>9. c \notin out
    BY <2>2, <2>3, <2>5, <2>7, <2>8 DEF CompleteInv, Ahead
  <2>10. \A s, k : LeavesAt(s, k)' => LeavesAt(s, k)
    BY <2>2, <2>3, <2>4 DEF LeavesAt
  <2>11. \A k : ~LeavesAt(c, k)'
    <3>1. SUFFICES ASSUME NEW k, LeavesAt(c, k)'  PROVE FALSE
      OBVIOUS
    <3>2. k \in 1 .. n /\ c[k + 1] \in todo'[k]
      BY <2>3, <3>1 DEF LeavesAt
    <3>3. CASE k = n
      BY <2>3, <2>6, <3>2, <3>3
    <3>4. CASE k \in 1 .. n - 1
      BY <2>3, <2>5, <2>6, <3>2, <3>4 DEF CompleteInv, DoneWith
    <3>5. QED  BY <2>4, <3>2, <3>3, <3>4
  <2>12. ASSUME NEW s, Chain(s), NEW k, LeavesAt(s, k), s # c  PROVE LeavesAt(s, k)'
    <3>1. CASE k = n /\ s[n + 1] = w
      BY <2>1, <2>1a, <2>12, <3>1, LeavesAtW DEF n
    <3>2. CASE k # n \/ s[n + 1] # w
      BY <2>2, <2>3, <2>4, <2>12, <3>2 DEF LeavesAt
    <3>3. QED  BY <3>1, <3>2
  <2>13. \A s : Chain(s) /\ s # c => (Ahead(s)' <=> Ahead(s))
    BY <2>3, <2>10, <2>12 DEF Ahead
  <2>14. ~Ahead(c)' /\ \A s : s \in out' <=> s \in out \/ s = c
    BY <2>1, <2>1a, <2>11 DEF Ahead
  <2>15. DoneWith'
    BY <2>2, <2>3, <2>4 DEF CompleteInv, DoneWith
  <2>16. CountedOnce'
    <3>1. IsFiniteSet(out \cup {c}) /\ Cardinality(out \cup {c}) = Cardinality(out) + 1
      BY <2>9, FS_AddElement DEF CompleteInv, CountedOnce
    <3>2. QED  BY <2>1, <2>1a, <3>1 DEF CompleteInv, CountedOnce
  <2>17. \A s : Chain(s)' => (s \in out' \/ Ahead(s)') /\ ~(s \in out' /\ Ahead(s)')
    <3>1. SUFFICES ASSUME NEW s, Chain(s)
                   PROVE  (s \in out' \/ Ahead(s)') /\ ~(s \in out' /\ Ahead(s)')
      BY <1>1
    <3>2. CASE s = c
      BY <2>14, <3>2
    <3>3. CASE s # c
      BY <2>2, <2>13, <2>14, <3>1, <3>3 DEF CompleteInv
    <3>4. QED  BY <3>2, <3>3
  <2>18. QED  BY <2>2, <2>15, <2>16, <2>17 DEF CompleteInv
<1>6. CASE Descend
  <2>1. PICK w \in Versions : /\ Look(w) /\ ~Revisited(w) /\ w # End /\ path' = Append(path, w)
                              /\ todo' = Append(Without(w), Outgoing(w))
    BY <1>6 DEF Descend
  <2>2. UNCHANGED <<out, pushes>> /\ Start # End
    BY <1>3, <1>6 DEF Descend, Look
  <2>3. /\ DOMAIN todo = 1 .. n /\ w \in todo[n]
        /\ Without(w)[n] = todo[n] \ {w} /\ \A k \in 1 .. n - 1 : Without(w)[k] = todo[k]
        /\ Without(w) \in Seq(SUBSET Versions) /\ Len(Without(w)) = n
    BY <2>1, StackAfterLook
  <2>4. Outgoing(w) \in SUBSET Versions
    BY DEF Outgoing
  <2>5. /\ DOMAIN todo' = 1 .. n + 1 /\ todo'[n + 1] = Outgoing(w)
        /\ todo'[n] = todo[n] \ {w} /\ \A k \in 1 .. n - 1 : todo'[k] = todo[k]
        /\ path'[n + 1] = w /\ \A k \in 1 .. n : path'[k] = path[k]
    <3>1. /\ DOMAIN todo' = 1 .. n + 1 /\ todo'[n + 1] = Outgoing(w)
          /\ \A k \in 1 .. n : todo'[k] = Without(w)[k]
      BY <1>2, <2>1, <2>3, <2>4
    <3>2. path'[n + 1] = w /\ \A k \in 1 .. n : path'[k] = path[k]
      BY <1>2, <2>1
    <3>3. n \in 1 .. n /\ \A k \in 1 .. n - 1 : k \in 1 .. n
      BY <1>2
    <3> HIDE DEF n
    <3>4. QED  BY <2>3, <3>1, <3>2, <3>3
  <2>6. /\ \A k \in 1 .. n + 1 : k = n + 1 \/ k = n \/ k \in 1 .. n - 1
        /\ \A k \in 1 .. n - 1 : k + 1 \in 1 .. n
        /\ \A k \in 1 .. n : k \in 1 .. n + 1 /\ k # n + 1
        /\ n \in 1 .. n /\ n + 1 \in 1 .. n + 1 /\ (n + 1) + 1 \notin 1 .. n + 1
        /\ \A k \in 1 .. n - 1 : \A j \in 1 .. k : j \in 1 .. n
    BY <1>2
  <2>7. \A s \in Seq(Versions) : n + 1 < Len(s) => n < Len(s)
    BY <1>2
  <2> HIDE DEF n
  <2>8. ASSUME NEW s, Chain(s), NEW k, LeavesAt(s, k)'  PROVE Ahead(s)
    <3>1. k \in 1 .. n + 1 /\ s[k + 1] \in todo'[k] /\ \A j \in 1 .. k : s[j] = path'[j]
      BY <2>5, <2>8 DEF LeavesAt
    <3>2. CASE k = n + 1
      <4>1. s[n + 1] = w /\ \A j \in 1 .. n : s[j] = path[j]
        BY <2>5, <2>6, <3>1, <3>2
      <4>2. n < Len(s)
        BY <2>7, <2>8, <3>2 DEF LeavesAt, Chain
      <4>3. LeavesAt(s, n)
        BY <2>3, <2>6, <4>1, <4>2 DEF LeavesAt
      <4>4. QED  BY <2>3, <2>6, <4>3 DEF Ahead
    <3>3. CASE k = n
      <4>1. LeavesAt(s, n)
        BY <2>3, <2>5, <2>6, <2>8, <3>1, <3>3 DEF LeavesAt
      <4>2. QED  BY <2>3, <2>6, <4>1 DEF Ahead
    <3>4. CASE k \in 1 .. n - 1
      <4>1. LeavesAt(s, k)
        <5>1. \A j \in 1 .. k : s[j] = path[j]
          BY <2>5, <2>6, <3>1, <3>4
        <5>2. k \in DOMAIN todo /\ s[k + 1] \in todo[k]
          BY <2>3, <2>5, <3>1, <3>4, <1>2 DEF n
        <5>3. QED  BY <2>8, <5>1, <5>2 DEF LeavesAt
      <4>2. QED  BY <4>1 DEF Ahead, LeavesAt
    <3>5. QED  BY <2>6, <3>1, <3>2, <3>3, <3>4
  <2>9. ASSUME NEW s, Chain(s), NEW k, LeavesAt(s, k)  PROVE Ahead(s)'
    <3>1. k \in 1 .. n /\ s[k + 1] \in todo[k] /\ k < Len(s) /\ \A j \in 1 .. k : s[j] = path[j]
      BY <2>3, <2>9 DEF LeavesAt
    <3>2. \A j \in 1 .. k : j \in 1 .. n
      BY <1>2, <3>1 DEF n
    <3>3. k \in DOMAIN todo' /\ \A j \in 1 .. k : s[j] = path'[j]
      BY <2>5, <2>6, <3>1, <3>2
    <3>4. CASE k = n /\ s[n + 1] = w
      <4>1. n + 1 < Len(s) /\ s[(n + 1) + 1] \in Outgoing(w)
        BY <2>1, <2>9, <3>4, LeavesAtW DEF n
      <4>2. \A j \in 1 .. n + 1 : j \in 1 .. n \/ j = n + 1
        BY <1>2 DEF n
      <4>3. \A j \in 1 .. n + 1 : s[j] = path'[j]
        BY <2>5, <3>3, <3>4, <4>2
      <4>4. PICK m : m = n + 1
        OBVIOUS
      <4>5. LeavesAt(s, m)'
        BY <2>5, <2>6, <4>1, <4>3, <4>4 DEF LeavesAt
      <4>6. QED  BY <2>5, <2>6, <4>4, <4>5 DEF Ahead
    <3>5. CASE k = n /\ s[n + 1] # w
      <4>1. LeavesAt(s, k)'
        BY <2>5, <3>1, <3>3, <3>5 DEF LeavesAt
      <4>2. QED  BY <3>3, <4>1 DEF Ahead
    <3>6. CASE k \in 1 .. n - 1
      <4>1. LeavesAt(s, k)'
        BY <2>5, <3>1, <3>3, <3>6 DEF LeavesAt
      <4>2. QED  BY <3>3, <4>1 DEF Ahead
    <3>7. QED  BY <2>6, <3>1, <3>4, <3>5, <3>6
  <2>10. \A s : Chain(s) => (Ahead(s)' <=> Ahead(s))
    BY <2>8, <2>9 DEF Ahead
  <2>11. DoneWith'
    <3>1. SUFFICES ASSUME NEW k \in 1 .. n + 1, k + 1 \in 1 .. n + 1
                   PROVE  path'[k + 1] \notin todo'[k]
      BY <2>5 DEF DoneWith
    <3>2. CASE k = n
      BY <2>5, <3>2
    <3>3. CASE k \in 1 .. n - 1
      <4>1. k + 1 \in 1 .. n /\ k \in 1 .. n
        BY <1>2, <3>3 DEF n
      <4>2. path[k + 1] \notin todo[k]
        BY <2>3, <4>1 DEF CompleteInv, DoneWith
      <4>3. QED  BY <2>5, <3>3, <4>1, <4>2
    <3>4. QED  BY <2>6, <3>1, <3>2, <3>3
  <2>12. CountedOnce'
    BY <2>2 DEF CompleteInv, CountedOnce
  <2>13. QED  BY <1>1, <2>2, <2>10, <2>11, <2>12 DEF CompleteInv
<1>7. CASE Leave
  <2>1. /\ todo \in Seq(SUBSET Versions) /\ todo # <<>> /\ Len(todo) = n /\ Start # End
        /\ todo' = Front(todo) /\ UNCHANGED <<out, pushes>> /\ Last(todo) = {}
    BY <1>3, <1>7 DEF SearchInv, TypeOK, Leave, Searching
  <2>2. /\ Front(todo) \in Seq(SUBSET Versions) /\ Len(Front(todo)) = Len(todo) - 1
        /\ \A k \in 1 .. Len(todo) - 1 : Front(todo)[k] = todo[k]
    BY <2>1, FrontFacts
  <2>3. /\ DOMAIN todo = 1 .. n /\ DOMAIN todo' = 1 .. n - 1 /\ todo[n] = {}
        /\ \A k \in 1 .. n - 1 : todo'[k] = todo[k]
    BY <2>1, <2>2 DEF Last
  <2>4. \A k \in 1 .. n - 1 : path'[k] = path[k]
    <3>1. CASE n > 1
      BY <1>2, <1>7, <3>1, FrontFacts DEF Leave, SearchInv, TypeOK
    <3>2. CASE ~(n > 1)
      BY <1>2, <3>2
    <3>3. QED  BY <3>1, <3>2
  <2>5. /\ \A k \in 1 .. n : k = n \/ k \in 1 .. n - 1
        /\ \A k \in 1 .. n - 1 : k \in 1 .. n /\ \A j \in 1 .. k : j \in 1 .. n - 1
    BY <1>2
  <2> HIDE DEF n
  <2>6. \A s, k : LeavesAt(s, k)' <=> LeavesAt(s, k)
    <3>1. ASSUME NEW s, NEW k, LeavesAt(s, k)'  PROVE LeavesAt(s, k)
      BY <2>3, <2>4, <2>5, <3>1 DEF LeavesAt
    <3>2. ASSUME NEW s, NEW k, LeavesAt(s, k)  PROVE LeavesAt(s, k)'
      BY <2>3, <2>4, <2>5, <3>2 DEF LeavesAt
    <3>3. QED  BY <3>1, <3>2
  <2>7. \A s : Ahead(s)' <=> Ahead(s)
    BY <2>6 DEF Ahead, LeavesAt
  <2>8. DoneWith'
    BY <2>3, <2>4, <2>5 DEF CompleteInv, DoneWith
  <2>9. CountedOnce'
    BY <2>1 DEF CompleteInv, CountedOnce
  <2>10. QED  BY <1>1, <2>1, <2>7, <2>8, <2>9 DEF CompleteInv
<1>8. CASE UNCHANGED vars
  <2>1. UNCHANGED <<path, todo, out, pushes>>
    BY <1>8 DEF vars
  <2>2. QED  BY <1>1, <2>1 DEF CompleteInv, DoneWith, CountedOnce, Ahead, LeavesAt
<1>9. QED  BY <1>4, <1>5, <1>6, <1>7, <1>8 DEF Next

(* Between two versions, what is a chain by its shape is a simple path: it *)
(* has at least two versions and, all being different, no more than there  *)
(* are.                                                                    *)
LEMMA ChainsAreSimplePaths ==
  ASSUME Start # End, NEW s  PROVE Chain(s) <=> s \in SimplePaths(edges, Start, End)
<1> DEFINE N == Cardinality(Versions)
<1>1. N \in Nat
  BY SearchConstants, FS_CardinalityType
<1>2. ASSUME Chain(s)  PROVE s \in SimplePaths(edges, Start, End)
  <2>1. /\ s \in Seq(Versions) /\ Len(s) \in Nat \ {0} /\ DOMAIN s = 1 .. Len(s)
        /\ s \in [1 .. Len(s) -> Versions]
    BY <1>2 DEF Chain
  <2>2. Len(s) # 1
    BY <1>2 DEF Chain, Last
  <2>3. Len(s) <= N
    <3>1. SUFFICES ASSUME N < Len(s)  PROVE FALSE
      BY <1>1, <2>1
    <3>2. IsFiniteSet(1 .. Len(s)) /\ Cardinality(1 .. Len(s)) = Len(s)
      <4>1. 1 \in Int /\ Len(s) \in Int /\ ~(1 > Len(s))
        BY <2>1
      <4>2. /\ IsFiniteSet(1 .. Len(s))
            /\ Cardinality(1 .. Len(s)) = IF 1 > Len(s) THEN 0 ELSE Len(s) - 1 + 1
        BY <4>1, FS_Interval
      <4>3. Len(s) - 1 + 1 = Len(s)
        BY <4>1
      <4>4. QED  BY <4>1, <4>2, <4>3
    <3>3. \E k, l \in 1 .. Len(s) : k # l /\ s[k] = s[l]
      BY <2>1, <3>1, <3>2, SearchConstants, FS_PigeonHole
    <3>4. QED  BY <1>2, <2>1, <3>3 DEF Chain, Distinct
  <2>4. Len(s) \in 2 .. N
    BY <1>1, <2>1, <2>2, <2>3
  <2>5. s \in UNION {[1 .. n -> Versions] : n \in 2 .. N}
    BY <2>1, <2>4
  <2>6. QED  BY <1>2, <2>5 DEF Chain, SimplePaths, Last
<1>3. ASSUME s \in SimplePaths(edges, Start, End)  PROVE Chain(s)
  <2>1. PICK n \in 2 .. N : s \in [1 .. n -> Versions]
    BY <1>3 DEF SimplePaths
  <2>2. n \in Nat /\ s \in Seq(Versions) /\ s # <<>>
    BY <2>1, <1>1
  <2>3. QED  BY <1>3, <2>2 DEF SimplePaths, Chain, Last
<1>4. QED  BY <1>2, <1>3

(* When the search is over, what it has pushed is every simple path of     *)
(* authored migrations between the two versions, each pushed once, so that *)
(* the planner's 0, 1 or more are their number                             *)
(* (plan-migration.ts:143-157, 209-256).                                   *)
THEOREM EveryChainFoundOnce == Spec => []FindsEveryChainOnce
<1>1. SearchInv /\ CompleteInv => FindsEveryChainOnce
  <2> SUFFICES ASSUME SearchInv, CompleteInv, ~Searching
               PROVE  /\ out = (IF Start = End THEN {} ELSE SimplePaths(edges, Start, End))
                      /\ pushes = Cardinality(out)
    BY DEF FindsEveryChainOnce
  <2>1. \A s : ~Ahead(s)
    BY DEF Searching, Ahead
  <2>2. \A s \in out : Chain(s)
    BY DEF SearchInv, TypeOK, FoundAreChains, Chain
  <2>3. CASE Start = End
    BY <2>3 DEF CompleteInv, CountedOnce
  <2>4. CASE Start # End
    <3>1. \A s : s \in out <=> Chain(s)
      BY <2>1, <2>2, <2>4 DEF CompleteInv
    <3>2. \A s : s \in out <=> s \in SimplePaths(edges, Start, End)
      BY <2>4, <3>1, ChainsAreSimplePaths
    <3>3. QED  BY <2>4, <3>2 DEF CompleteInv, CountedOnce
  <2>5. QED  BY <2>3, <2>4
<1>2. QED  BY <1>1, SearchInit, SearchNext, CompleteInit, CompleteNext, PTL DEF Spec
=============================================================================
