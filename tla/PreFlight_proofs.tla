---------------------------- MODULE PreFlight_proofs ----------------------------
(***************************************************************************)
(* Theorems about the pre-flight and the planner, for any versions, hashes *)
(* and severities, and any history of edits and migrations.                *)
(***************************************************************************)
EXTENDS PreFlight, FiniteSetTheorems, TLAPS

-----------------------------------------------------------------------------
(* Simple paths *)

LEMMA PathFacts ==
  ASSUME NEW graph, NEW a, NEW b, NEW s \in SimplePaths(graph, a, b)
  PROVE  /\ Len(s) \in 2 .. Cardinality(Versions) /\ s \in [1 .. Len(s) -> Versions]
         /\ s[1] = a /\ s[Len(s)] = b
         /\ \A k \in 1 .. Len(s) - 1 : <<s[k], s[k + 1]>> \in graph
<1>1. PICK n \in 2 .. Cardinality(Versions) : s \in [1 .. n -> Versions]
  BY DEF SimplePaths
<1>2. n \in Nat /\ Len(s) = n
  BY <1>1
<1>3. QED  BY <1>1, <1>2 DEF SimplePaths, IsWalk

LEMMA PathsFinite ==
  ASSUME NEW graph, NEW a, NEW b  PROVE IsFiniteSet(SimplePaths(graph, a, b))
<1> DEFINE S == SimplePaths(graph, a, b)
           N == Cardinality(Versions)
           T == SUBSET ((1 .. N) \X Versions)
           f == [s \in S |-> {<<k, s[k]>> : k \in 1 .. Len(s)}]
<1>1. IsFiniteSet(T)
  <2>1. N \in Nat
    BY FS_CardinalityType, PreFlightConstants
  <2>2. IsFiniteSet(1 .. N)
    BY <2>1, FS_Interval
  <2>3. QED  BY <2>2, PreFlightConstants, FS_Product, FS_SUBSET
<1>2. \A s \in S : Len(s) \in 2 .. N /\ s \in [1 .. Len(s) -> Versions]
  BY PathFacts
<1>3. N \in Nat
  BY FS_CardinalityType, PreFlightConstants
<1>4. \A s \in S : f[s] \in T
  <2> SUFFICES ASSUME NEW s \in S, NEW k \in 1 .. Len(s)
               PROVE  k \in 1 .. N /\ s[k] \in Versions
    OBVIOUS
  <2>1. QED  BY <1>2, <1>3
<1>5. \A s, t \in S : f[s] = f[t] => s = t
  <2> SUFFICES ASSUME NEW s \in S, NEW t \in S, f[s] = f[t]  PROVE s = t
    OBVIOUS
  <2>1. \A k : k \in 1 .. Len(s) <=> \E x : <<k, x>> \in f[s]
    OBVIOUS
  <2>2. \A k : k \in 1 .. Len(t) <=> \E x : <<k, x>> \in f[t]
    OBVIOUS
  <2>3. 1 .. Len(s) = 1 .. Len(t)
    BY <2>1, <2>2
  <2>4. \A k \in 1 .. Len(s) : s[k] = t[k]
    <3> SUFFICES ASSUME NEW k \in 1 .. Len(s)  PROVE s[k] = t[k]
      OBVIOUS
    <3>1. <<k, s[k]>> \in f[t]
      OBVIOUS
    <3>2. PICK l \in 1 .. Len(t) : <<k, s[k]>> = <<l, t[l]>>
      BY <3>1
    <3>3. QED  BY <3>2
  <2>5. QED  BY <1>2, <2>3, <2>4
<1>6. f \in Injection(S, T)
  <2>1. f \in [S -> T]
    BY <1>4
  <2>2. QED  BY <1>5, <2>1 DEF Injection, IsInjective
<1>7. QED  BY <1>1, <1>6, FS_Injection

(* One hop is a simple path, where there are two versions.                 *)
LEMMA DirectPath ==
  ASSUME NEW graph, NEW a \in Versions, NEW b \in Versions, a # b
  PROVE  <<a, b>> \in graph <=> <<a, b>> \in SimplePaths(graph, a, b)
<1> DEFINE s == <<a, b>>
<1>1. 2 <= Cardinality(Versions) /\ Cardinality(Versions) \in Nat
  <2>1. Cardinality({a}) = 1 /\ IsFiniteSet({a})
    BY FS_Singleton
  <2>2. Cardinality({a} \cup {b}) = 1 + 1
    BY <2>1, FS_AddElement
  <2>3. Cardinality({a} \cup {b}) <= Cardinality(Versions)
    BY PreFlightConstants, FS_Subset
  <2>4. Cardinality(Versions) \in Nat
    BY PreFlightConstants, FS_CardinalityType
  <2>5. QED  BY <2>2, <2>3, <2>4
<1>2. s \in [1 .. 2 -> Versions] /\ Len(s) = 2 /\ s[1] = a /\ s[2] = b /\ DOMAIN s = 1 .. 2
  OBVIOUS
<1>3. 2 \in 2 .. Cardinality(Versions)
  BY <1>1
<1>4. s \in UNION {[1 .. n -> Versions] : n \in 2 .. Cardinality(Versions)}
  BY <1>2, <1>3
<1>5. Distinct(s)
  BY <1>2 DEF Distinct
<1>6. IsWalk(s, graph) <=> <<a, b>> \in graph
  BY <1>2 DEF IsWalk
<1>7. s \in SimplePaths(graph, a, b) <=> IsWalk(s, graph)
  BY <1>2, <1>4, <1>5 DEF SimplePaths
<1>8. QED  BY <1>6, <1>7

-----------------------------------------------------------------------------
(* Type correctness *)

LEMMA Known_ ==
  ASSUME TypeOK, NEW v \in Versions, Known(v)
  PROVE  schemas[v] \in Shapes /\ schemas[v].ir \in Irs /\ schemas[v].source \in Sources
BY DEF TypeOK, Known, Shapes

LEMMA TypeInit == Init => TypeOK
<1> SUFFICES ASSUME Init  PROVE TypeOK
  OBVIOUS
<1>1. PICK text \in Sources : schemas \in [Versions -> [ir: Irs, source: {text}]]
  BY DEF Init
<1>2. schemas \in [Versions -> Shapes \cup {Absent}]
  BY <1>1 DEF Shapes
<1>3. migrations \in [Authored -> Headers] /\ Authored \subseteq Versions \X Versions
  BY DEF Init, Authored
<1>4. edits \in 0 .. MaxEdits
  BY PreFlightConstants DEF Init
<1>5. QED  BY <1>2, <1>3, <1>4 DEF TypeOK

LEMMA TypeNext == TypeOK /\ [Next]_vars => TypeOK'
<1> SUFFICES ASSUME TypeOK, [Next]_vars  PROVE TypeOK'
  OBVIOUS
<1>1. CASE EditSchema
  <2>1. PICK v \in Versions, shape \in Shapes \cup {Absent} :
          /\ edits < MaxEdits /\ edits' = edits + 1
          /\ schemas' = [schemas EXCEPT ![v] = shape] /\ migrations' = migrations
    BY <1>1 DEF EditSchema
  <2>2. edits' \in 0 .. MaxEdits
    <3>1. edits \in 0 .. MaxEdits /\ MaxEdits \in Nat
      BY PreFlightConstants DEF TypeOK
    <3>2. QED  BY <2>1, <3>1
  <2>3. QED  BY <2>1, <2>2 DEF TypeOK, Authored
<1>2. CASE StubMigration
  <2>1. PICK f \in Versions, t \in Versions :
          /\ Known(f) /\ Known(t)
          /\ migrations' = [e \in Authored \cup {<<f, t>>} |->
                              IF e = <<f, t>> THEN Captured(f, t) ELSE migrations[e]]
          /\ UNCHANGED <<schemas, edits>>
    BY <1>2 DEF StubMigration
  <2>2. Captured(f, t) \in Headers
    BY <2>1, Known_ DEF Captured, Headers
  <2>3. Authored' = Authored \cup {<<f, t>>} /\ migrations' \in [Authored' -> Headers]
    BY <2>1, <2>2 DEF Authored, TypeOK
  <2>4. QED  BY <2>1, <2>3 DEF TypeOK
<1>3. CASE UNCHANGED vars
  BY <1>3 DEF vars, TypeOK, Authored
<1>4. QED  BY <1>1, <1>2, <1>3 DEF Next

LEMMA TypeCorrect == Spec => []TypeOK
BY TypeInit, TypeNext, PTL DEF Spec

-----------------------------------------------------------------------------
(* The plan: no chain, or one between the two versions; of a breaking pair *)
(* the only one.                                                           *)

Severity == Diff[<<schemas[From].ir, schemas[To].ir>>]
Chains   == SimplePaths(Authored, From, To)

LEMMA PlanCases ==
  ASSUME TypeOK
  PROVE  \/ Plan.accepted = FALSE /\ Plan.chain = <<>> /\ ~(Known(From) /\ Known(To))
         \/ /\ Known(From) /\ Known(To) /\ Severity \in {"none", "cosmetic", "additive"}
            /\ Plan.accepted = TRUE
            /\ Plan.chain = IF Severity = "additive" /\ <<From, To>> \in Authored
                            THEN <<From, To>> ELSE <<>>
         \/ /\ Known(From) /\ Known(To) /\ Severity = "breaking"
            /\ Plan.accepted = FALSE /\ Plan.chain = <<>>
            /\ ~\E c : Chains = {c}
         \/ /\ Known(From) /\ Known(To) /\ Severity = "breaking"
            /\ Plan.accepted = TRUE /\ Chains = {Plan.chain}
<1>1. CASE ~Known(From) \/ ~Known(To)
  BY <1>1 DEF Plan, Refuse
<1>2. CASE Known(From) /\ Known(To)
  <2>1. Severity \in {"none", "cosmetic", "additive", "breaking"}
    BY <1>2, PreFlightConstants, Known_ DEF Severity, Severities
  <2>2. CASE Severity \in {"none", "cosmetic"}
    <3>1. Plan = Accept(<<>>)
      BY <1>2, <2>2 DEF Plan, Severity
    <3>2. QED  BY <1>2, <2>2, <3>1 DEF Accept
  <2>3. CASE Severity = "additive"
    <3>1. Plan = Accept(IF <<From, To>> \in Authored THEN <<From, To>> ELSE <<>>)
      BY <1>2, <2>3 DEF Plan, Severity
    <3>2. QED  BY <1>2, <2>3, <3>1 DEF Accept
  <2>4. CASE Severity = "breaking"
    <3>1. Plan = ChainVerdict(Chains)
      BY <1>2, <2>4 DEF Plan, Severity, Chains
    <3>2. IsFiniteSet(Chains)
      BY PathsFinite DEF Chains
    <3>3. Cardinality(Chains) \in Nat /\ (Cardinality(Chains) = 0 <=> Chains = {})
          /\ (Cardinality(Chains) = 1 <=> \E c : Chains = {c})
      BY <3>2, FS_CardinalityType, FS_EmptySet, FS_Singleton
    <3>4. CASE Cardinality(Chains) = 1
      <4>1. PICK c : Chains = {c}
        BY <3>3, <3>4
      <4>2. Authored # {}
        <5>1. Len(c) \in 2 .. Cardinality(Versions) /\ <<c[1], c[1 + 1]>> \in Authored
          BY <4>1, PathFacts DEF Chains
        <5>2. QED  BY <5>1
      <4>3. ChainVerdict(Chains) = Accept(CHOOSE d \in Chains : TRUE)
        BY <3>4, <4>1, <4>2 DEF ChainVerdict
      <4>4. (CHOOSE d \in Chains : TRUE) = c
        BY <4>1
      <4>5. Plan.accepted = TRUE /\ Plan.chain = c
        BY <3>1, <4>3, <4>4 DEF Accept
      <4>6. QED  BY <1>2, <2>4, <4>1, <4>5
    <3>5. CASE Cardinality(Chains) # 1
      <4>1. Chains = {} \/ Cardinality(Chains) > 1
        BY <3>3, <3>5
      <4>2. \E reason : ChainVerdict(Chains) = Refuse(reason)
        <5>1. CASE Authored = {}
          <6>1. Chains = {}
            <7>1. ASSUME NEW c \in Chains  PROVE FALSE
              <8>1. Len(c) \in 2 .. Cardinality(Versions) /\ <<c[1], c[1 + 1]>> \in Authored
                BY PathFacts DEF Chains
              <8>2. QED  BY <5>1, <8>1
            <7>2. QED  BY <7>1
          <6>2. ~(Cardinality(Chains) > 1)
            BY <3>3, <6>1
          <6>3. ChainVerdict(Chains) = Refuse("migration_not_found")
            BY <3>5, <5>1, <6>1, <6>2 DEF ChainVerdict
          <6>4. QED  BY <6>3
        <5>2. CASE Authored # {} /\ Chains = {}
          <6>1. ~(Cardinality(Chains) > 1)
            BY <3>3, <5>2
          <6>2. ChainVerdict(Chains) = Refuse("migration_chain_broken")
            BY <3>5, <5>2, <6>1 DEF ChainVerdict
          <6>3. QED  BY <6>2
        <5>3. CASE Authored # {} /\ Chains # {}
          <6>1. ChainVerdict(Chains) = Refuse("migration_ambiguous_chain")
            BY <3>5, <4>1, <5>3 DEF ChainVerdict
          <6>2. QED  BY <6>1
        <5>4. QED  BY <5>1, <5>2, <5>3
      <4>3. Plan.accepted = FALSE /\ Plan.chain = <<>>
        BY <3>1, <4>2 DEF Refuse
      <4>4. QED  BY <1>2, <2>4, <3>3, <3>5, <4>3
    <3>6. QED  BY <3>4, <3>5
  <2>5. QED  BY <2>1, <2>2, <2>3, <2>4
<1>3. QED  BY <1>1, <1>2

(* A chain that is planned starts at From, ends at To and is authored hop  *)
(* by hop.                                                                 *)
LEMMA ChainFacts ==
  ASSUME TypeOK, NEW chain, chain = Plan.chain, chain # <<>>
  PROVE  /\ Len(chain) \in Nat /\ Len(chain) >= 2
         /\ chain[1] = From /\ chain[Len(chain)] = To
         /\ \A k \in 1 .. Len(chain) - 1 :
              chain[k] \in Versions /\ chain[k + 1] \in Versions
                /\ <<chain[k], chain[k + 1]>> \in Authored
         /\ chain \in Chains
<1>1. chain \in Chains
  <2>1. CASE Severity = "additive" /\ <<From, To>> \in Authored /\ chain = <<From, To>>
             /\ Known(From) /\ Known(To)
    <3>1. From # To
      <4>1. schemas[From].ir \in Irs
        BY <2>1, PreFlightConstants, Known_
      <4>2. Diff[<<schemas[From].ir, schemas[From].ir>>] = "none"
        BY <4>1, PreFlightConstants
      <4>3. "additive" # "none"
        OBVIOUS
      <4>4. QED  BY <2>1, <4>2, <4>3 DEF Severity
    <3>2. QED  BY <2>1, <3>1, PreFlightConstants, DirectPath DEF Chains
  <2>2. CASE Chains = {chain}
    BY <2>2
  <2>3. QED  BY <2>1, <2>2, PlanCases
<1>2. /\ Len(chain) \in 2 .. Cardinality(Versions) /\ chain \in [1 .. Len(chain) -> Versions]
      /\ chain[1] = From /\ chain[Len(chain)] = To
      /\ \A k \in 1 .. Len(chain) - 1 : <<chain[k], chain[k + 1]>> \in Authored
  BY <1>1, PathFacts DEF Chains
<1>3. Cardinality(Versions) \in Nat
  BY PreFlightConstants, FS_CardinalityType
<1>4. Len(chain) \in Nat /\ Len(chain) >= 2
  BY <1>2, <1>3
<1>5. \A k \in 1 .. Len(chain) - 1 : chain[k] \in Versions /\ chain[k + 1] \in Versions
  BY <1>2, <1>4
<1>6. QED  BY <1>1, <1>2, <1>4, <1>5

-----------------------------------------------------------------------------
(* The verdict: the plan as it is, when every hop of its chain is bound to *)
(* the schemas there are, or a refusal.                                    *)

HopBound(e, allow) ==
  Known(e[1]) /\ Known(e[2]) /\ IrMatches(e) /\ (~allow => SourceMatches(e))
PlanStands(allow) == Plan.accepted /\ \A e \in Hops(Plan.chain) : HopBound(e, allow)

LEMMA ClassifyCases ==
  ASSUME NEW e
  PROVE  /\ Classify(e) \in {"drift", "missing_endpoint"}
              <=> ~(Known(e[1]) /\ Known(e[2]) /\ IrMatches(e))
         /\ Known(e[1]) /\ Known(e[2]) /\ IrMatches(e) =>
              (Classify(e) = "cosmetic_drift" <=> ~SourceMatches(e))
<1>1. CASE ~Known(e[1]) \/ ~Known(e[2])
  BY <1>1 DEF Classify
<1>2. CASE Known(e[1]) /\ Known(e[2]) /\ ~IrMatches(e)
  BY <1>2 DEF Classify
<1>3. CASE Known(e[1]) /\ Known(e[2]) /\ IrMatches(e) /\ ~SourceMatches(e)
  BY <1>3 DEF Classify
<1>4. CASE Known(e[1]) /\ Known(e[2]) /\ IrMatches(e) /\ SourceMatches(e)
  BY <1>4 DEF Classify
<1>5. QED  BY <1>1, <1>2, <1>3, <1>4

LEMMA NoHops == Hops(<<>>) = {}
BY DEF Hops

LEMMA VerdictCases ==
  ASSUME TypeOK, NEW allow \in BOOLEAN
  PROVE  \/ PlanStands(allow) /\ PreFlight(allow) = Plan
         \/ /\ ~PlanStands(allow)
            /\ PreFlight(allow).accepted = FALSE /\ PreFlight(allow).chain = <<>>
<1> DEFINE verdicts == {Classify(e) : e \in ChainScoped(Plan.chain)}
<1>1. ~Plan.accepted => Plan.chain = <<>>
  BY PlanCases
<1>2. CASE ~Plan.accepted \/ Plan.chain = <<>>
  <2>0. Plan.chain = <<>>
    BY <1>1, <1>2
  <2>1. PreFlight(allow) = Plan
    BY <2>0 DEF PreFlight
  <2>2. CASE ~Plan.accepted
    BY <1>1, <2>1, <2>2 DEF PlanStands
  <2>3. CASE Plan.accepted /\ Plan.chain = <<>>
    BY <2>1, <2>3, NoHops DEF PlanStands
  <2>4. QED  BY <2>0, <2>2, <2>3
<1>3. CASE Plan.accepted /\ Plan.chain # <<>>
  <2>1. CASE verdicts \cap {"drift", "missing_endpoint"} # {}
    <3>1. PreFlight(allow) = Refuse("provenance")
      BY <1>3, <2>1 DEF PreFlight
    <3>2. PICK e \in Hops(Plan.chain) : Classify(e) \in {"drift", "missing_endpoint"}
      BY <2>1 DEF ChainScoped
    <3>3. ~PlanStands(allow)
      BY <3>2, ClassifyCases DEF PlanStands, HopBound
    <3>4. QED  BY <3>1, <3>3 DEF Refuse
  <2>2. CASE verdicts \cap {"drift", "missing_endpoint"} = {}
    <3>1. \A e \in Hops(Plan.chain) : Known(e[1]) /\ Known(e[2]) /\ IrMatches(e)
      BY <2>2, ClassifyCases DEF ChainScoped
    <3>2. CASE ~allow /\ "cosmetic_drift" \in verdicts
      <4>1. PreFlight(allow) = Refuse("migration_cosmetic_drift")
        BY <1>3, <2>2, <3>2 DEF PreFlight
      <4>2. PICK e \in Hops(Plan.chain) : Classify(e) = "cosmetic_drift"
        BY <3>2 DEF ChainScoped
      <4>3. ~PlanStands(allow)
        BY <3>1, <3>2, <4>2, ClassifyCases DEF PlanStands, HopBound
      <4>4. QED  BY <4>1, <4>3 DEF Refuse
    <3>3. CASE ~(~allow /\ "cosmetic_drift" \in verdicts)
      <4>1. PreFlight(allow) = Plan
        BY <1>3, <2>2, <3>3 DEF PreFlight
      <4>2. PlanStands(allow)
        BY <1>3, <3>1, <3>3, ClassifyCases DEF PlanStands, HopBound, ChainScoped
      <4>3. QED  BY <4>1, <4>2
    <3>4. QED  BY <3>2, <3>3
  <2>3. QED  BY <2>1, <2>2
<1>4. QED  BY <1>1, <1>2, <1>3

(* The hops of an accepted chain fit each other and the two schemas, in    *)
(* the IR, and in the text too unless cosmetic drift is allowed            *)
(* (verify-provenance.ts:120-151, pre-flight.ts:113-131).                  *)
THEOREM AcceptedComposes == Spec => []AcceptedChainComposes
<1>1. TypeOK => AcceptedChainComposes
  <2> SUFFICES ASSUME TypeOK, NEW allow \in BOOLEAN, PreFlight(allow).chain # <<>>,
                      NEW chain, chain = PreFlight(allow).chain
      PROVE  LET hop(k) == migrations[<<chain[k], chain[k + 1]>>]
                 last   == Len(chain) - 1
             IN /\ hop(1).fromIr = schemas[From].ir /\ hop(last).toIr = schemas[To].ir
                /\ \A k \in 1 .. last - 1 : hop(k).toIr = hop(k + 1).fromIr
                /\ ~allow => /\ hop(1).fromSource = schemas[From].source
                             /\ hop(last).toSource = schemas[To].source
                             /\ \A k \in 1 .. last - 1 : hop(k).toSource = hop(k + 1).fromSource
    BY DEF AcceptedChainComposes
  <2> DEFINE hop(k) == migrations[<<chain[k], chain[k + 1]>>]
             last   == Len(chain) - 1
  <2>1. PlanStands(allow) /\ chain = Plan.chain
    BY VerdictCases
  <2>2. /\ Len(chain) \in Nat /\ Len(chain) >= 2
        /\ chain[1] = From /\ chain[Len(chain)] = To
    BY <2>1, ChainFacts
  <2>3. \A k \in 1 .. last :
          /\ hop(k).fromIr = schemas[chain[k]].ir /\ hop(k).toIr = schemas[chain[k + 1]].ir
          /\ ~allow => /\ hop(k).fromSource = schemas[chain[k]].source
                       /\ hop(k).toSource = schemas[chain[k + 1]].source
    <3> SUFFICES ASSUME NEW k \in 1 .. last
        PROVE  /\ hop(k).fromIr = schemas[chain[k]].ir
               /\ hop(k).toIr = schemas[chain[k + 1]].ir
               /\ ~allow => /\ hop(k).fromSource = schemas[chain[k]].source
                            /\ hop(k).toSource = schemas[chain[k + 1]].source
      OBVIOUS
    <3> DEFINE e == <<chain[k], chain[k + 1]>>
    <3>1. HopBound(e, allow)
      BY <2>1 DEF PlanStands, Hops
    <3>2. e[1] = chain[k] /\ e[2] = chain[k + 1]
      OBVIOUS
    <3> HIDE DEF e
    <3>3. QED  BY <3>1, <3>2 DEF HopBound, IrMatches, SourceMatches, e
  <2> HIDE DEF hop
  <2>4. last \in 1 .. last /\ 1 \in 1 .. last /\ last + 1 = Len(chain)
    BY <2>2
  <2>5. \A k \in 1 .. last - 1 : k \in 1 .. last /\ k + 1 \in 1 .. last
    BY <2>2
  <2>6. hop(1).fromIr = schemas[From].ir /\ hop(last).toIr = schemas[To].ir
    BY <2>2, <2>3, <2>4
  <2>7. \A k \in 1 .. last - 1 : hop(k).toIr = hop(k + 1).fromIr
    BY <2>3, <2>5
  <2>8. ~allow => /\ hop(1).fromSource = schemas[From].source
                  /\ hop(last).toSource = schemas[To].source
                  /\ \A k \in 1 .. last - 1 : hop(k).toSource = hop(k + 1).fromSource
    BY <2>2, <2>3, <2>4, <2>5
  <2>9. QED  BY <2>6, <2>7, <2>8 DEF hop
<1>2. QED  BY <1>1, TypeCorrect, PTL

(* A breaking pair of versions is accepted with the only simple chain of   *)
(* authored migrations, or not at all (plan-migration.ts:132-159).         *)
THEOREM BreakingTakesTheOnlyChain == Spec => []BreakingNeedsTheOnlyChain
<1>1. TypeOK => BreakingNeedsTheOnlyChain
  <2> SUFFICES ASSUME TypeOK, NEW allow \in BOOLEAN,
                      PreFlight(allow).accepted, Severity = "breaking"
               PROVE  Chains = {PreFlight(allow).chain}
    BY DEF BreakingNeedsTheOnlyChain, Severity, Chains
  <2>1. PreFlight(allow) = Plan /\ Plan.accepted
    BY VerdictCases DEF PlanStands
  <2>2. QED  BY <2>1, PlanCases
<1>2. QED  BY <1>1, TypeCorrect, PTL

-----------------------------------------------------------------------------
(* What lies on no chain between the two versions has no say.              *)

(* Migrations are only added: a header that is there stays as it is.       *)
LEMMA HeadersStay ==
  ASSUME TypeOK, [Next]_vars
  PROVE  Authored \subseteq Authored' /\ \A e \in Authored : migrations'[e] = migrations[e]
<1>1. CASE EditSchema
  BY <1>1 DEF EditSchema, Authored
<1>2. CASE StubMigration
  <2>1. PICK f \in Versions, t \in Versions :
          /\ <<f, t>> \notin Authored
          /\ migrations' = [e \in Authored \cup {<<f, t>>} |->
                              IF e = <<f, t>> THEN Captured(f, t) ELSE migrations[e]]
    BY <1>2 DEF StubMigration
  <2>2. Authored' = Authored \cup {<<f, t>>}
    BY <2>1 DEF Authored
  <2>3. \A e \in Authored : migrations'[e] = migrations[e]
    BY <2>1
  <2>4. QED  BY <2>2, <2>3
<1>3. CASE UNCHANGED vars
  BY <1>3 DEF vars, Authored
<1>4. QED  BY <1>1, <1>2, <1>3 DEF Next

Unrelated ==
  /\ SimplePaths(Authored', From, To) = SimplePaths(Authored, From, To)
  /\ \A v \in Versions : schemas'[v] # schemas[v] => ~OnSomeChain(Authored, v)
NoSay == \A allow \in BOOLEAN :
  /\ PreFlight(allow)'.accepted = PreFlight(allow).accepted
  /\ PreFlight(allow)'.chain = PreFlight(allow).chain

(* The plan is the same.                                                   *)
LEMMA SamePlan ==
  ASSUME TypeOK, TypeOK', [Next]_vars, Unrelated
  PROVE  Plan'.accepted = Plan.accepted /\ Plan'.chain = Plan.chain
<1>1. schemas'[From] = schemas[From] /\ schemas'[To] = schemas[To]
  BY PreFlightConstants DEF Unrelated, OnSomeChain
<1>2. (Known(From)' <=> Known(From)) /\ (Known(To)' <=> Known(To)) /\ Severity' = Severity
  BY <1>1 DEF Known, Severity
<1>3. Chains' = Chains
  BY DEF Unrelated, Chains
<1>4. From # To => (<<From, To>> \in Authored' <=> <<From, To>> \in Authored)
  BY <1>3, DirectPath, PreFlightConstants DEF Chains
<1>5. Known(From) /\ Severity = "additive" => From # To
  <2> SUFFICES ASSUME Known(From), Severity = "additive", From = To  PROVE FALSE
    OBVIOUS
  <2>1. schemas[From].ir \in Irs
    BY Known_, PreFlightConstants
  <2>2. Diff[<<schemas[From].ir, schemas[From].ir>>] = "none"
    BY <2>1, PreFlightConstants
  <2>3. QED  BY <2>2 DEF Severity
<1> DEFINE direct == IF Severity = "additive" /\ <<From, To>> \in Authored
                     THEN <<From, To>> ELSE <<>>
<1>6. \/ Plan.accepted = FALSE /\ Plan.chain = <<>> /\ ~(Known(From) /\ Known(To))
      \/ /\ Known(From) /\ Known(To) /\ Severity \in {"none", "cosmetic", "additive"}
         /\ Plan.accepted = TRUE /\ Plan.chain = direct
      \/ /\ Known(From) /\ Known(To) /\ Severity = "breaking"
         /\ Plan.accepted = FALSE /\ Plan.chain = <<>> /\ ~\E c : Chains = {c}
      \/ /\ Known(From) /\ Known(To) /\ Severity = "breaking"
         /\ Plan.accepted = TRUE /\ Chains = {Plan.chain}
  BY PlanCases
<1>7. (\/ Plan.accepted = FALSE /\ Plan.chain = <<>> /\ ~(Known(From) /\ Known(To))
       \/ /\ Known(From) /\ Known(To) /\ Severity \in {"none", "cosmetic", "additive"}
          /\ Plan.accepted = TRUE /\ Plan.chain = direct
       \/ /\ Known(From) /\ Known(To) /\ Severity = "breaking"
          /\ Plan.accepted = FALSE /\ Plan.chain = <<>> /\ ~\E c : Chains = {c}
       \/ /\ Known(From) /\ Known(To) /\ Severity = "breaking"
          /\ Plan.accepted = TRUE /\ Chains = {Plan.chain})'
  BY PlanCases, PTL
<1>8. Known(From) => direct' = direct
  BY <1>2, <1>4, <1>5
<1> HIDE DEF direct
<1>9. QED  BY <1>2, <1>3, <1>6, <1>7, <1>8

(* Its hops are bound to the schemas in the same way.                      *)
LEMMA SameBinding ==
  ASSUME TypeOK, [Next]_vars, Unrelated, NEW allow \in BOOLEAN, NEW e \in Hops(Plan.chain)
  PROVE  HopBound(e, allow)' <=> HopBound(e, allow)
<1> DEFINE chain == Plan.chain
<1>1. PICK k \in 1 .. Len(chain) - 1 : e = <<chain[k], chain[k + 1]>>
  BY DEF Hops
<1>2. chain # <<>>
  BY <1>1
<1>3. /\ Len(chain) \in Nat
      /\ chain[k] \in Versions /\ chain[k + 1] \in Versions
      /\ <<chain[k], chain[k + 1]>> \in Authored /\ chain \in Chains
  BY <1>2, ChainFacts
<1>4. k \in DOMAIN chain /\ k + 1 \in DOMAIN chain
  <2>1. chain \in [1 .. Len(chain) -> Versions]
    BY <1>3, PathFacts DEF Chains
  <2>2. DOMAIN chain = 1 .. Len(chain)
    BY <2>1
  <2>3. QED  BY <1>3, <2>2
<1>5. OnSomeChain(Authored, chain[k]) /\ OnSomeChain(Authored, chain[k + 1])
  BY <1>3, <1>4 DEF OnSomeChain, Chains
<1>6. schemas'[e[1]] = schemas[e[1]] /\ schemas'[e[2]] = schemas[e[2]]
  BY <1>1, <1>3, <1>5 DEF Unrelated
<1>7. migrations'[e] = migrations[e]
  BY <1>1, <1>3, HeadersStay
<1>8. QED  BY <1>6, <1>7 DEF HopBound, Known, IrMatches, SourceMatches

(* A migration that is added, or a schema that is edited, off every chain  *)
(* between the two versions changes neither whether the pre-flight accepts *)
(* nor the chain (pre-flight.ts:96-105).                                   *)
THEOREM UnrelatedChangesNothing == Spec => UnrelatedHasNoSay
<1>1. TypeOK /\ TypeOK' /\ [Next]_vars => [Unrelated => NoSay]_vars
  <2> SUFFICES ASSUME TypeOK, TypeOK', [Next]_vars, Unrelated, NEW allow \in BOOLEAN
               PROVE  /\ PreFlight(allow)'.accepted = PreFlight(allow).accepted
                      /\ PreFlight(allow)'.chain = PreFlight(allow).chain
    BY DEF NoSay
  <2>1. Plan'.accepted = Plan.accepted /\ Plan'.chain = Plan.chain
    BY SamePlan
  <2>2. PlanStands(allow)' <=> PlanStands(allow)
    BY <2>1, SameBinding DEF PlanStands
  <2>3. \/ PlanStands(allow) /\ PreFlight(allow) = Plan
        \/ /\ ~PlanStands(allow)
           /\ PreFlight(allow).accepted = FALSE /\ PreFlight(allow).chain = <<>>
    BY VerdictCases
  <2>4. (\/ PlanStands(allow) /\ PreFlight(allow) = Plan
         \/ /\ ~PlanStands(allow)
            /\ PreFlight(allow).accepted = FALSE /\ PreFlight(allow).chain = <<>>)'
    BY VerdictCases, PTL
  <2>5. QED  BY <2>1, <2>2, <2>3, <2>4
<1>2. UnrelatedHasNoSay <=> [][Unrelated => NoSay]_vars
  BY DEF UnrelatedHasNoSay, Unrelated, NoSay
<1> HIDE DEF Unrelated, NoSay
<1>3. QED  BY <1>1, <1>2, TypeCorrect, PTL DEF Spec
=============================================================================
