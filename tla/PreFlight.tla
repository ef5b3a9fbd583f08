------------------------------ MODULE PreFlight ------------------------------
(***************************************************************************)
(* preFlight(opts), packages/migrate-runner/src/pre-flight.ts, with the    *)
(* planner and the provenance verifier it calls (packages/schema/src/      *)
(* migrations), over a workspace whose schema and migration files change.  *)
(*                                                                         *)
(* One schemaId is modelled: every lookup of the three functions goes      *)
(* through `registry.get(schemaId)`.  A schema version is seen as its two  *)
(* hashes.  They move independently: a comment changes the text and not    *)
(* the IR, and a schema that imports another file changes its IR under an  *)
(* unchanged text.  A migration header holds the hashes of both endpoints  *)
(* at the time it was stubbed.                                             *)
(***************************************************************************)
EXTENDS VersionGraph

CONSTANTS Irs, Sources,   \* the IR and the source hashes
          Diff,           \* worst severity of diffNodes between two IRs
          From, To,       \* the versions the pre-flight is asked about
          Absent,         \* no such version in the schema registry
          MaxEdits,       \* bound: changes of schema files
          MaxMigrations   \* bound: migration files

Severities == {"none", "cosmetic", "additive", "breaking"}

ASSUME PreFlightConstants ==
  /\ IsFiniteSet(Versions) /\ From \in Versions /\ To \in Versions
  /\ Diff \in [Irs \X Irs -> Severities]
  /\ \A x \in Irs : Diff[<<x, x>>] = "none"
  /\ MaxEdits \in Nat /\ MaxMigrations \in Nat

VARIABLES schemas,     \* the schema registry: the hashes of each version
          migrations,  \* the migration registry: a header for each edge
          edits

vars == <<schemas, migrations, edits>>

Shapes  == [ir: Irs, source: Sources]
Headers == [fromIr: Irs, fromSource: Sources, toIr: Irs, toSource: Sources]

Known(v) == schemas[v] # Absent
Authored == DOMAIN migrations

Init ==
  /\ \E text \in Sources : schemas \in [Versions -> [ir: Irs, source: {text}]]
  /\ migrations = [e \in {} |-> {}]
  /\ edits = 0

(* an author rewrites, adds or deletes a schema version *)
EditSchema == \E v \in Versions, shape \in Shapes \cup {Absent} :
  /\ edits < MaxEdits /\ edits' = edits + 1
  /\ shape # schemas[v]
  /\ schemas' = [schemas EXCEPT ![v] = shape]
  /\ UNCHANGED migrations

(* Definitions named M... are faults: variants no action uses. *)
Captured(f, t) ==
  [fromIr |-> schemas[f].ir, fromSource |-> schemas[f].source,
   toIr |-> schemas[t].ir, toSource |-> schemas[t].source]

(* stubMigration: both endpoints known, and the file is not there yet *)
StubMigration == \E f, t \in Versions :
  /\ Cardinality(Authored) < MaxMigrations
  /\ Known(f) /\ Known(t) /\ <<f, t>> \notin Authored
  /\ migrations' = [e \in Authored \cup {<<f, t>>} |->
                      IF e = <<f, t>> THEN Captured(f, t) ELSE migrations[e]]
  /\ UNCHANGED <<schemas, edits>>

Next == EditSchema \/ StubMigration
Spec == Init /\ [][Next]_vars

-----------------------------------------------------------------------------
Accept(chain)  == [accepted |-> TRUE, chain |-> chain, reason |-> "none"]
Refuse(reason) == [accepted |-> FALSE, chain |-> <<>>, reason |-> reason]

(* planMigration, the branch that needs a chain *)
MChainVerdict(chains) ==
  CASE Authored = {} -> Refuse("migration_not_found")
    [] Authored # {} /\ chains = {} -> Refuse("migration_chain_broken")
    [] chains # {} -> Accept(CHOOSE c \in chains : TRUE)
ChainVerdict(chains) ==
  CASE Authored = {} -> Refuse("migration_not_found")
    [] Authored # {} /\ chains = {} -> Refuse("migration_chain_broken")
    [] Cardinality(chains) > 1 -> Refuse("migration_ambiguous_chain")
    [] Cardinality(chains) = 1 -> Accept(CHOOSE c \in chains : TRUE)

Plan ==
  IF ~Known(From) \/ ~Known(To) THEN Refuse("migration_missing_endpoint")
  ELSE CASE Diff[<<schemas[From].ir, schemas[To].ir>>] \in {"none", "cosmetic"} ->
              Accept(<<>>)
         [] Diff[<<schemas[From].ir, schemas[To].ir>>] = "additive" ->
              Accept(IF <<From, To>> \in Authored THEN <<From, To>> ELSE <<>>)
         [] Diff[<<schemas[From].ir, schemas[To].ir>>] = "breaking" ->
              ChainVerdict(SimplePaths(Authored, From, To))

(* classifyMigration *)
MIrMatches(e) == migrations[e].fromIr = schemas[e[1]].ir
IrMatches(e) ==
  /\ migrations[e].fromIr = schemas[e[1]].ir
  /\ migrations[e].toIr = schemas[e[2]].ir
SourceMatches(e) ==
  /\ migrations[e].fromSource = schemas[e[1]].source
  /\ migrations[e].toSource = schemas[e[2]].source

Classify(e) ==
  CASE ~Known(e[1]) \/ ~Known(e[2]) -> "missing_endpoint"
    [] Known(e[1]) /\ Known(e[2]) /\ ~IrMatches(e) -> "drift"
    [] Known(e[1]) /\ Known(e[2]) /\ IrMatches(e) /\ ~SourceMatches(e) ->
         "cosmetic_drift"
    [] OTHER -> "bound"

(* buildChainScopedRegistry *)
MChainScoped(chain) == Authored
ChainScoped(chain) == Hops(chain)

PreFlight(allowCosmeticDrift) ==
  LET verdicts == {Classify(e) : e \in ChainScoped(Plan.chain)} IN
  CASE ~Plan.accepted \/ Plan.chain = <<>> -> Plan
    [] Plan.chain # <<>> /\ verdicts \cap {"drift", "missing_endpoint"} # {} ->
         Refuse("provenance")
    [] Plan.chain # <<>> /\ verdicts \cap {"drift", "missing_endpoint"} = {} ->
         IF ~allowCosmeticDrift /\ "cosmetic_drift" \in verdicts
         THEN Refuse("migration_cosmetic_drift") ELSE Plan

-----------------------------------------------------------------------------
TypeOK ==
  /\ schemas \in [Versions -> Shapes \cup {Absent}]
  /\ Authored \subseteq Versions \X Versions
  /\ migrations \in [Authored -> Headers]
  /\ edits \in 0 .. MaxEdits

(* An accepted chain composes: each hop was written for the IR the one     *)
(* before it produces, the first for the IR records are validated against  *)
(* on input and the last for the one on output; with the strict default    *)
(* the same holds of the texts (verify-provenance.ts:120-151,              *)
(* pre-flight.ts:113-131).                                                 *)
AcceptedChainComposes == \A allow \in BOOLEAN :
  LET chain == PreFlight(allow).chain
      hop(k) == migrations[<<chain[k], chain[k + 1]>>]
      last   == Len(chain) - 1
  IN chain # <<>> =>
       /\ hop(1).fromIr = schemas[From].ir /\ hop(last).toIr = schemas[To].ir
       /\ \A k \in 1 .. last - 1 : hop(k).toIr = hop(k + 1).fromIr
       /\ ~allow => /\ hop(1).fromSource = schemas[From].source
                    /\ hop(last).toSource = schemas[To].source
                    /\ \A k \in 1 .. last - 1 : hop(k).toSource = hop(k + 1).fromSource

(* A pair of versions whose diff is breaking is only accepted when the     *)
(* authored migrations hold exactly one simple chain, and with that chain  *)
(* (plan-migration.ts:132-159): never as a no-op, never by a choice.       *)
BreakingNeedsTheOnlyChain == \A allow \in BOOLEAN :
  LET verdict == PreFlight(allow) IN
  verdict.accepted /\ Diff[<<schemas[From].ir, schemas[To].ir>>] = "breaking"
    => SimplePaths(Authored, From, To) = {verdict.chain}

(* What lies on no chain between the two versions has no say: a migration  *)
(* that is added there, or a schema edited there, changes neither whether  *)
(* the pre-flight accepts nor the chain (pre-flight.ts:96-105).            *)
OnSomeChain(graph, v) == \/ v \in {From, To}
                         \/ \E c \in SimplePaths(graph, From, To) : v \in {c[k] : k \in DOMAIN c}
UnrelatedHasNoSay ==
  [][/\ SimplePaths(Authored', From, To) = SimplePaths(Authored, From, To)
     /\ \A v \in Versions : schemas'[v] # schemas[v] => ~OnSomeChain(Authored, v)
     => \A allow \in BOOLEAN :
          /\ PreFlight(allow)'.accepted = PreFlight(allow).accepted
          /\ PreFlight(allow)'.chain = PreFlight(allow).chain]_vars
=============================================================================
