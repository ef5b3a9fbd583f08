-------------------------- MODULE WorkspaceProperties --------------------------
(***************************************************************************)
(* What the commands of Workspace promise about the files they read and    *)
(* write. A command that ran while nobody else wrote to the workspace is   *)
(* called undisturbed; what happened before it started is arbitrary:       *)
(* crashes, write errors, edits between any two steps of other commands.   *)
(***************************************************************************)
EXTENDS Workspace

Names == {Declares[t] : t \in Loadable}
Entry == [name : Names, text : Texts,
          ir : UNION {[{f} \cup Imports[f] -> {Shape[t] : t \in Loadable}] : f \in Files}]
Artifact == [provenance : Entry, cut : BOOLEAN] \cup {Torn}
Migration == [from : Entry, to : Entry] \cup {Torn, Headerless}

\* Every variable has the kind of value its declaration says, and a process
\* has in hand only what its command and its place in it call for.
TypeOK ==
  /\ source \in [Files -> Texts \cup {Absent}]
  /\ artifact \in [Paths -> Artifact \cup {Absent}]
  /\ migration \in [Files -> Migration \cup {Absent}]
  /\ \A p \in Procs :
       /\ proc[p].pc \in {"idle", "walk", "import", "open", "write", "read", "done", "crashed"}
       /\ proc[p].cmd \in Commands \cup {"none"}
       /\ proc[p].todo \subseteq (IF proc[p].pc \in {"open", "write", "read"}
                                     /\ proc[p].cmd \in {"generate", "check"}
                                  THEN Paths ELSE Files)
       /\ DOMAIN proc[p].entries \subseteq DOMAIN proc[p].modules
       /\ \A f \in DOMAIN proc[p].entries : proc[p].entries[f] \in Entry
       /\ \A f \in DOMAIN proc[p].modules : proc[p].modules[f] \in Loadable
       /\ proc[p].exit \in {SUCCESS, LOGICAL_FAILURE, IO_ERROR, INTEGRITY_ERROR}
       /\ proc[p].disturbed \in BOOLEAN
  /\ edits \in 0..MaxEdits /\ faults \in 0..MaxFaults

-----------------------------------------------------------------------------
(* What the workspace is at this moment, whatever a process has read of it. *)

Present(pattern) == {f \in pattern : source[f] # Absent}
Loads(f) == \A g \in {f} \cup Imports[f] : source[g] \in Loadable
EntryNow(f) == EntryOf(f, source[f], source)
NameNow(f) == Declares[source[f]]

\* The pattern's files load and no two of them declare the same schema.
Sound(pattern) ==
  /\ \A f \in Present(pattern) : Loads(f)
  /\ \A f, g \in Present(pattern) : NameNow(f) = NameNow(g) => f = g

\* One of the pattern's files declares the schema that was, with the IR it had.
SameSchema(pattern, was) ==
  \E f \in Present(pattern) : NameNow(f) = was.name /\ EntryNow(f).ir = was.ir

Moves(p) == proc'[p].pc # proc[p].pc
Finishes(p, cmd) ==
  ~At(p, "done") /\ At(p, "done")' /\ proc[p].cmd = cmd /\ ~proc[p].disturbed
ExitsWith(p, code) == (proc[p].exit = code)'

\* The artifacts are there in full, every kind of every file of the pattern.
Complete(pattern) == \A f \in Present(pattern), k \in Kinds : artifact[<<f, k>>] # Absent
Whole(content) == content # Torn /\ ~content.cut

\* No stale artifact passes an undisturbed `check`: when it exits with success,
\* the sources it was asked about load without duplicates and every artifact
\* there is has provenance that can be read and the IR its schema has now,
\* imports included, although an earlier generate may have crashed, lost a race
\* with another generate or with the author, or run when an import was
\* different. And it raises no false alarm: in a workspace whose artifacts are
\* all there, whole, and of the present IR, it exits with success, whatever
\* comments have changed. Nothing is promised of an artifact that is missing
\* (DocCheckExpectsAll) or that is cut behind a whole header.
\* (cli/src/commands/schema/check.ts:79-125, registry/handlers/check.ts:68-180)
CheckIsRight ==
  [][\A p \in Procs : Finishes(p, "check") =>
       LET pattern == proc[p].pattern IN
       /\ ExitsWith(p, SUCCESS) =>
            /\ Sound(pattern)
            /\ Present(pattern) # {} =>
                 \A x \in Paths : artifact[x] # Absent =>
                   ParsesProvenance(x[2], artifact[x]) /\ SameSchema(pattern, artifact[x].provenance)
       /\ /\ Sound(pattern) /\ Complete(pattern)
          /\ \A x \in Paths : artifact[x] # Absent =>
               Whole(artifact[x]) /\ SameSchema(pattern, artifact[x].provenance)
          => ExitsWith(p, SUCCESS)]_vars

\* What REGISTRY.md:225 says, "the `check` verb expects all four to be present
\* on disk": a `check` that succeeds found every kind of every file. The code
\* lists the artifacts that are there and never asks which ought to be.
\* (cli/src/commands/schema/check.ts:96-107, registry/handlers/check.ts:68-86)
DocCheckExpectsAll ==
  [][\A p \in Procs : Finishes(p, "check") /\ ExitsWith(p, SUCCESS) =>
       Complete(proc[p].pattern)]_vars

\* When an undisturbed `generate` succeeds, every kind of every file of the
\* pattern is there in full and carries the present text and the present IR,
\* whatever earlier commands left: all four or, on any exit but success, no
\* promise. (cli/src/commands/schema/generate.ts:77-125)
GenerateRefreshes ==
  [][\A p \in Procs : Finishes(p, "generate") /\ ExitsWith(p, SUCCESS) =>
       \A f \in Present(proc[p].pattern), k \in Kinds :
         artifact'[<<f, k>>] = Rendered(EntryNow(f))]_vars

\* `generate` writes nothing unless every source of the pattern loaded and no
\* schema is declared twice: an undisturbed one that is not going to succeed
\* for these reasons leaves every artifact as it was, and no generate touches
\* the artifacts of files its pattern leaves out.
\* (cli/src/commands/schema/generate.ts:81-104)
GenerateIsScoped ==
  [][\A p \in Procs, x \in Paths :
       /\ Moves(p) /\ proc[p].cmd = "generate"
       /\ artifact'[x] # artifact[x]
       => /\ x[1] \in proc[p].pattern
          /\ ~proc[p].disturbed => Sound(proc[p].pattern)]_vars

\* An undisturbed `migrate stub` opens only a path at which nothing is, so
\* that a migration somebody wrote, whole or torn, survives every stub that
\* started after it was there; and when it succeeds the header it leaves holds
\* both hashes of both endpoints as they are now, so that the next `verify`
\* finds it bound. (migrate/stub.ts:123-160, schema/src/migrations/stub.ts:52-93)
StubIsRight ==
  [][\A p \in Procs :
       /\ Moves(p) /\ proc[p].cmd = "stub" /\ At(p, "open") /\ ~proc[p].disturbed =>
            \A f \in Files : migration'[f] # migration[f] => migration[f] = Absent
       /\ Finishes(p, "stub") /\ ExitsWith(p, SUCCESS) =>
            \E f, g \in Present(Files), h \in Files :
              /\ NameNow(f) = StubPair[1] /\ NameNow(g) = StubPair[2]
              /\ migration'[h] = [from |-> EntryNow(f), to |-> EntryNow(g)]]_vars

HasHeader == {f \in Files : migration[f] \notin {Absent, Torn, Headerless}}

\* An undisturbed `migrate verify` exits with success exactly when the
\* sources load without duplicates, every migration loads and has a header, no
\* two are for the same pair of versions, and both endpoints of each exist with
\* the IR the migration was stubbed for.
\* (migrate/verify.ts:245-356, schema/src/migrations/build-migration-registry.ts:59-118,
\* schema/src/migrations/verify-provenance.ts:60-151)
VerifyIsRight ==
  [][\A p \in Procs : Finishes(p, "verify") =>
       (ExitsWith(p, SUCCESS) <=>
          /\ Sound(Files)
          /\ \A f \in Files : migration[f] # Absent =>
               /\ migration[f] \notin {Torn, Headerless}
               /\ SameSchema(Files, migration[f].from)
               /\ SameSchema(Files, migration[f].to)
          /\ \A f, g \in HasHeader : SamePair(migration[f], migration[g]) => f = g)]_vars

=============================================================================
