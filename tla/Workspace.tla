------------------------------- MODULE Workspace -------------------------------
(***************************************************************************)
(* The commands `generate`, `check`, `migrate stub` and `migrate verify`   *)
(* of packages/cli over the files they share with each other and with the  *)
(* author: schema sources, generated artifacts and migrations. A process   *)
(* runs one command; an action is the code from one file operation to the  *)
(* next. Other processes and the author may act between any two actions.   *)
(*                                                                         *)
(* A file is a number, in the order in which the loaders sort paths. A     *)
(* source text declares at most one named schema; a "name" is a schemaId   *)
(* with its version. Equal hashes are equal values: the sourceHash is the  *)
(* text itself, the irHash the shapes of the text and of what it imports.  *)
(* All schema files are in one directory, so that the artifacts are in one *)
(* generated/ directory and the migrations in one migrations/ directory.   *)
(***************************************************************************)
EXTENDS Integers, FiniteSets

CONSTANTS
  NFiles,        \* schema files are 1..NFiles, in path order
  Imports,       \* Imports[f]: the files f imports, directly or through others
  NKinds,        \* artifact kinds are 1..NKinds, in the order they are written
  JsonKinds,     \* kinds whose provenance is a JSON member, not a comment
  Texts,         \* what a source file may hold
  Loadable,      \* the texts that compile and export a schema
  Declares,      \* Declares[t]: the name of the schema a loadable text exports
  Shape,         \* Shape[t]: what of a text its IR depends on
  StubPair,      \* the two names a `migrate stub` is asked for
  Patterns,      \* the sets of files the [pattern] argument may select
  FirstSources,  \* what the author begins with
  Drafts,        \* Drafts[f]: what the author may make of f later, Absent to delete it
  Procs, MaxRunning, MaxEdits, MaxFaults, \* bounds
  Absent, Torn,  \* no file; a file that is empty, or cut before its header ends
  Headerless     \* a migration that can be imported but whose header does not parse

Files == 1..NFiles
Kinds == 1..NKinds
Paths == Files \X Kinds

ASSUME WorkspaceConstants ==
  /\ NFiles \in Nat \ {0} /\ NKinds \in Nat \ {0}
  /\ Imports \in [Files -> SUBSET Files]
  /\ \A f \in Files : f \notin Imports[f] /\ \A g \in Imports[f] : Imports[g] \subseteq Imports[f]
  /\ JsonKinds \subseteq Kinds /\ Loadable \subseteq Texts
  /\ Loadable \subseteq DOMAIN Declares /\ Loadable \subseteq DOMAIN Shape
  /\ Patterns \subseteq SUBSET Files
  /\ FirstSources \in [Files -> Loadable]
  /\ \A f, g \in Files : Declares[FirstSources[f]] = Declares[FirstSources[g]] => f = g
  /\ \A i \in {1, 2} : \E f \in Files : Declares[FirstSources[f]] = StubPair[i]
  /\ Drafts \in [Files -> SUBSET (Texts \cup {Absent})]
  /\ {MaxRunning, MaxEdits, MaxFaults} \subseteq Nat
  /\ Absent \notin Texts /\ Absent # Torn /\ Headerless \notin {Absent, Torn}

VARIABLES
  source,     \* source[f]: the text in the schema file, or Absent
  artifact,   \* artifact[<<f, k>>]: what is under generated/ for f and kind k
  migration,  \* migration[f]: the migration beside f, its header only
  proc,       \* proc[p]: the command process p runs and its locals
  edits,      \* how often the author has changed something
  faults      \* how many commands crashed or could not write

vars == <<source, artifact, migration, proc, edits, faults>>

Commands == {"generate", "check", "stub", "verify"}
SUCCESS == 0
LOGICAL_FAILURE == 1
IO_ERROR == 3
INTEGRITY_ERROR == 4
UNCAUGHT == 1  \* what Node exits with when dispatch rethrows

-----------------------------------------------------------------------------
(* What a loaded file contributes, and what the handlers make of it.       *)

IrOf(f, modules) == [g \in {f} \cup Imports[f] |-> Shape[modules[g]]]

\* The hashes travel as values, so a registry entry, the provenance of an
\* artifact and each half of a migration header have this one form.
EntryOf(f, text, modules) ==
  [name |-> Declares[modules[f]], text |-> text, ir |-> IrOf(f, modules)]

Knows(entries, name) == \E f \in DOMAIN entries : entries[f].name = name
FileOf(entries, name) == CHOOSE f \in DOMAIN entries : entries[f].name = name
findSchema(entries, name) == entries[FileOf(entries, name)]

HasDuplicate(entries) ==
  \E f, g \in DOMAIN entries : f # g /\ entries[f].name = entries[g].name

Rendered(entry) == [provenance |-> entry, cut |-> FALSE]

\* A JSON document that is cut does not parse; of a cut source artifact the
\* comment at its top may be whole.
ParsesProvenance(k, content) ==
  content # Torn /\ (content.cut => k \notin JsonKinds)

\* Faulty: the text alone is compared.
MverdictFor(was, entry) == IF was.text = entry.text THEN "clean" ELSE "stale"

verdictFor(was, entry) ==
  CASE was.ir = entry.ir /\ was.text = entry.text -> "clean"
    [] was.ir = entry.ir /\ was.text # entry.text -> "cosmetic_drift"
    [] was.ir # entry.ir /\ was.text # entry.text -> "stale"
    [] OTHER -> "integrity_error"

\* check: an artifact that cannot be classified makes the handler fail, and
\* then the verdicts of the others do not count.
CheckExit(entries, read) ==
  LET unreadable == \E a \in read : ~ParsesProvenance(a.kind, a.content)
      unknown == \E a \in read : /\ ParsesProvenance(a.kind, a.content)
                                 /\ ~Knows(entries, a.content.provenance.name)
      verdicts == {verdictFor(a.content.provenance,
                              findSchema(entries, a.content.provenance.name)) : a \in read}
  IN CASE unreadable -> INTEGRITY_ERROR
       [] ~unreadable /\ unknown -> LOGICAL_FAILURE
       [] OTHER -> IF "integrity_error" \in verdicts THEN INTEGRITY_ERROR
                   ELSE IF "stale" \in verdicts THEN LOGICAL_FAILURE ELSE SUCCESS

\* verify: bound and cosmetic_drift pass, drift and missing_endpoint do not.
EndpointHolds(entries, was) ==
  Knows(entries, was.name) /\ findSchema(entries, was.name).ir = was.ir

Bound(entries, m) == EndpointHolds(entries, m.from) /\ EndpointHolds(entries, m.to)

\* The migrations are indexed by the names in their headers.
SamePair(m, n) == m.from.name = n.from.name /\ m.to.name = n.to.name

\* Faulty: of two migrations for one pair the first is kept, and that is all.
MVerifyExit(entries, read) ==
  IF \E r \in read : r.header = Headerless THEN INTEGRITY_ERROR
  ELSE IF \A r \in read : Bound(entries, r.header) THEN SUCCESS ELSE LOGICAL_FAILURE

\* buildMigrationRegistry refuses headers that do not parse and pairs that two
\* files declare, the first with the graver code; the verdicts come after it.
VerifyExit(entries, read) ==
  LET bad == \E r \in read : r.header = Headerless
      twice == \E r, s \in read : r.file # s.file /\ SamePair(r.header, s.header)
  IN IF bad THEN INTEGRITY_ERROR
     ELSE IF ~twice /\ \A r \in read : Bound(entries, r.header)
          THEN SUCCESS ELSE LOGICAL_FAILURE

-----------------------------------------------------------------------------
Idle == [pc |-> "idle", cmd |-> "none", pattern |-> {}, todo |-> {}, text |-> Absent,
         modules |-> <<>>, entries |-> <<>>, failed |-> FALSE, read |-> {}, exit |-> SUCCESS,
         disturbed |-> FALSE] \* history: someone else wrote to the workspace since the start

Running(p) == proc[p].pc \notin {"idle", "done", "crashed"}

\* A workspace as it is checked out: before the first generate and stub, or
\* with what they wrote. (FirstSources is such that they succeed.)
CheckedOut ==
  LET entries == [f \in Files |-> EntryOf(f, FirstSources[f], FirstSources)]
      stub == [from |-> findSchema(entries, StubPair[1]), to |-> findSchema(entries, StubPair[2])]
  IN \/ /\ artifact = [x \in Paths |-> Absent]
        /\ migration = [f \in Files |-> Absent]
     \/ /\ artifact = [x \in Paths |-> Rendered(entries[x[1]])]
        /\ migration = [f \in Files |-> IF f = FileOf(entries, StubPair[1]) THEN stub ELSE Absent]

Init ==
  /\ source = FirstSources
  /\ CheckedOut
  /\ proc = [p \in Procs |-> Idle]
  /\ edits = 0 /\ faults = 0

disk == <<source, artifact, migration>>
budget == <<edits, faults>>

At(p, label) == proc[p].pc = label
Goto(p, label) == [proc[p] EXCEPT !.pc = label]
Ended(label, code) == [Idle EXCEPT !.pc = label, !.exit = code]
Exit(code) == Ended("done", code)

\* p goes on as r: after a step that reads the disk, or nothing, ...
Reads(p, r) == proc' = [proc EXCEPT ![p] = r] /\ UNCHANGED <<disk, budget>>

\* ... and after one that writes, which disturbs the others.
Disturbed(q) == IF Running(q) THEN [proc[q] EXCEPT !.disturbed = TRUE] ELSE proc[q]
Writes(p, r) == proc' = [q \in Procs |-> IF q = p THEN r ELSE Disturbed(q)]

NextFile(p) == CHOOSE f \in proc[p].todo : \A g \in proc[p].todo : f <= g
NextPath(p) ==
  CHOOSE x \in proc[p].todo : \A y \in proc[p].todo : x[1] < y[1] \/ (x[1] = y[1] /\ x[2] <= y[2])

-----------------------------------------------------------------------------
(* walkWorkspace: every command begins with it.                            *)

\* The command starts and the glob answers.
Start(p, cmd, pattern) ==
  /\ At(p, "idle")
  /\ Cardinality({q \in Procs : Running(q)}) < MaxRunning
  /\ cmd \in {"stub", "verify"} => pattern = Files
  /\ Reads(p, [Idle EXCEPT !.pc = "walk", !.cmd = cmd, !.pattern = pattern,
                           !.todo = {f \in pattern : source[f] # Absent}])

Failed(p) == [Goto(p, "walk") EXCEPT !.failed = TRUE, !.todo = @ \ {NextFile(p)}]

\* The text is read; a file that has gone is a failure and the walk goes on.
ReadText(p) ==
  /\ At(p, "walk") /\ proc[p].todo # {}
  /\ LET f == NextFile(p) IN
     Reads(p, IF source[f] = Absent THEN Failed(p)
              ELSE [Goto(p, "import") EXCEPT !.text = source[f]])

\* The file is imported: it and what it imports are evaluated unless a file
\* imported earlier has brought them in. (A failed import makes the command
\* exit with IO_ERROR whatever is imported later.)
Import(p) ==
  /\ At(p, "import")
  /\ LET f == NextFile(p)
         cached == DOMAIN proc[p].modules
         new == ({f} \cup Imports[f]) \ cached
         modules == [g \in cached \cup new |->
                       IF g \in cached THEN proc[p].modules[g] ELSE source[g]]
     IN Reads(p,
          IF source[f] = Absent \/ \E g \in new : source[g] \notin Loadable
          THEN Failed(p)
          ELSE [Goto(p, "walk") EXCEPT
                 !.todo = @ \ {f}, !.text = Absent, !.modules = modules,
                 !.entries = [g \in DOMAIN @ \cup {f} |->
                                IF g = f THEN EntryOf(f, proc[p].text, modules) ELSE @[g]]])

Walked(p) == At(p, "walk") /\ proc[p].todo = {}

WalkFailed(p) == Walked(p) /\ proc[p].failed /\ Reads(p, Exit(IO_ERROR))

RegistryRefused(p) ==
  Walked(p) /\ ~proc[p].failed /\ HasDuplicate(proc[p].entries) /\ Reads(p, Exit(LOGICAL_FAILURE))

\* Faulty: a file that did not load is left out and the command goes on.
MLoaded(p, cmd) == Walked(p) /\ ~HasDuplicate(proc[p].entries) /\ proc[p].cmd = cmd

\* The walk is over and the registry is built: go on with the command.
Loaded(p, cmd) ==
  Walked(p) /\ ~proc[p].failed /\ ~HasDuplicate(proc[p].entries) /\ proc[p].cmd = cmd

-----------------------------------------------------------------------------
(* generate: every kind of every file, truncated and then written.         *)

\* Faulty: an artifact that was made from the same text is not written again.
MPlanArtifacts(p) ==
  /\ Loaded(p, "generate")
  /\ LET planned == {x \in (DOMAIN proc[p].entries) \X Kinds :
                       \/ artifact[x] \in {Absent, Torn}
                       \/ artifact[x].provenance.text # proc[p].entries[x[1]].text}
     IN Reads(p, IF planned = {} THEN Exit(SUCCESS)
                 ELSE [Goto(p, "open") EXCEPT !.todo = planned])

PlanArtifacts(p) ==
  /\ Loaded(p, "generate")
  /\ LET planned == (DOMAIN proc[p].entries) \X Kinds IN
     Reads(p, IF planned = {} THEN Exit(SUCCESS)
              ELSE [Goto(p, "open") EXCEPT !.todo = planned])

TruncateArtifact(p) ==
  /\ At(p, "open") /\ proc[p].cmd = "generate"
  /\ artifact' = [artifact EXCEPT ![NextPath(p)] = Torn]
  /\ Writes(p, Goto(p, "write"))
  /\ UNCHANGED <<source, migration, budget>>

WriteArtifact(p) ==
  /\ At(p, "write") /\ proc[p].cmd = "generate"
  /\ LET x == NextPath(p)
         rest == proc[p].todo \ {x}
     IN /\ artifact' = [artifact EXCEPT ![x] = Rendered(proc[p].entries[x[1]])]
        /\ Writes(p, IF rest = {} THEN Exit(SUCCESS) ELSE [Goto(p, "open") EXCEPT !.todo = rest])
  /\ UNCHANGED <<source, migration, budget>>

(* check: the artifacts there are, if any source says where to look.       *)

ListArtifacts(p) ==
  /\ Loaded(p, "check")
  /\ Reads(p, [Goto(p, "read") EXCEPT !.todo =
       IF proc[p].entries = <<>> THEN {} ELSE {x \in Paths : artifact[x] # Absent}])

\* An artifact that has gone since it was listed makes readFile throw.
ReadArtifact(p) ==
  /\ At(p, "read") /\ proc[p].cmd = "check" /\ proc[p].todo # {}
  /\ LET x == NextPath(p) IN
     Reads(p, IF artifact[x] = Absent THEN Exit(UNCAUGHT)
              ELSE [proc[p] EXCEPT !.todo = @ \ {x},
                      !.read = @ \cup {[kind |-> x[2], content |-> artifact[x]]}])

GiveVerdicts(p) ==
  /\ At(p, "read") /\ proc[p].cmd = "check" /\ proc[p].todo = {}
  /\ Reads(p, Exit(CheckExit(proc[p].entries, proc[p].read)))

(* migrate stub: the path is tested, then written.                         *)

StubFile(p) == FileOf(proc[p].entries, StubPair[1])

\* Faulty: the path is not tested.
MPlanStub(p) ==
  /\ Loaded(p, "stub")
  /\ Reads(p, IF \E i \in {1, 2} : ~Knows(proc[p].entries, StubPair[i])
              THEN Exit(LOGICAL_FAILURE) ELSE Goto(p, "open"))

\* The handler refuses unknown endpoints, the command a path that exists.
PlanStub(p) ==
  /\ Loaded(p, "stub")
  /\ Reads(p, IF \/ \E i \in {1, 2} : ~Knows(proc[p].entries, StubPair[i])
                 \/ migration[StubFile(p)] # Absent
              THEN Exit(LOGICAL_FAILURE) ELSE Goto(p, "open"))

TruncateMigration(p) ==
  /\ At(p, "open") /\ proc[p].cmd = "stub"
  /\ migration' = [migration EXCEPT ![StubFile(p)] = Torn]
  /\ Writes(p, Goto(p, "write"))
  /\ UNCHANGED <<source, artifact, budget>>

WriteMigration(p) ==
  /\ At(p, "write") /\ proc[p].cmd = "stub"
  /\ migration' = [migration EXCEPT ![StubFile(p)] =
       [from |-> findSchema(proc[p].entries, StubPair[1]),
        to |-> findSchema(proc[p].entries, StubPair[2])]]
  /\ Writes(p, Exit(SUCCESS))
  /\ UNCHANGED <<source, artifact, budget>>

(* migrate verify: every migration there is, against the registry.         *)

ListMigrations(p) ==
  /\ Loaded(p, "verify")
  /\ Reads(p, [Goto(p, "read") EXCEPT !.todo = {f \in Files : migration[f] # Absent}])

\* The text is read and the module imported. One that has gone, or that is
\* torn and so exports no migration, is a failure; the walk goes on.
ReadMigration(p) ==
  /\ At(p, "read") /\ proc[p].cmd = "verify" /\ proc[p].todo # {}
  /\ LET f == NextFile(p)
         loads == migration[f] \notin {Absent, Torn}
     IN Reads(p, [proc[p] EXCEPT !.todo = @ \ {f}, !.failed = @ \/ ~loads,
                    !.read = IF loads THEN @ \cup {[file |-> f, header |-> migration[f]]}
                             ELSE @])

VerifyMigrations(p) ==
  /\ At(p, "read") /\ proc[p].cmd = "verify" /\ proc[p].todo = {}
  /\ Reads(p, Exit(IF proc[p].failed THEN IO_ERROR
                   ELSE VerifyExit(proc[p].entries, proc[p].read)))

-----------------------------------------------------------------------------
(* What goes wrong under a command, and what the author does meanwhile.    *)

\* p ends as r, and its write, if it is at one, does not complete: what it
\* leaves is nothing, or the beginning.
CutShort(p, r) ==
  /\ faults < MaxFaults /\ faults' = faults + 1
  /\ IF At(p, "write") /\ proc[p].cmd = "generate"
     THEN \E rest \in {Torn, [Rendered(proc[p].entries[NextPath(p)[1]]) EXCEPT !.cut = TRUE]} :
            artifact' = [artifact EXCEPT ![NextPath(p)] = rest]
     ELSE UNCHANGED artifact
  /\ Writes(p, r)
  /\ UNCHANGED <<source, migration, edits>>

\* An open or a write throws: generate does not catch it, stub does.
WriteThrows(p) ==
  /\ At(p, "open") \/ At(p, "write")
  /\ CutShort(p, Exit(IF proc[p].cmd = "generate" THEN UNCAUGHT ELSE IO_ERROR))

Crash(p) == Running(p) /\ CutShort(p, Ended("crashed", SUCCESS))

\* The author is no process of the CLI, and disturbs each of them.
AuthorActs ==
  /\ edits < MaxEdits /\ edits' = edits + 1 /\ UNCHANGED faults
  /\ proc' = [q \in Procs |-> Disturbed(q)]

EditSource(f, t) ==
  /\ source[f] # t /\ AuthorActs
  /\ source' = [source EXCEPT ![f] = t] /\ UNCHANGED <<artifact, migration>>

RemoveArtifact(x) ==
  /\ artifact[x] # Absent /\ AuthorActs
  /\ artifact' = [artifact EXCEPT ![x] = Absent] /\ UNCHANGED <<source, migration>>

\* A migration is removed, put there without a good header, or is a copy of
\* another: migrations are the author's files once `migrate stub` has made them.
EditMigration(f, m) ==
  /\ migration[f] # m /\ AuthorActs
  /\ migration' = [migration EXCEPT ![f] = m] /\ UNCHANGED <<source, artifact>>

Author ==
  \/ \E f \in Files : \E t \in Drafts[f] : EditSource(f, t)
  \/ \E x \in Paths : RemoveArtifact(x)
  \/ \E f, g \in Files : \E m \in {Absent, Headerless, migration[g]} : EditMigration(f, m)

Step(p) ==
  \/ \E cmd \in Commands, pattern \in Patterns : Start(p, cmd, pattern)
  \/ ReadText(p) \/ Import(p) \/ WalkFailed(p) \/ RegistryRefused(p)
  \/ PlanArtifacts(p) \/ TruncateArtifact(p) \/ WriteArtifact(p)
  \/ ListArtifacts(p) \/ ReadArtifact(p) \/ GiveVerdicts(p)
  \/ PlanStub(p) \/ TruncateMigration(p) \/ WriteMigration(p)
  \/ ListMigrations(p) \/ ReadMigration(p) \/ VerifyMigrations(p)
  \/ WriteThrows(p) \/ Crash(p)

Next == Author \/ \E p \in Procs : Step(p)

Spec == Init /\ [][Next]_vars
=============================================================================
