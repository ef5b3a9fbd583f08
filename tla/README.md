# NekoStack in TLA+

NekoStack is a monorepo of TypeScript packages. Most of its package directories
are placeholders; the code that does something is the schema toolchain and the
migration runner built on it. This directory models that code in TLA+, checks
the models with TLC and proves theorems about them with TLAPS. Line numbers
here and in the modules are those of the sources under `src/packages`.

Contents: [the system](#the-system) · [modules](#modules) · [runs](#runs) ·
[fairness](#fairness) · [what the documentation says otherwise](#what-the-documentation-says-otherwise) ·
[proofs](#proofs) · [what is only model-checked](#what-is-only-model-checked) ·
[observations](#observations) · [not modelled](#not-modelled) · [plan](#plan)

## The system

A *schema* is a TypeScript module that builds a tree of nodes (the IR) under a
schemaId and a version. The CLI finds those modules, generates artifacts (Zod,
JSON Schema, TypeScript, OpenAPI) whose headers hold two hashes of the schema,
the hash of the file's text and the hash of the IR, and checks artifacts against
the schemas later. Two versions of a schema are diffed; for a breaking change an
author stubs a *migration*, a module with a transform and a header that holds
both hashes of both endpoints. The migration runner plans a chain of migrations
between two versions, verifies that each was written for the schemas as they are
now, and walks records from an input adapter through the chain to an output
adapter, one audit line per record.

| component | state | operations | talks to | hard behaviour | correct when |
|---|---|---|---|---|---|
| **migration runner** `migrate-runner/src/runner.ts` | per call: counts, skip set, first failure; nothing between calls | `run(opts)` | pre-flight, pipeline (calls); input, output, audit adapters (awaits); `AbortSignal` | calls interleave at awaits; crash and resume; adapters that throw at any await; abort in mid-walk | counts, log and storage agree; no record is lost by a resume; a call returns |
| **audit adapters** `audit.ts`, `adapters/jsonl-audit.ts` | an array, or a JSONL file | `append`, `cursor` | the runner; the disk | half-written lines; one file for many runs | the cursor of a run is what that run stored |
| **input and output adapters** `adapters/json-file-*.ts` | a buffer, a file | stream; `persist`, `flush` | the runner; the disk | buffer shared by calls, file replaced non-atomically, flush after a snapshot | success means written |
| **per-record pipeline** `per-record-pipeline.ts` | none | `runRecordPipeline` | schemas, transforms | which of several faults is reported; the time budget at its boundary | the first fault names the record's outcome and stops its walk |
| **pre-flight** `pre-flight.ts` | none | `preFlight` | planner, verifier | authored files change between stub and run | an accepted chain composes |
| **planner** `schema/src/migrations/plan-migration.ts` | none (recursion over a shared set and chain) | `planMigration`, `enumerateChains` | diff, registries | cycles, diamonds, backtracking | all simple chains, each once |
| **provenance verifier** `verify-provenance.ts` | none | `verifyProvenance` | registries | text and IR hash move independently | drift is seen at both ends |
| **migration stub** `stub.ts`, `cli/.../migrate/stub.ts` | files | `stub` | loaders, registry | path tested, then written | never overwrites an author's file |
| **registries** `build-registry.ts`, `build-migration-registry.ts`, `handlers/list.ts` | maps built once | build, find, list | everything above | duplicates, several files at fault at once, mixed version formats, two copies of one comparator | what is found and listed does not depend on file names; no file is dropped silently |
| **diff** `registry/diff.ts` | none | `diffNodes` | planner, CLI | severity of combined changes | additive changes accept all old data |
| **artifact generation and check** `registry/handlers/{generate,check}.ts` | files | `generate`, `check` | loaders, registry | partial write; edits between; import graph | a clean check means current artifacts |
| **CLI and loaders** `cli/src` | module cache | one process per command | all above | text and module read at different moments | exit code and disk agree |
| **builders and runtime** `schema/src/{builders,runtime}` | immutable trees | `validate`, `parse` | Zod | absence rules in nested positions | parse and validate agree |
| **config** `config/src` | immutable builders; the environment, read once | the methods of five builder classes, `defineConfig` | dotenv files, `process.env`, Zod | six settings handed on by position; five sources assigned over each other; errors caught half-way through a nested shape | every problem is reported once; a field is what its methods say; the source of the highest rank wins |
| **lint**, **utils**, placeholders, web site, scripts | none | - | - | - | - |

How they interact: a CLI command is a process that walks the workspace, builds
both registries and calls one handler. The runner is a library in a process of
the caller: it receives the registries ready-made, calls pre-flight and pipeline
synchronously and awaits its adapters. The only shared mutable state between
calls of one runner is in the adapters (the audit log, the output buffer and
file) and in the caller's signal; between processes it is the files.

## Modules

### The runner: `MigrationRunner`, `AuditLog`, `AtLeastOnce`

`MigrationRunner` is one process with one runner. `Invocations` are its `run()`
calls, each with a `pc` that names the await it is suspended at; an action is the
code between two awaits, with the effect of the call that was awaited.

| `pc` | the code is suspended at | actions that leave it |
|---|---|---|
| `idle` | not called yet | `PreFlightRefused`, `NothingToWalk`, `Begin` (runner.ts:83-203) |
| `cursor` | `auditAdapter.cursor` (:151) | `ReadCursor`, `CursorThrows` |
| `pull` | the next record of the stream (:197) | `CancelBetween`, `SkipRecord`, `ProcessRecord`, `EndOfStream`, `StreamThrows` |
| `persist` | `outputAdapter.persist` (:222) | `Persist`, `PersistThrows` |
| `append` | `auditAdapter.append` (:255, :269) | `AppendAudit`, `AppendThrows` |
| `flush`, `write` | `outputAdapter.flush` (:320): before and after the text is taken (json-file-output.ts:50) | `FlushSnapshot`, `FlushWrite`, `FlushThrows` |
| `done`, `crashed` | over | - |

The variables are the locals of `run` (`recordCount`, `successCount`,
`failureCount`, `skipSet`, `firstFailure`), its options and result, what it has in
hand (`outcome`, `snapshot`), the signal (`aborted`), and what calls share (`log`,
`buffer`, `file`). A record is its index and the pipeline is a choice of outcome;
`RecordPipeline` models that choice. Pre-flight is a choice between acceptance and
refusal; `PreFlight` models that one. A call that resumes takes the runId of a
call that has ended, as a caller that keeps the runId of the last result does.

`Crash` ends the calls in flight and loses the buffer and, with
`AuditKind = "memory"`, the log. With `"jsonl"` it may leave the line in flight on
disk in part, or without its newline; `AuditLog` says what the next append makes
of such a line (it is written behind it, on the same line) and what the cursor
makes of it (it throws). `SinkKind` is the output adapter: `"direct"` is a sink
whose `persist` is durable when it settles, `"buffered"` the JSON file adapter of
the package, which writes on `flush`. `faults` counts adapter calls that throw:
every adapter call may throw, before or after its effect.

`AtLeastOnce` is the abstract specification: items are delivered first and
acknowledged in a ledger afterwards; acknowledgements may be lost, singly or with
the whole ledger, deliveries may not. `Ledger` in `MigrationRunnerProperties`
maps the file to deliveries and the success lines of execute calls to
acknowledgements.

### A record: `RecordPipeline`

`runRecordPipeline` from the input's validation to the output's. How the schemas
and the transforms treat the record (known or unknown schema, valid or not, which
transforms throw, how long each takes) is chosen when the record is taken, the
budget too; the steps are those of the code.

### The plan: `VersionGraph`, `ChainSearch`, `PreFlight`

`ChainSearch` is `enumerateChains`: its recursion as an explicit stack (`todo`,
the successors each open call has still to look at), with the `visited` set and
the chain that all calls share. `VersionGraph` holds the reference definition,
`SimplePaths`, stated over all sequences of versions.

`PreFlight` is `preFlight` as an operator over a workspace that changes:
`planMigration` with its four outcomes for a severity, `classifyMigration`, and
the restriction of the verifier to the hops of the chain. The workspace's
actions are those of an author: a schema version is edited, added or deleted
(`EditSchema`, external to the code), a migration is stubbed (`StubMigration`, which
captures the four hashes). The planner's chain search is taken as `SimplePaths`
there; the run `search` shows that it is.

### The commands: `Workspace`

`Workspace` is the CLI over the files: schema sources, artifacts under
`generated/`, migrations. A process runs one command, `proc[p]` holds what the
command has read and where it is; an action is the code from one file operation
to the next, and other processes and the author may act between any two.

| `pc` | the command is at | actions that leave it |
|---|---|---|
| `idle` | not started | `Start`: the glob answers (walk-workspace.ts:78-110) |
| `walk` | the next schema file, or the end of the walk | `ReadText` (:115); `WalkFailed`, `RegistryRefused`; `PlanArtifacts`, `ListArtifacts`, `PlanStub`, `ListMigrations` |
| `import` | `loadSchemaModule` of the file whose text is in hand (:128) | `Import` |
| `open`, `write` | a `writeFile`: before the file is truncated, and before the text is in it | `TruncateArtifact`, `WriteArtifact`, `TruncateMigration`, `WriteMigration` |
| `read` | the next artifact or migration, or the verdict | `ReadArtifact`, `GiveVerdicts`, `ReadMigration`, `VerifyMigrations` |
| `done`, `crashed` | over, with `exit` | - |

`WriteThrows` and `Crash` end a command at any point; `CutShort` leaves what a
write that does not complete leaves: nothing, or the beginning. `EditSource`,
`RemoveArtifact` and `EditMigration` are the author's; the last removes a migration,
puts a file without a good header in its place, or copies another one there, so
that `verify` meets what `buildMigrationRegistry` refuses (verify.ts:305-314): a header
that does not parse, and two files for one pair of versions. A text is a value, and
the sourceHash is the text. The irHash is the shapes of the text and of all that
it imports, as the module cache of the process has them: a file imported by an
earlier one was evaluated then, and its text is read later. That gap, the one
between the test of the stub's path and the write, and the fact that
`sourceHash` covers one file and `irHash` a tree, are what the module is about.

Three simplifications. All schema files are in one directory, so that there is
one `generated/` and one `migrations/`; a file exports one named schema; an import
(stat, read and evaluation of a file and its imports) is one step, and so is a
listing. `disturbed` is a history variable: somebody else has written to the
workspace since the command started. The properties in `WorkspaceProperties` are
promises of undisturbed commands, about a workspace with an arbitrary past.

### The schemas: `SchemaNode`, `NormalizeIssues`, `SchemaDiff`, `Composition`

`SchemaNode` has the nodes of the IR, the builders that make them, and what is
made of a node, each described by the values it accepts and what it returns:

| operator | code |
|---|---|
| `Parse(node, v)` | `parse`: `emit` (zod-mapping.ts:108-251) with the value emitter (zod-compile.ts), run by Zod |
| `Validate(node, v)` | `validate`: the same of `stripDefaultsForValidate(node)` |
| `JsonAccepts(node, v)` | a JSON Schema validator on the fragment of `emitSchemaFragment`, for both the JSON Schema and the OpenAPI artifact |
| `Inhabits(node, mode, v)` | the type that `emitTypeExpression` writes, for mode "input" or "output" |
| `ParseIssues(node, v)`, `ValidateIssues(node, v)` (`NormalizeIssues`) | the issues of a rejection: those of Zod, which are external, through `normalizeIssues` (normalize-issues.ts:66-234) |

A value is its type and its content; a string is its length, because only bounds
on lengths are modelled. What Zod and a JSON Schema validator do with the schema
they are given is external: `ZodRefined` says how Zod 3.25 (the locked version)
treats a bound that is given twice, `JsonRefined` reads the last keyword.
Metadata, the format refinements (`regex`, `email`, `uuid`, `url`, `int`), runtime
refinements and the node kinds without a builder are left out. So are members
that are present with the value `undefined`: the values are those of JSON. That
JSON Schema counts the characters of a string as code points and Zod as UTF-16
units is below the abstraction.

`SchemaDiff` is `diffNodes`, operator by operator, without the metadata axis.

`Composition` is an author: a field is made by a chain of methods, put into an
object, the object is composed, a version of it is published. An action is one
call of a builder's method, a call that throws is no step. Since every method
returns a new tree, the state is what the author goes on with. `published` is any
earlier version of the schema; the properties compare it with the present one,
so the state graph ranges over pairs of versions that a history of calls leads
to. `merge` takes it as the other operand.

### The registries: `Registries`, `ArtifactPaths`

Pure functions of the files a walk has found, and a state machine that makes the
files: an author puts a schema file or a migration at any place in the order of
paths, adds an export to a file, breaks a file or mends it.

| operator | code |
|---|---|
| `sortSchemas`, `OfId` | the loader's order of the schemas of one file (tsx-loader.ts:241-270) |
| `buildRegistry`, `IndexSchema` | build-registry.ts:56-131: the entries in the order of the map, or issues |
| `findSchema`, `Before`, `Sorted` | build-registry.ts:156-201: exact, or the highest version; the comparison of versions and the sort it is given to |
| `listHandler`, `ListOf` | handlers/list.ts:41-86 |
| `parseMigrationProvenance` | migrations/parse-provenance.ts:82-217: a header is the set of fields that were found in it |
| `buildMigrationRegistry`, `IndexMigration` | build-migration-registry.ts:59-175 |
| `listMigrationsHandler`, `ByKey` | migrations/handlers/list.ts:40-60, which is also the order in which the verifier goes |
| `resolveOperand`, `LooksLikePath` | the operands of `diff` (commands/schema/diff.ts:131-274) |
| `runList`, `runDiff`, `runMigrateList`, `runMigratePlan` | the exit codes of the commands, for `migrate plan` up to the planner; whether a change is breaking is a parameter of `runDiff` |
| `basenameOf`, `Discriminator`, `suggestedPathFor` (`ArtifactPaths`) | where an artifact goes (handlers/generate.ts:143-261) |
| `suggestedMigrationPathFor` | where a stub goes (migrations/stub.ts:113-145) |
| `generateHandler`, `runGenerate` | what is under `generated/` when the command is over, the later of two files with one path |
| `buildHeader`, `parseProvenance`, `classifyArtifact` | id and version on their way through a header, and the verdict of `check` on what `generate` left |

A version is a string of which three things are known: the numbers in it, if it
has the form of a semantic version (`Triple`), its place in the order of
`localeCompare` (`Collation`), and whether it would be taken for a path. A slug is
the words of a text (`Words`), a path a directory and the parts of a name between
its dots. The four artifacts of a schema have one path but for their endings, none
of which can be taken for another, so one stands for the four. `Workspace` has one
schema a file and the interleavings; `ArtifactPaths` has any number of schemas a
file and no interleavings.

### The configuration: `Config`

A shape is the keys of every object in it by the path that leads there (`shape`),
and a builder at the end of every other path (`fields`); `IsTree` says which such
things are shapes. An author calls any methods on the fields (`CallMethod`; `chains`
remembers which, for the properties), somebody sets variables in any of the five
sources (`SetVariable`), and the program starts (`defineConfig`). `loadEnv` is the
assignment of the sources over each other, `SafeParse` what Zod makes of a text or of
its absence. `validateShape` is a walk: `frames` are its open calls, the outermost
first, each with the key it is at, the errors it has collected and the values it has
put into its object. A step looks at one key: it parses a field (`ParseField`) or
opens a call for a nested object (`EnterNested`); at the end of its keys a call
throws or returns to the one that made it (`LeaveNested`), and the outermost one to
the program (`Return`). A text is known by its length, by the number it stands for
and by whether it is a URL; a name is the sequence of its words, which is what
`pathToEnvKey` splits it into. That a `Secret` prints as `[REDACTED]` is left out.

## Runs

| run | module, cfg | question | bounds |
|---|---|---|---|
| `direct` | `MCMigrationRunner_direct` | over crashes, faults, dry runs and resumes, is the log never ahead of the storage, and does a successful job lack nothing but what a dry run of the same job has walked? Does the runner implement `AtLeastOnce`? | three serial calls, two records, one fault, one crash |
| `overlap` | `_overlap` | with two calls in flight, also two resumes of one job: does a record get one outcome from a call, does none go without, and do the counts add up on every way out? | three execute calls, two at once |
| `buffered` | `_buffered` | with the in-memory log and the JSON file: do the counts add up, which failure is reported, what writes the file, and does what was written stay? | two serial calls, three records, every mode and policy, signals |
| `pipeline` | `MCRecordPipeline` | is the verdict the first fault's? | three hops, 0 to 2 ms, every budget |
| `search` | `MCChainSearch` | does the search end, and are the chains it found exactly the simple paths? | every graph over four versions with at most one self-loop |
| `preflight` | `MCPreFlight` | what does acceptance promise? | three versions, three IRs, two texts, one edit, three migrations |
| `workspace` | `MCWorkspace` | what do an exit code of `generate`, `check`, `migrate stub` and `migrate verify` say of the files, whatever other commands, crashes and edits did before? | two files, one importing the other; a JSON and a source artifact of each; two commands at a time, one edit, one fault |
| `schema` | `MCComposition` | do `parse`, `validate`, the JSON Schema and the types say the same of every value? Does a rejection name what is wrong and where? Is the severity of a diff what becomes of old data? What do `partial` and `merge` promise? | two keys, three objects to begin with, seven fields, eight bounds, three calls; 96 values |
| `config` | `MCConfig` | is a field what the last call of each of its methods says, is every problem reported, which source wins? | two shapes of three fields, one or two of them nested; three texts; three method calls or settings of variables |
| `registries` | `MCRegistries` | do the names of files matter? Do the two comparisons agree? Is any file or schema out of reach? When is a file that `generate` or `stub` writes overwritten by the next? | three schemas and migrations in all; two ids, six version strings, five headers, five paths |
| `doc_*` | | see [below](#what-the-documentation-says-otherwise) | |

Why the bounds are enough. Two records are the least that have a first and a
later one, a skipped and a processed one, a failure and a success in one walk;
three calls are the least in which a job is begun, resumed after a crash or a
fault, and resumed again over what both left. One fault and one crash in any of
three calls gives every pair of a call that was cut at any await and a call that
follows it; the only state a fault leaves is in the log and the file, and a
second half-written line adds nothing to `Malformed`. Calls are interchangeable
(they start idle and no property names one), so the runs of the runner use
symmetry. `buffered` runs calls one after another because `WrittenStaysWritten` needs
it; there only a flush can throw, the persist and the append of the two adapters
cannot. What a persist or an append that throws does to the counts is `overlap`'s
(`RecordAccounting`), and to the first failure it is the theorem's
(`FirstFailureNamed`), which is about every sink and log. The promises of `direct` hold with the in-memory log and
with overlapping dry runs too: the theorems below prove them for every value of
`AuditKind`, `Modes` and `MaxConcurrent`, and those of `overlap` too, with either
sink. Four versions are the least with a diamond, a cycle off
the path and a path through all inner versions. In `preflight`, three IRs give each
severity for some pair, and the three-version chain has an inner version whose two
hops can disagree. In `workspace`, a second command is what may disturb the first
or find what it left, and the history before both is in the initial states: a
workspace is checked out with nothing generated, or with all that `generate` and
`stub` write. One edit of that (a comment, a shape, a mistake, a second schema of
the same name, a file or an artifact deleted, a migration copied, deleted or put
there without a header) and one cut write reach every row of the verdict table and
every way out of `verify`, a second migration for one pair of versions being one edit
away from a workspace that was checked out with the first; two files are the least with an import, and with a
duplicate; of the four kinds of artifact two differ in how they are read. With a
second edit the run takes three minutes and every property holds as well.
In `schema`, three calls reach every pair of methods and put a field with two
methods on it into an object, next to or in place of a field that was there; the
objects to begin with hold what it takes more calls to make (a default under a
nullable, an array of objects with a default in them). The bounds are 1 and 2 and
the numbers and lengths 0 to 2, so that a value lies below, on and above each;
under each of the two keys a value of every type is tried with the three most
telling ones under the other, absent, null and 1. Within three calls `merge` meets
strict objects only; `MergeIsBoth` says what its policies come to, but the permissive
ones are reached by later calls and not as its operands.
In `config`, three steps are two sources that set one variable with a method on its
field, or three methods on one field; the first shape has two fields that read one
variable, the second a group with two fields at fault in front of a third. In
`registries`, three versions of one id are the least on which a comparison can fail
to be transitive, and three files the least with a twin and another fault; the
version strings are a pair that sorts differently by number and by text, two that
differ from one of these behind the numbers only and from each other in a
character that no slug keeps (one of them looks like a path), the word null, and
none. One id is the other with such a version behind it, so that two ids and a
version can have one slug; of the five paths two differ in the extension, two in
the directory and two in how much of one name is the beginning of the other.

The models may stop: when every call is over, or the search is, nothing is left
to do. `CHECK_DEADLOCK FALSE` says so. That the search does not stop *before* it is
over is the property `SearchEnds`. Of the runner no such property is stated: its walk
is a loop over the records of a stream that ends, and whether an adapter answers is
not the runner's to promise.

What the properties say, and the code they are about, stands in the comment
above each in `MigrationRunnerProperties`, `RecordPipeline`, `ChainSearch`,
`PreFlight`, `WorkspaceProperties`, `CompositionProperties`, `ConfigProperties` and
`RegistriesProperties`. Each has been seen to fail for a plausible fault in the code:
the definitions `M...` next to the definition they would replace (`MNeverFlushes`,
`MCursorAnyStatus`, ...); no action uses them.

## Fairness

Only the search has a liveness property. Its `FairSpec` has weak fairness on its next
step: synchronous code that runs. Everything else is safety, and no fairness is
assumed.

## What the documentation says otherwise

Two runs state what the documentation says and show that the code does something
else.

| run | documentation | code |
|---|---|---|
| `doc_additive` | DIFF_CLASSIFICATION.md:24, of an additive change: "The new schema's accepted set is a strict superset of the old one's" | refinements are compared by name and the last one wins (diff.ts:309): with `min(1)` become `min(2).min(1)` next to an additive change, 1 is rejected; an optional field declared under a key that was let through before is additive (diff.ts:454, 498), whatever old data holds there |
| `doc_missing` | REGISTRY.md:225: "the `check` verb expects all four to be present on disk"; the same in the comment at handlers/generate.ts:28-29; PHASE_PLAN_v0.7.md:464, of a missing artifact: "`check` treats as **stale**" | `check` classifies the artifacts there are (check.ts:96-107, handlers/check.ts:68-86): where nothing, or a part, has been generated it exits 0 |

`SeverityIsRight` says what holds of additive changes instead: it excludes these
cases by name (`DeclaresUnknown`, `OneBoundEach`) and holds for everything else.
`CheckIsRight` says what `check` promises instead: nothing stale passes, and what is
complete, whole and of the present IR does.

The others that were met while modelling have no run of their own. Each is named where
a property makes room for it.

* define-config.ts:19: "If any required field is missing or malformed, a single
  `ConfigValidationError` is thrown". `z.coerce.boolean()` makes false of undefined
  (field.ts:233): a required boolean that is set nowhere is false, and nothing is
  thrown. `FieldIsItsCalls` says that it is so for booleans and for no other kind.
* field.ts:232, CHANGELOG.md:21 and the README of the package list `"false"` and `"0"`
  as spellings a boolean is coerced from. They are read as true, as every text but the
  empty one is (tests/field.test.ts:116-117 notes it). The texts of the run `config` have
  neither; `ReadAs` in `FieldIsItsCalls` says what the code does with any text.
* The comment at migrate/stub.ts:140-141: "Refuse to overwrite. The destination is
  hand-authored migration code; clobbering it would silently destroy the author's
  work." The path is tested first and opened later (:142-160): of two stubs at once
  the second overwrites the first. `StubIsRight` is promised to an undisturbed one.
* RUNNER.md:143 says that the message of a stopped run names "`N of M records
  failed`". The text is used when more than one record failed (runner.ts:366-369),
  which a run with `onError: "stop"` never reaches.
* A flush that throws after a walk without failures returns `persist_failed` with
  `failureCount` 0 (runner.ts:324-335); RUNNER.md:240 has "`failureCount > 0`". A stream
  or an append that throws during the walk returns `adapter_init_failed` with counts
  (:303-312); RUNNER.md:242 has "counts absent". A resume over the default in-memory
  audit skips what earlier calls of the runner audited (audit.ts:76-84); types.ts:200
  has "no resume". Each is an invariant over one result, and TLC refutes it on
  `MigrationRunner` in a few steps.
* REGISTRY.md:246 has "so paths don't collide", 269 "so per-schema paths stay unique",
  and generate.ts:43-59 the same. Two schemas with the same slug in one file, or
  `user.schema.ts` beside `user.schema.js`, have one artifact path, and the later one
  is what stays. `check` finds it clean and says nothing of the other; `PathsKeptApart`
  is about namings that read apart.
* REGISTRY.md:178 says that one text with another IR "should never happen unless the
  artifact was hand-edited". It happens when an imported file is edited:
  `integrity_error`, exit 4. `CheckIsRight` allows for it.
* INVARIANTS.md:30: a generator must throw "when emitting would change validation
  semantics". In the JSON Schema a refinement overwrites the keyword of an earlier
  one (schema-fragment.ts:199-267): `min(2).length(1)` is emitted as length 1 without
  the lower bound that `parse` enforces. `JsonSchemaAgrees` is stated for schemas
  with each bound given once (`OneBoundEach`).
* ISSUE_CODES.md:29 gives `missing_required` to every required field that is absent. An
  absent literal is reported as `invalid_literal` and an absent enum with a value
  that is no string as `invalid_literal` or `invalid_union`, because that is what Zod
  calls it; `IssuesNameTheFault` leaves these codes open.
* `diffNodes` returns no change for `min(1)` against `min(2).min(1)`, against the
  comment that an empty result means equivalence (diff.ts:15-17).
* A header field of blanks only is read as one blank, against the comment at
  migrations/parse-provenance.ts:160; the `malformed_field` it announces cannot occur.

## Proofs

Every safety and action property that the runs `direct`, `overlap`, `buffered`,
`pipeline`, `search`, `preflight` and `workspace` check is a theorem as well, for
every value of the constants, and so is every one that `config` and `registries`
check. The assumptions about constants are those in the
modules that declare them: `RunnerConstants`, `PipelineConstants`,
`SearchConstants`, `PreFlightConstants`, `WorkspaceConstants`, `ConfigConstants`,
`RegistriesConstants` and `ArtifactPathsConstants`. They say what kind
of thing each constant is; beyond that, only that a walk has a hop
(`PipelineConstants`; the runner returns before the walk if not), that the versions
of a schema are finitely many, that a schema has no difference from itself
(`PreFlightConstants`), that a shape is a tree, a bound or the name of a variable is
given and a default has a type (`ConfigConstants`), that an id or a version has at
least one word, if only the empty one (`ArtifactPathsConstants`), and that `Imports` has the imports of imports and no file
imports itself (`WorkspaceConstants`; what it says of the author's first files, that
`generate` and `stub` succeed on them, no proof uses). Where a theorem has a
hypothesis of its own, it is named below, with the reason.

### The runner

All of it rests on `TypeInv` (`TypeCorrect`, `MigrationRunner_proofs`): the type
invariant with one addition, that a record in hand has been counted; without it
the index `recordCount - 1` in an audit line need not be that of a record.

* The second part of `MigrationRunner_proofs`, for the durable sink:
  `AuditedStored`, `CompletedStored`, `LedgerImplemented`. The invariant is `StorageInv`. `LogInv`
  says that a line belongs to a call that has started and carries its runId, and
  that a success line of an execute call is stored. For each call, `HandStored`
  carries the persist to the append, `SkippedStored` says that the skip set is
  covered: stored under the job or walked by a dry run of it, `PassedStored` that
  every record the walk has passed without a failure was skipped or stored, and
  `JobStored` is the goal for the calls that are over. The central lemma is that
  what is covered only grows (`CoveredUnderStays`), so that what the cursor saw
  remains true whatever other calls, crashes and failed appends do afterwards.
  `LedgerImplemented` maps each action to a delivery, an acknowledgement, a loss
  or a stutter: an append that finds an open last line loses the
  acknowledgement on that line.
* `MigrationRunnerWalk_proofs`, for both sinks, both logs and any number of calls
  in flight. Its first part says once what each kind of step does to the call
  that takes it (`CallStep`, `CursorStep`, ...) and that it leaves the others alone;
  the later proofs cite these lemmas, not the actions. `CountsAccount`: the sum
  of the counts is inductive with where the call stands (`CountInv`).
  `OneLinePerRecord`: that a line lies before what the call has walked and was not
  skipped (`LineInv`), so that the record in hand has none yet; the skip set does not
  change once the walk has begun. `OutcomesAudited`: a record is settled in the
  step that appends its line, and a log that is intact was intact before.
  `FirstFailureNamed`: `firstFailure` is set if and only if a failure was counted,
  and names the first failure line (`ReportInv`), which later lines stay behind.
* The second part of `MigrationRunnerWalk_proofs`. `FlushesWholeWalks` carries what is true of a call
  that has reached the flush (`FlushInv`). `SuccessIsWritten`: while a walk is
  without failures, what it has walked is skipped or in the sink, the buffer or the
  file, and what it has taken to write has all of it (`HeldInv`); the sink only grows
  while the call is in flight, also under other calls. `OutputIsKept` adds that
  what a success has written is in the file and in the sink that the next flush is
  taken from (`KeptInv`). It has the hypothesis `MaxConcurrent <= 1 \/ SinkKind =
  "direct"`: with the JSON file and two calls in flight it is false, see
  [observations](#observations). `ResumeStoresOnce` has `MaxConcurrent <= 1`: of two
  resumes of one runId in flight both may store a record before either has a line
  for it. Serial calls are alone and what they have taken to write is the buffer
  (`SerialInv`); what the cursor would answer now is skipped or walked already
  (`ResumeInv`), also over the lines of calls that crashed.

### A record, a plan

* `FirstFaultDecides` (`RecordPipeline_proofs`): the walk has called the hops it has
  passed and no others, and none of these is at fault (`PipelineInv`), for chains of
  any length.
* `VisitedFollowsPath`, `FoundChainsAreChains`, `EveryChainFoundOnce`
  (`ChainSearch_proofs`): the shared `visited` set is the set of versions on the
  path, what is found is a simple chain, and at the end it is every simple chain,
  each pushed once, on every finite graph. Soundness adds to the invariant that the
  path is simple, is a walk, starts at the start and is as long as the stack.
  Completeness needs no induction over paths: every chain is found or lies ahead,
  that is, leaves the path at an open call which has yet to look at the chain's
  next version, and never both (`CompleteInv`). A look at a version moves the
  chains that go on there from one call to the next, or finds the one that ends
  there, or drops none because no simple chain comes back to the path. That the
  reference definition bounds the length of a path by the number of versions
  loses none is the pigeonhole principle (`ChainsAreSimplePaths`).
* `AcceptedComposes`, `BreakingTakesTheOnlyChain`, `UnrelatedChangesNothing`
  (`PreFlight_proofs`): the first two follow from what acceptance says of the chain
  (`PlanCases`, `VerdictCases`) in every state, given that simple paths are finitely
  many and one that is alone is what `CHOOSE` picks; the third is about two states: a
  header never changes once it is there (`HeadersStay`), and a change off every chain
  leaves the set of simple paths and the hashes on them alone (`SamePlan`,
  `SameBinding`). `EveryChainFoundOnce` is what entitles `PreFlight` to take
  `SimplePaths` for the planner's search.

### The commands

`Workspace_proofs`, for any files, imports, texts and kinds of artifacts, any number
of commands at a time, and any edits, crashes and failed writes. The invariant
`WorkspaceInv` says of every command what it has in hand at each place of its code
(`Sane`), and of one that is undisturbed that this is what is on disk (`Fresh`):
what it has imported is the present source (`Imported`); the files it has walked
and those it has to walk are the files there are, and a failure means that one of
them does not load (`Walks`); after the walk the registry has exactly those files
and they are sound (`AfterWalk`); what `generate` has no more to do is done
(`Generated`), the path `stub` is about to open is free (`Stubs`), and what `check` and
`verify` have read and have to read are the artifacts and migrations there are
(`Checked`, `Verified`). The present makes no assumption about the past: what an
earlier command or the author left is any state that `Next` reaches. A step of one
command either leaves the disk and the others as they are or disturbs them
(`StepCases`, `SameKeeps`, `DisturbedIsSane`), so that `Fresh` has to be kept by the
steps of one's own only.

`CheckTellsTheTruth`, `VerifyTellsTheTruth`, `GenerateMakesAll` and
`StubKeepsWhatIsThere` come from a case analysis of how a command ends (`HowItEnds`,
`EarlyEnd`), and from `FindsNow`: for a sound set of files, looking a name up in the
registry answers what the files declare. `GenerateKeepsToItsPattern` comes from `WhoWrites`,
which file a step writes.

### The registries

`Registries_proofs`, for any number of files in any order; only the schemas need `RegistriesConstants`.
A registry is a `FoldLeft` over the files, a lookup a fold and a sort over the
registry, and what these come to is an induction over lengths. The
induction theorems of the library take an operator and cannot be used, so the
proofs take the least counterexample instead (`LeastExists`, `NoCounterexample`):
each fold is shown to exist and to be a loop over the first n elements
(`FoldExists`, `LoopExists`, `FoldExistsFor`), and the loop keeps an invariant. The
invariant of the specification is only that files have different names
(`Numbered`), which an insertion at any place keeps.

* `MigrationsAnswered`. The loop keeps `Indexed`: its entries
  are those of the first good file of each key, its issues the ones of every other
  file, a duplicate with the path of the first of its key (`IndexStep`, `RegistryIs`).
  A file that is named by an issue is then at fault itself: it does not parse, or
  another has its key, be that the one that came first or the one that came later
  (`NamedByIssue`); the exit code follows from the codes of the issues (`IssuesExit`).
* `SchemasAddressable`. What comes out of a loop that pushes
  and of a flattening, and in which order, is said once (`PushedFacts`,
  `FlattenFacts`). `buildRegistry` then is a loop over the schemas of all files
  (`RegistryIsLoop`) that keeps `Registered`: no two entries have one name, every named
  schema so far has an entry of its name, and entries and issues together are as many
  as the named schemas. Without issues no two schemas of the workspace share a name
  (`RegistryFacts`), so that an operand means at most one of them (`LookupFacts`).
* `LatestListedLast`. Sorting by insertion keeps the elements, and puts them in order
  if the comparison ranks them (`SortedFacts`, `Ranks`), which it does where one rule
  compares them all (`OneRuleRanks`). That the last in the list is what an id alone
  means needs no order, only that the two copies sort alike; that none has higher
  numbers does. `OneEach` counts the list.
* `RenamingMeansNothing`. Files in another order are a permutation of the files
  (`ReorderedFacts`). For migrations, issues and different good keys together are as
  many as the files (`Counted`), and a permutation changes neither number. For schemas,
  the places of the flattened sequence correspond one to one with those in the files
  (`Placed`), so that there are as many named schemas in any order
  (`NamedSpotsReordered`); as there are as many different names as entries (`OneEach`),
  there are as many issues. Without issues the entries are the same set, and a set
  that the comparison keeps apart is sorted in one way (`SortedOneWay`). `Comparable`,
  the hypothesis inside the property, is what makes it so: one rule, and no two
  versions that `localeCompare` calls equal. Without either the order of the
  files shows, see [observations](#observations).
* `PathsStayApart`. At the path of every artifact the last one with this path is left
  (`DiskFacts`). If that is the artifact of another schema, the two names of files with
  something behind them are one name, so that one begins like the other (`OneBegins`):
  where files are named apart it is one file (`SameStem`), and what stands behind the
  name tells its schemas apart (`DiscriminatorFacts`). That the version is put behind
  an id which comes more than once is needed there, and that it has a word at all
  (`LongerWithMore`). In the path of a migration the first "to" is the separator if
  the versions do not say "to" (`OneCut`). What is left is clean because its header
  gives back the id and the version (`ParsedBack`) and these have the one entry that
  `RegistryFacts` promises (`DiskIsClean`).

### The configuration

`Config_proofs`, for shapes of any width and depth, any chains of methods with any
arguments, any texts and any settings of the five sources.

* `FieldsAreTheirCalls`. The invariant says of a field, setting by setting, that it is
  what the last call of the methods that set it gave (`Settings`, `AuthorInv`).
  `LastCall` of a chain with one more call is that call or what it was
  (`LastCallStep`), so that a method which drops or swaps a setting on its way breaks
  the step; what is parsed follows from the settings (`ParsedUnset`,
  `ParsedNeither`, `ParsedText`).
* `ProblemsAreReported`. Every open call accounts for the fields beneath the keys that
  it has passed (`Accounts`, `Passed`): an error for each bad one, in the order of the
  shape, and without errors a value for each. A field adds itself (`AccountsOne`), a
  nested call that is over has passed everything beneath its path (`PassedFacts`,
  `ThroughIs`), and what was passed stands before what comes next (`PassedPrecedes`), so
  that two accounts in a row are one of both (`AccountsJoin`). That each call is at the
  key of the one it has opened (`Opened`) is what makes the account of the inner one
  the right one to add. No induction over trees is needed: the stack has it.
* `HighestWins`. `loadEnv` is its recursion over the two or four files, which is shown
  to exist (`Merged`), and so a cascade that asks the last source first (`Loaded`);
  the first that answers outranks the others that count (`HighestCounts`).

## What is only model-checked

* Liveness: `SearchEnds`, that the search ends. Fairness and `ENABLED` are out of the
  prover's reach.
* Everything about schemas (`Composition` and its properties): nodes are trees,
  `Parse`, `walk` and their like are recursive operators, in whose modules nothing can
  be proved, and what they compute for every tree is an induction over trees.

## Observations

Behaviour met while modelling that no documentation speaks of.

* A dry run writes success lines (runner.ts:253-267) and the cursor does not look at
  the mode: an execute run that resumes the runId of a dry run skips what was
  never stored. `CompletedJobIsComplete` says that nothing else is ever missing: each
  record of a job that ends in success is stored or was walked by a dry run.
* With the buffered adapter a stopped, cancelled or crashed run leaves success
  lines for records that were never flushed; a resume in a new process skips them.
  This follows from RUNNER.md:125 and :153 taken together.
* Two calls in flight with the buffered adapter: each flush takes its text before
  it writes, so the older text may be written last. `WrittenStaysWritten` is
  checked and proved for serial calls.
* Pre-flight refuses a run whose schemas are not in the registry, so the pipeline's
  two branches for an unknown schema (per-record-pipeline.ts:70-76 and its twin for
  the output) cannot be reached from the runner.
* `check` with a pattern reads every artifact beside the matched files and reports
  those of files the pattern leaves out as `schema_not_found`; and it does not look
  into a `generated/` beside which no schema is left.
* A source artifact that is cut behind its header passes `check`, which reads the
  header; a JSON artifact that is cut does not parse.
* A `readFile` of an artifact or a `writeFile` of `generate` that throws is caught
  nowhere below `dispatch`; the process exits 1, not the IO_ERROR of exit-codes.ts.
* The path of a migration has the basename of the schema's file and the two
  versions, not the id: two ids in one file that go through the same versions have
  one path, and the second stub is refused (migrations/stub.ts:113-127).
* A version that is the word `null` is read from a header as no version
  (registry/parse-provenance.ts:218-222): `check` answers `version_not_found` for the artifacts
  that `generate` has just written, or compares them with the unversioned schema. An
  id that is this word is read as none, and the artifact called anonymous
  (handlers/check.ts:115-130). `PathsKeptApart` leaves both out.
* A default is not checked against its own node: with `s.number().min(2).default(1)`
  `parse` rejects every record that lacks the field, `validate` accepts it.
  `ValidateForetellsParse` is about schemas whose defaults pass (`SoundDefaults`).
* A default that is added to an optional field is reported as breaking: the mask of
  `absenceStateOf` turns optional into required (diff.ts:266-273).
* `before.fields[key]` and `k in this.shape` see inherited members: a field named
  `constructor` cannot be added by `extend`, and in a diff its addition is a
  `type_changed` (diff.ts:450, object.ts:95).
* For an additive diff the planner takes the migration between exactly the two
  versions or none, also when a chain of several exists.
* An object without fields is emitted as `{}` in TypeScript (ts.ts:197), a type that a
  number or a text inhabits too; `parse` refuses them. `TypesAgree` asks that what
  inhabits an object is an object only of objects with fields (`HasFields`).
* The comparison of versions is numeric if both have three numbers and textual if
  not (build-registry.ts:185-201). For an id that mixes both it is not transitive
  (`1.9.0` before `1.10.0`, that before `1.2`, that before `1.9.0`), and which version
  is the highest depends on the order of the files; so does the order of two versions
  that `localeCompare` calls equal (a composed and a decomposed letter).
  `RenamingIsImmaterial` leaves these ids out (`Comparable`).
* `1.10.0-rc` comes after `1.10.0`: what follows the numbers is compared as text.
  REGISTRY.md:140 speaks of the "highest semver".
* Header and module of a migration may name different versions; nothing compares
  them, and the registry goes by the header.
* A schema without a version next to versions of the same id cannot be given to
  `diff` by its id, which means the highest version; and an id that ends in `.ts` or a
  version with a slash is taken for a path (`EverySchemaAddressable`).
* `migrate list` orders versions as plain strings, `list` by number.
* The empty text is 0 for `c.number()`, and a required number that is set nowhere is
  reported as "Expected number, received nan", not as "required but not set"
  (validator.ts:90-96): the coercion hides from Zod that there was nothing.
* An array field never gets a value from a variable, only its default.
* `dbUrl` and `url` in `db` read one variable, `DB_URL`; nothing reports it.

## Not modelled

Text: the wording of messages, the JSON of lines and headers, the source text that
the generators write, colours and tables of the CLI. Of a header the fields are
modelled; that the comment form trims blanks around an id or a version, and the
JSON form does not, is not. `cli.ts` reads arguments and hands them to a command, a
table without a state of its own. The lint rules are visitors of the syntax tree
of one file each: they keep nothing between files and what they look for is the
shape of TypeScript sources, which no model here has. The article service is a
sketch that nothing uses: its reader returns two fixed texts (ArticleService.ts:200-211).
The placeholder packages hold one empty module each; the
web site, the style sheets and the release scripts hold no logic of the system.
Everything else that is missing is in the plan.

## Plan

Done, in this order: the runner with its log and adapters (the only concurrent and
crash-prone part), the record pipeline, the chain search, the pre-flight, the
commands over the workspace, the schemas with their artifacts and diffs, the
configuration, the registries with their commands, the issues of a rejection, the
paths of artifacts and migrations; the proofs above.

1. The parts of `Composition` that walk a schema as a stack of open calls, like `Config`, so that
   they can be proved about.
2. `migrate plan` behind its registries: the composition of `Registries` with
   `SchemaDiff` and `PreFlight`, with the severity of a real diff in place of the table.
