-------------------------- MODULE RegistriesProperties --------------------------
(***************************************************************************)
(* What the commands may be relied on for, whatever files there are and    *)
(* whatever their names.                                                   *)
(***************************************************************************)
EXTENDS ArtifactPaths

Registry == buildRegistry(schemaFiles)
MigrationRegistry == buildMigrationRegistry(migrationFiles)

\* Version strings that are compared by one rule, and none of which the order
\* of text calls the same as another: the comparison of these is an order.
OneRule(versions) ==
  \/ \A v \in versions : Triple[v] # <<>>
  \/ \A v \in versions : Triple[v] = <<>>
Comparable(versions) ==
  /\ OneRule(versions)
  /\ \A v, w \in versions : Collation[v] = Collation[w] => v = w

\* The files in all the other orders that other names would put them in.
Orders(n) == {p \in [1 .. n -> 1 .. n] : \A i, j \in 1 .. n : p[i] = p[j] => i = j}
Reordered(files) ==
  {[i \in DOMAIN files |-> files[p[i]]] :
     p \in Orders(Len(files)) \ {[i \in DOMAIN files |-> i]}}

VersionSet(entries, id) == ToSet(VersionsOf(entries, id))
NameOf(e) == <<e.id, e.version>>
Named(files) == {e \in ToSet(FlattenSeq([i \in DOMAIN files |-> files[i].exports])) : e.id # None}

(* What a workspace means does not depend on what its files are called:    *)
(* in whatever order they come, they are refused with the same number of   *)
(* issues, or listed and looked up the same, schemas and migrations        *)
(* (build-registry.ts:60-106, build-migration-registry.ts:64-117,          *)
(* handlers/list.ts). Ids whose versions are compared by two rules at a    *)
(* time, or of which localeCompare finds two the same, are left out.       *)
RenamingIsImmaterial ==
  LET registry == Registry
      entries == registry.entries
      migrations == MigrationRegistry
  IN /\ \A files \in Reordered(migrationFiles) :
          LET other == buildMigrationRegistry(files)
          IN /\ Len(other.issues) = Len(migrations.issues)
             /\ migrations.issues = <<>> =>
                  listMigrationsHandler(other.entries) = listMigrationsHandler(migrations.entries)
     /\ \A files \in Reordered(schemaFiles) :
       LET other == buildRegistry(files)
       IN /\ Len(other.issues) = Len(registry.issues)
          /\ registry.issues = <<>> =>
               /\ ToSet(other.entries) = ToSet(entries)
               /\ \A id \in Ids : Comparable(VersionSet(entries, id)) =>
                    /\ ListOf(other.entries, id) = ListOf(entries, id)
                    /\ findSchema(other.entries, id, None) = findSchema(entries, id, None)

(* The two copies of the comparison agree: an id alone is the last of its  *)
(* versions in the list, whatever the versions look like, and no version   *)
(* has higher numbers if all have some; the list has every named schema    *)
(* once, the unversioned one behind the versions                           *)
(* (build-registry.ts:167-201, list.ts:45-86).                             *)
LatestIsLastListed ==
  LET registry == Registry
      list == listHandler(registry.entries)
  IN registry.issues = <<>> =>
       /\ Len(list) = Cardinality(Named(schemaFiles))
       /\ {NameOf(e) : e \in ToSet(list)} = {NameOf(e) : e \in Named(schemaFiles)}
       /\ \A i, j \in DOMAIN list :
            i < j /\ list[i].id = list[j].id => list[i].version # Unversioned
       /\ \A id \in Ids : \A e \in findSchema(registry.entries, id, None) :
            LET versions == VersionSet(registry.entries, id)
            IN IF versions = {} THEN e.version = Unversioned
               ELSE /\ e.version \in versions
                    /\ \A i, j \in DOMAIN list :
                         list[i] = e /\ list[j].id = id /\ j > i => list[j].version = Unversioned
                    /\ (\A v \in versions : Triple[v] # <<>>) =>
                         \A v \in versions : ~ \E i \in 1..3 :
                           /\ Triple[v][i] > Triple[e.version][i]
                           /\ \A j \in 1..(i-1) : Triple[v][j] = Triple[e.version][j]

(* Every migration file is either the one entry of its versions or named   *)
(* by an issue, however many others are at fault, and the exit code says   *)
(* the gravest: a header that does not parse before a duplicate            *)
(* (build-migration-registry.ts:64-117, migrate/list.ts:88-135,            *)
(* migrate/plan.ts:196-205, 259-318).                                      *)
EveryMigrationAnswered ==
  LET registry == MigrationRegistry
      good(file) == parseMigrationProvenance(file.header) = "ok"
      twins(file) == {f \in ToSet(migrationFiles) :
                        /\ good(f) /\ f.name # file.name /\ KeyOf(f.header) = KeyOf(file.header)}
  IN /\ \A file \in ToSet(migrationFiles) :
          /\ good(file) /\ twins(file) = {} =>
               [key |-> KeyOf(file.header), path |-> file.name] \in ToSet(registry.entries)
          /\ (\E issue \in ToSet(registry.issues) : file.name \in issue.names)
               <=> ~good(file) \/ twins(file) # {}
     /\ AllLoad(migrationFiles) =>
          runMigrateList(migrationFiles) =
            IF \E file \in ToSet(migrationFiles) : ~good(file) THEN INTEGRITY_ERROR
            ELSE IF \E file \in ToSet(migrationFiles) : twins(file) # {} THEN LOGICAL_FAILURE
            ELSE SUCCESS
     /\ runMigratePlan(schemaFiles, migrationFiles) = SUCCESS <=>
          runList(schemaFiles) = SUCCESS /\ runMigrateList(migrationFiles) = SUCCESS

(* Every named schema of a workspace that loads can be given to `diff`, by *)
(* id and version, by its id alone if it has no version and its id has     *)
(* none either, or by the path of a file that exports nothing else, and    *)
(* the exit code is that of the two schemas that were meant and of no      *)
(* others; ids and versions that make the operand look like a path are     *)
(* left out (diff.ts:71-260).                                              *)
EverySchemaAddressable ==
  LET entries == Registry.entries
      operand(e) == [id |-> e.id, version |-> IF e.version = Unversioned THEN None ELSE e.version]
      meant(e) == [id |-> e.id, version |-> e.version]
      direct(e) == /\ ~LooksLikePath(operand(e))
                   /\ e.version # Unversioned \/ VersionSet(entries, e.id) = {}
      alone(e) == \A f \in findEntryByFile(schemaFiles, e.path) : Len(f.exports) = 1
      operands(e) == {o \in {operand(e), [path |-> e.path]} :
                        IF "path" \in DOMAIN o THEN alone(e) ELSE direct(e)}
  IN runList(schemaFiles) = SUCCESS =>
       /\ \A e, f \in ToSet(entries) : \A a \in operands(e), b \in operands(f) :
            LET pair == <<meant(e), meant(f)>> IN
            /\ runDiff(schemaFiles, a, b, {pair}) = LOGICAL_FAILURE
            /\ runDiff(schemaFiles, a, b, (Exports \X Exports) \ {pair}) = SUCCESS
       /\ \A e \in ToSet(entries) :
            ~direct(e) => meant(e) \notin resolveOperand(schemaFiles, entries, operand(e))

\* The paths that the files may have.
Namings ==
  {paths \in [DOMAIN schemaFiles -> DOMAIN SourcePaths] :
     \A i, j \in DOMAIN schemaFiles : i < j => paths[i] < paths[j]}

\* No two schemas of a file read alike, with or without their versions.
ReadApart(schemas) ==
  \A s, t \in {x \in ToSet(schemas) : x.id # None} :
    IF s.id = t.id THEN s = t \/ Words[s.version] # Words[t.version]
    ELSE {Words[s.id], Words[s.id] \o Words[s.version]}
           \cap {Words[t.id], Words[t.id] \o Words[t.version]} = {}

\* No two files of a directory have names of which one begins like the other.
NamedApart(sources) ==
  \A i, j \in DOMAIN sources : i # j /\ sources[i].dir = sources[j].dir =>
    ~IsPrefix(basenameOf(sources[i].name), basenameOf(sources[j].name))

\* The pairs of versions that `migrate stub` takes.
Hops(entries) ==
  {hop \in ToSet(entries) \X ToSet(entries) :
     hop[1].id = hop[2].id /\ Unversioned \notin {hop[1].version, hop[2].version}}

(* What `generate` writes is not overwritten by what it writes next: where *)
(* names read apart, every named schema has its own artifact, and every    *)
(* pair of versions its own path for a migration if the file has one id    *)
(* and no version says "to". And however paths coincide, what `generate`   *)
(* leaves is clean to a `check`, unless an id or a version is the word     *)
(* null: a schema that lost its artifact is not reported                   *)
(* (generate.ts:90-261, check.ts:95-180,                                   *)
(* registry/parse-provenance.ts:179-230, migrations/stub.ts:113-145).      *)
PathsKeptApart ==
  LET registry == Registry
      entries == registry.entries
      fileOf(e) == CHOOSE i \in DOMAIN schemaFiles : schemaFiles[i].name = e.path
      plain(hop) ==
        /\ {e.id : e \in ToSet(schemaFiles[fileOf(hop[1])].exports)} = {hop[1].id}
        /\ \A e \in {hop[1], hop[2]} : "to" \notin ToSet(Words[e.version])
      hops == {hop \in Hops(entries) : plain(hop)}
      readApart == \A i \in DOMAIN schemaFiles : ReadApart(schemaFiles[i].exports)
  IN runList(schemaFiles) = SUCCESS => \A paths \in Namings :
    LET sources == [i \in DOMAIN schemaFiles |-> SourcePaths[paths[i]]]
        disk == runGenerate(schemaFiles, sources)
        migrationPath(hop) ==
          suggestedMigrationPathFor(sources[fileOf(hop[1])], hop[1].version, hop[2].version)
    IN /\ NamedApart(sources) =>
            /\ readApart => \A e \in ToSet(entries) : \E artifact \in disk :
                 <<artifact.ir, artifact.source>> = <<NameOf(e), e.path>>
            /\ \A g, h \in hops :
                 migrationPath(g) = migrationPath(h) =>
                   /\ g[1].path = h[1].path
                   /\ \A k \in 1..2 : Words[g[k].version] = Words[h[k].version]
       /\ \A artifact \in disk :
            "null" \notin ToSet(artifact.ir) => classifyArtifact(artifact, entries) = "clean"
=============================================================================
