------------------------------- MODULE Registries -------------------------------
(***************************************************************************)
(* The two registries every command of the CLI builds from the files it    *)
(* has found: buildRegistry for schemas, buildMigrationRegistry for        *)
(* migrations; findSchema and listHandler, which read them; and the        *)
(* commands that do little else: list, diff (up to the comparison),        *)
(* migrate list and migrate plan (up to the planner).                      *)
(*                                                                         *)
(* Files come in the order of their paths. A registry is the sequence of   *)
(* its entries in the order in which they were put into its maps, which is *)
(* the order in which a Map is iterated over.                              *)
(***************************************************************************)
EXTENDS Integers, SequencesExt

CONSTANTS
  IdOrder,     \* the schema ids in alphabetical order
  Versions,    \* version strings; Unversioned is one of them
  Triple,      \* the numbers major.minor.patch found in a version, or <<>>
  Collation,   \* the place of a version string in the order of localeCompare
  TextPlace,   \* the place of an id or a version in the order of code units
  HasSlash, EndsLikeFile, \* the ids and versions that have a slash, that end in .ts or its like
  Headers,     \* the headers a migration may have
  MaxEntries,  \* bound: schemas and migrations in all files
  None         \* an id or a version that is not given

Unversioned == ""
Ids == ToSet(IdOrder)

ASSUME RegistriesConstants ==
  /\ IdOrder \in Seq(Ids) /\ \A i, j \in DOMAIN IdOrder : IdOrder[i] = IdOrder[j] => i = j
  /\ Unversioned \in Versions /\ None \notin Ids \cup Versions
  /\ Triple \in [Versions -> (Int \X Int \X Int) \cup {<<>>}]
  /\ Collation \in [Versions -> Int]

SUCCESS == 0
LOGICAL_FAILURE == 1
IO_ERROR == 3
INTEGRITY_ERROR == 4

-----------------------------------------------------------------------------
(* Schemas.                                                                *)

\* A schema without an id is left out, a second one of a name is an issue and
\* the first one stays.
MIndexSchema(done, entry) ==
  IF entry.id = None THEN done
  ELSE [done EXCEPT !.entries = Append(SelectSeq(@, LAMBDA e :
          <<e.id, e.version>> # <<entry.id, entry.version>>), entry)]
IndexSchema(done, entry) ==
  IF entry.id = None THEN done
  ELSE IF \E e \in ToSet(done.entries) : e.id = entry.id /\ e.version = entry.version
  THEN [done EXCEPT !.issues = Append(@, "duplicate_schema_id")]
  ELSE [done EXCEPT !.entries = Append(@, entry)]

OfId(schemas, id) ==
  LET kept[n \in 0 .. Len(schemas)] ==
        IF n = 0 THEN <<>>
        ELSE IF schemas[n].id = id THEN Append(kept[n - 1], schemas[n]) ELSE kept[n - 1]
  IN kept[Len(schemas)]

\* The loader hands on the schemas of a file by id, those without one last.
sortSchemas(schemas) ==
  FlattenSeq([i \in DOMAIN IdOrder |-> OfId(schemas, IdOrder[i])]) \o OfId(schemas, None)

EntriesOf(file) ==
  LET schemas == sortSchemas(file.exports)
  IN [i \in DOMAIN schemas |->
       [id |-> schemas[i].id, version |-> schemas[i].version, path |-> file.name]]

buildRegistry(files) ==
  FoldLeft(IndexSchema, [entries |-> <<>>, issues |-> <<>>],
           FlattenSeq([i \in DOMAIN files |-> EntriesOf(files[i])]))

\* Whether a comes before b: by number where both have numbers and they
\* differ, by the text otherwise.
MBefore(a, b) == Collation[a] < Collation[b]
Before(a, b) ==
  LET differ == {i \in 1..3 : Triple[a] # <<>> /\ Triple[b] # <<>> /\ Triple[a][i] # Triple[b][i]}
  IN IF differ = {} THEN Collation[a] < Collation[b]
     ELSE \E i \in differ : (\A j \in differ : i <= j) /\ Triple[a][i] < Triple[b][i]

\* Array.prototype.sort by insertion, which is what the engine does with few
\* elements. For a comparison that is not an order the result is the engine's.
Insert(sorted, v) ==
  LET after == {i \in DOMAIN sorted : ~Before(v, sorted[i])}
  IN InsertAt(sorted, 1 + (CHOOSE n \in after \cup {0} : \A i \in after : i <= n), v)
Sorted(versions) == FoldLeft(Insert, <<>>, versions)

VersionsOf(entries, id) ==
  LET keys[n \in 0 .. Len(entries)] ==
        IF n = 0 THEN <<>>
        ELSE IF entries[n].id = id /\ entries[n].version # Unversioned
        THEN Append(keys[n - 1], entries[n].version) ELSE keys[n - 1]
  IN keys[Len(entries)]

Exactly(entries, id, version) == {e \in ToSet(entries) : e.id = id /\ e.version = version}

\* The entry found, as a set of one or none; the version None is one that is
\* not given.
findSchema(entries, id, version) ==
  LET versions == VersionsOf(entries, id)
  IN IF version # None THEN Exactly(entries, id, version)
     ELSE IF versions # <<>> THEN Exactly(entries, id, Last(Sorted(versions)))
     ELSE Exactly(entries, id, Unversioned)

\* The versions of an id with the unversioned one behind them.
ListOf(entries, id) ==
  LET versions == Sorted(VersionsOf(entries, id))
  IN [i \in DOMAIN versions |-> CHOOSE e \in Exactly(entries, id, versions[i]) : TRUE]
     \o SetToSeq(Exactly(entries, id, Unversioned))

listHandler(entries) == FlattenSeq([i \in DOMAIN IdOrder |-> ListOf(entries, IdOrder[i])])

-----------------------------------------------------------------------------
(* Migrations: the header of a file is the fields that were found in it.   *)

HashFields == {"fromIrHash", "toIrHash", "fromSourceHash", "toSourceHash"}
RequiredFields == {"generator", "generatorVersion", "schemaId", "fromVersion", "toVersion"}
                  \cup HashFields

parseMigrationProvenance(header) ==
  CASE ~header.opens -> "unknown_format"
    [] RequiredFields \ DOMAIN header.fields # {} -> "missing_field"
    [] \E h \in HashFields : header.fields[h] = "malformed" -> "malformed_hash"
    [] OTHER -> "ok"

\* The three keys of the lookup; the module's own schemaId, from and to are
\* not looked at.
KeyOf(header) == <<header.fields["schemaId"], header.fields["fromVersion"],
                   header.fields["toVersion"]>>

Issue(code, names) == [code |-> code, names |-> names]

MIndexMigration(done, file) ==
  IF done.issues # <<>> THEN done
  ELSE IF parseMigrationProvenance(file.header) # "ok"
  THEN [done EXCEPT !.issues = Append(@, Issue("integrity_error", {file.name}))]
  ELSE [done EXCEPT !.entries = Append(@, [key |-> KeyOf(file.header), path |-> file.name])]
IndexMigration(done, file) ==
  IF parseMigrationProvenance(file.header) # "ok"
  THEN [done EXCEPT !.issues = Append(@, Issue("integrity_error", {file.name}))]
  ELSE LET existing == {e \in ToSet(done.entries) : e.key = KeyOf(file.header)}
       IN IF existing # {}
          THEN [done EXCEPT !.issues = Append(@,
                  Issue("duplicate_migration", {e.path : e \in existing} \cup {file.name}))]
          ELSE [done EXCEPT !.entries = Append(@, [key |-> KeyOf(file.header), path |-> file.name])]

buildMigrationRegistry(files) ==
  FoldLeft(IndexMigration, [entries |-> <<>>, issues |-> <<>>], files)

\* By id, then by the two versions; the verifier visits them in this order too.
ByKey(entries) ==
  SetToSortSeq(entries, LAMBDA d, e : \E i \in 1..3 :
    /\ TextPlace[d.key[i]] < TextPlace[e.key[i]]
    /\ \A j \in 1..(i-1) : d.key[j] = e.key[j])
listMigrationsHandler(entries) == ByKey(ToSet(entries))

pickRegistryFailureExitCode(issues) ==
  IF \E issue \in ToSet(issues) : issue.code = "integrity_error" THEN INTEGRITY_ERROR
  ELSE LOGICAL_FAILURE

-----------------------------------------------------------------------------
(* The operands of diff: id, id@version, or the path of a file.            *)

\* parseOperand: what has a slash in it or ends like a file is a path, and
\* "id@" is an id with an @ in it, which nothing has.
LooksLikePath(operand) ==
  \/ operand.id \in HasSlash \/ operand.version \in HasSlash
  \/ operand.version \in EndsLikeFile
  \/ operand.version = None /\ operand.id \in EndsLikeFile

\* A file is an operand if it exports one schema, with a name or without.
findEntryByFile(files, name) == {file \in ToSet(files) : file.name = name}
ResolveFile(files, name) ==
  {file.exports[1] : file \in {f \in findEntryByFile(files, name) : Len(f.exports) = 1}}

MResolveId(entries, operand) == findSchema(entries, operand.id, None)
ResolveId(entries, operand) ==
  IF LooksLikePath(operand) \/ operand.version = Unversioned THEN {}
  ELSE findSchema(entries, operand.id, operand.version)

\* What the operand stands for, as a set of one or none.
resolveOperand(files, entries, operand) ==
  IF "path" \in DOMAIN operand THEN ResolveFile(files, operand.path)
  ELSE {[id |-> e.id, version |-> e.version] : e \in ResolveId(entries, operand)}

-----------------------------------------------------------------------------
(* The commands, up to the exit codes.                                     *)

AllLoad(files) == \A file \in ToSet(files) : file.loads

runList(files) ==
  IF ~AllLoad(files) THEN IO_ERROR
  ELSE IF buildRegistry(files).issues # <<>> THEN LOGICAL_FAILURE ELSE SUCCESS

\* breaking: the pairs of schemas whose worst change is breaking.
runDiff(files, a, b, breaking) ==
  LET registry == buildRegistry(files)
  IN IF ~AllLoad(files) THEN IO_ERROR
     ELSE IF registry.issues # <<>> THEN LOGICAL_FAILURE
     ELSE IF \E s \in resolveOperand(files, registry.entries, a),
               t \in resolveOperand(files, registry.entries, b) : <<s, t>> \notin breaking
     THEN SUCCESS ELSE LOGICAL_FAILURE

runMigrateList(files) ==
  LET issues == buildMigrationRegistry(files).issues
  IN IF ~AllLoad(files) THEN IO_ERROR
     ELSE IF issues # <<>> THEN pickRegistryFailureExitCode(issues) ELSE SUCCESS

\* The first of the four steps before the planner that fails has the say.
runMigratePlan(schemas, migrations) ==
  IF runList(schemas) # SUCCESS THEN runList(schemas) ELSE runMigrateList(migrations)

-----------------------------------------------------------------------------
(* The author: a file comes at any place in the order, gets one more       *)
(* export, is broken or mended.                                            *)

VARIABLES schemaFiles, migrationFiles

vars == <<schemaFiles, migrationFiles>>

Init == schemaFiles = <<>> /\ migrationFiles = <<>>

Room ==
  Len(FlattenSeq([i \in DOMAIN schemaFiles |-> schemaFiles[i].exports])) + Len(migrationFiles)
    < MaxEntries
\* The version of a schema without an id is looked at by nothing.
Exports == [id : Ids, version : Versions] \cup {[id |-> None, version |-> Unversioned]}
Places(files) == 1 .. Len(files) + 1

AddSchemaFile ==
  /\ Room
  /\ \E place \in Places(schemaFiles), schema \in Exports :
       schemaFiles' = InsertAt(schemaFiles, place,
         [name |-> Len(schemaFiles), loads |-> TRUE, exports |-> <<schema>>])
  /\ UNCHANGED migrationFiles

AddExport ==
  /\ Room
  /\ \E i \in DOMAIN schemaFiles, schema \in Exports :
       schemaFiles' = [schemaFiles EXCEPT ![i].exports = Append(@, schema)]
  /\ UNCHANGED migrationFiles

AddMigrationFile ==
  /\ Room
  /\ \E place \in Places(migrationFiles), header \in Headers :
       migrationFiles' = InsertAt(migrationFiles, place,
         [name |-> Len(migrationFiles), loads |-> TRUE, header |-> header])
  /\ UNCHANGED schemaFiles

\* A mistake in a file, or its correction.
EditSchemaFile ==
  /\ \E i \in DOMAIN schemaFiles : schemaFiles' = [schemaFiles EXCEPT ![i].loads = ~@]
  /\ UNCHANGED migrationFiles

EditMigrationFile ==
  /\ \E i \in DOMAIN migrationFiles : migrationFiles' = [migrationFiles EXCEPT ![i].loads = ~@]
  /\ UNCHANGED schemaFiles

Next == AddSchemaFile \/ AddExport \/ AddMigrationFile \/ EditSchemaFile \/ EditMigrationFile

Spec == Init /\ [][Next]_vars
=============================================================================
