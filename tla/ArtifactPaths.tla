------------------------------ MODULE ArtifactPaths ------------------------------
(***************************************************************************)
(* Where `generate` and `migrate stub` put their files, for any number of  *)
(* schemas in a file, and what `check` makes of what is there after.       *)
(*                                                                         *)
(* A slug is the words of a text in lower case, joined by a hyphen (no     *)
(* words: the empty word); a file name is its parts between the dots, each *)
(* written like a slug. The four artifacts of a schema have one path but   *)
(* for four endings, none of which can be taken for another, so that a     *)
(* stem stands for the four.                                               *)
(***************************************************************************)
EXTENDS Registries

CONSTANTS
  Words,       \* the words of an id or a version, <<"">> if it has none
  SourcePaths  \* directory and name of schema files, in the order of their paths

ASSUME ArtifactPathsConstants ==
  /\ \A x \in Ids \cup Versions : Words[x] \in Seq(ToSet(Words[x])) /\ Words[x] # <<>>
  /\ \A source \in ToSet(SourcePaths) : source.name \in Seq(ToSet(source.name))

\* What conventional names end in, or the last extension, is taken off.
SchemaEndings == {<< <<"schema">>, <<extension>> >> : extension \in {"ts", "js", "mts", "cts"}}
basenameOf(name) ==
  IF Len(name) > 2 /\ SubSeq(name, Len(name) - 1, Len(name)) \in SchemaEndings
  THEN SubSeq(name, 1, Len(name) - 2)
  ELSE IF Len(name) > 1 THEN Front(name) ELSE name

\* The schemas that get an artifact.
NamedOf(schemas) ==
  LET named[n \in 0 .. Len(schemas)] ==
        IF n = 0 THEN <<>>
        ELSE IF schemas[n].id # None THEN Append(named[n - 1], schemas[n]) ELSE named[n - 1]
  IN named[Len(schemas)]

MDiscriminator(schemas, schema) ==
  IF Len(NamedOf(schemas)) <= 1 THEN <<>> ELSE <<Words[schema.id]>>

\* What is put into the path of a schema that shares its file: its id, and its
\* version where the id comes more than once.
Discriminator(schemas, schema) ==
  IF Len(NamedOf(schemas)) <= 1 THEN <<>>
  ELSE IF Len(OfId(schemas, schema.id)) > 1 /\ schema.version # Unversioned
  THEN <<Words[schema.id] \o Words[schema.version]>>
  ELSE <<Words[schema.id]>>

suggestedPathFor(source, discriminator) ==
  [dir |-> source.dir, stem |-> basenameOf(source.name) \o discriminator]

suggestedMigrationPathFor(source, from, to) ==
  [dir  |-> source.dir,
   stem |-> basenameOf(source.name) \o <<Words[from] \o <<"to">> \o Words[to]>>]

\* A header has the word null for what a schema lacks, in a comment and in a
\* member of a document alike; a text that is this word is read as nothing.
buildHeader(id, version) ==
  [schemaId |-> id, schemaVersion |-> IF version = Unversioned THEN "null" ELSE version]

ArtifactOf(file, source, schema) ==
  [header |-> buildHeader(schema.id, schema.version),
   ir |-> <<schema.id, schema.version>>, source |-> file.name,
   path |-> suggestedPathFor(source, Discriminator(file.exports, schema))]

ArtifactsOf(file, source) ==
  LET named == NamedOf(sortSchemas(file.exports))
  IN [i \in DOMAIN named |-> ArtifactOf(file, source, named[i])]

generateHandler(files, sources) ==
  FlattenSeq([i \in DOMAIN files |-> ArtifactsOf(files[i], sources[i])])

\* What is under generated/ afterwards: of two artifacts with one path, the
\* one that was written last.
runGenerate(files, sources) ==
  LET artifacts == generateHandler(files, sources)
  IN IF runList(files) # SUCCESS THEN {}
     ELSE {artifacts[i] : i \in {i \in DOMAIN artifacts : \A j \in DOMAIN artifacts :
                                 j > i => artifacts[j].path # artifacts[i].path}}

parseProvenance(header) ==
  [schemaId |-> IF header.schemaId = "null" THEN None ELSE header.schemaId,
   schemaVersion |-> IF header.schemaVersion = "null" THEN Unversioned ELSE header.schemaVersion]

\* The source hash stands for the file, the IR hash for id and version.
classifyArtifact(artifact, entries) ==
  LET parsed == parseProvenance(artifact.header)
      found == findSchema(entries, parsed.schemaId, parsed.schemaVersion)
      irMatch == \E e \in found : <<e.id, e.version>> = artifact.ir
      sourceMatch == \E e \in found : e.path = artifact.source
  IN CASE found = {} -> "not_found"
       [] found # {} /\ irMatch /\ sourceMatch -> "clean"
       [] found # {} /\ irMatch /\ ~sourceMatch -> "cosmetic_drift"
       [] found # {} /\ ~irMatch /\ ~sourceMatch -> "stale"
       [] OTHER -> "integrity_error"
=============================================================================
