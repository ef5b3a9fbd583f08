------------------------- MODULE CompositionProperties -------------------------
(***************************************************************************)
(* What holds of every schema an author can compose, and of every two      *)
(* versions of one: `parse`, `validate` and the JSON Schema artifact say   *)
(* the same, and the severity of a diff says what becomes of old data.     *)
(***************************************************************************)
EXTENDS Composition, NormalizeIssues, FiniteSets, SequencesExt

CONSTANT Values \* the values that are tried: JSON values over Keys

\* The nodes of a tree that are not objects or arrays.
RECURSIVE Leaves(_)
Leaves(node) ==
  CASE node.kind = "array" -> Leaves(node.element)
    [] node.kind = "object" -> UNION {Leaves(node.fields[k]) : k \in DOMAIN node.fields}
    [] OTHER -> {node}

\* Every default passes the node it stands in.
RECURSIVE SoundDefaults(_)
SoundDefaults(node) ==
  /\ node.default # Undefined => Parses(node, node.default)
  /\ node.kind = "array" => SoundDefaults(node.element)
  /\ node.kind = "object" => \A k \in DOMAIN node.fields : SoundDefaults(node.fields[k])

\* No scalar is given the same bound twice: no min(1).min(2), no length(1).min(2).
OneBoundEach(node) ==
  \A leaf \in Leaves(node) : \A i, j \in DOMAIN leaf.refinements :
    i # j => Keywords(leaf.refinements[i]) \cap Keywords(leaf.refinements[j]) = {}

\* after declares a field where before let unknown keys through.
RECURSIVE DeclaresUnknown(_, _)
DeclaresUnknown(before, after) ==
  /\ before.kind = after.kind
  /\ \/ /\ before.kind = "array"
        /\ DeclaresUnknown(before.element, after.element)
     \/ /\ before.kind = "object"
        /\ \/ before.unknownKeys # "strict" /\ ~(DOMAIN after.fields \subseteq DOMAIN before.fields)
           \/ \E k \in DOMAIN before.fields \cap DOMAIN after.fields :
                DeclaresUnknown(before.fields[k], after.fields[k])

\* The node without bounds, with every unknown key let through.
RECURSIVE Lenient(_)
Lenient(node) ==
  LET open == [node EXCEPT !.refinements = <<>>] IN
  CASE node.kind = "array" -> [open EXCEPT !.element = Lenient(@)]
    [] node.kind = "object" ->
         [open EXCEPT !.unknownKeys = "stripUnknown",
                      !.fields = [k \in DOMAIN @ |-> Lenient(@[k])]]
    [] OTHER -> open

\* Every object of the tree has fields. (The type of one without is inhabited
\* by numbers and strings too.)
RECURSIVE HasFields(_)
HasFields(node) ==
  CASE node.kind = "array" -> HasFields(node.element)
    [] node.kind = "object" ->
         DOMAIN node.fields # {} /\ \A k \in DOMAIN node.fields : HasFields(node.fields[k])
    [] OTHER -> TRUE

Scalars == {"string", "number", "boolean", "literal", "enum"}

\* A node of the kinds there are builders for, with what its kind calls for.
RECURSIVE IsNode(_)
IsNode(node) ==
  /\ node.optional \in BOOLEAN /\ node.nullable \in BOOLEAN
  /\ node.default # Undefined => node.optional
  /\ \A i \in DOMAIN node.refinements : node.refinements[i].name \in RefinementsOf(node.kind)
  /\ \/ node.kind \in Scalars
     \/ node.kind = "array" /\ IsNode(node.element)
     \/ /\ node.kind = "object" /\ node.unknownKeys \in Policies
        /\ \A k \in DOMAIN node.fields : k \in Keys /\ IsNode(node.fields[k])

\* field is a node, schema and published are objects without modifiers; a
\* node with a default is optional too, which is how the builders write it.
TypeOK ==
  /\ IsNode(field) /\ calls \in 0..MaxCalls
  /\ \A node \in {schema, published} :
       IsNode(node) /\ node.kind = "object" /\ ~node.optional /\ ~node.nullable

-----------------------------------------------------------------------------
\* validate says whether parse would pass, whatever defaults, nullables and
\* nested objects there are, as long as the defaults themselves pass.
\* (schema/src/runtime/strip-defaults.ts:49-88, runtime/parse.ts:103-123)
ValidateForetellsParse ==
  SoundDefaults(schema) => \A v \in Values : Validates(schema, v) = Parses(schema, v)

\* What parse returns has every field that has a default, in objects within
\* objects and arrays too, and parse returns it unchanged when it is given it
\* again: a record that a migration has passed through a schema passes that
\* schema later. (schema/src/generators/zod-mapping.ts:119-126, 235-252)
RECURSIVE Filled(_, _)
Filled(node, v) ==
  CASE TypeOf(v) # node.kind -> TRUE
    [] node.kind = "array" -> \A i \in DOMAIN Content(v) : Filled(node.element, Content(v)[i])
    [] node.kind = "object" ->
         \A k \in DOMAIN node.fields :
           /\ node.fields[k].default # Undefined => k \in Members(v)
           /\ Filled(node.fields[k], Under(v, k))
    [] OTHER -> TRUE

ParseCompletes ==
  \A v \in Values :
    LET out == Parse(schema, v) IN
    out # Rejected => Filled(schema, out) /\ Parse(schema, out) = out

\* The JSON Schema artifact accepts exactly what validate accepts, absent,
\* null and unknown members included, unless a bound is given twice.
\* (schema/src/generators/schema-fragment.ts:61-298)
JsonSchemaAgrees ==
  OneBoundEach(schema) =>
    \A v \in Values : JsonAccepts(schema, v) = Validates(schema, v)

\* What parse accepts and returns is of the types the TypeScript artifact
\* exports; what is of the input type is refused for a bound or an unknown key
\* and for nothing else, unless an object has no fields; and only a field that
\* parse may leave out has a question mark in the output type.
\* (schema/src/generators/ts.ts:85-239)
TypesAgree ==
  /\ \A v \in Values :
       /\ Validates(schema, v) => Inhabits(schema, "input", v)
       /\ Parses(schema, v) => Inhabits(schema, "output", Parse(schema, v))
  /\ HasFields(schema) =>
       \A v \in Values : Inhabits(schema, "input", v) => Validates(Lenient(schema), v)
  /\ \A k \in DOMAIN schema.fields :
       MayLack(schema.fields[k], "output") => Parse(schema.fields[k], Undefined) = Undefined

\* What the severity of a diff says of data holds. If no change between two
\* versions is breaking, what the old one accepted the new one accepts: the
\* planner may leave the records alone. If all are cosmetic, or there are none,
\* both accept the same. Not so where a field is declared under a key that was
\* let through before, or a bound is given twice.
\* (schema/src/registry/diff.ts:67-604; handlers/diff.ts:53-72)
SeverityIsRight ==
  LET worst == worstSeverity(diffNodes(published, schema)) IN
  OneBoundEach(published) /\ OneBoundEach(schema) =>
    /\ worst # "breaking" /\ ~DeclaresUnknown(published, schema) =>
         \A v \in Values : Validates(published, v) => Validates(schema, v)
    /\ worst \in {"none", "cosmetic"} =>
         \A v \in Values : Validates(published, v) = Validates(schema, v)

\* The parts of v that `node` has a say about, with their nodes; what a default
\* fills in is one of them.
RECURSIVE Parts(_, _, _)
Parts(node, v, path) ==
  {[path |-> path, node |-> node, value |-> v]} \cup
  CASE v = Undefined /\ node.default # Undefined -> Parts(node, node.default, path)
    [] TypeOf(v) # node.kind -> {}
    [] node.kind = "array" ->
         UNION {Parts(node.element, Content(v)[i], Append(path, i)) : i \in DOMAIN Content(v)}
    [] node.kind = "object" ->
         UNION {Parts(node.fields[k], Under(v, k), Append(path, k)) : k \in DOMAIN node.fields}
    [] OTHER -> {}

\* The issues say what is wrong, all of it and where: a part of a value is
\* refused exactly if an issue lies at it or below, missing_required where
\* nothing is, unknown_key once for each key that a strict object does not
\* know, and validate reports what parse would. What an absent literal, and an
\* absent enum that is compiled to literals, are called is left open.
\* (schema/src/runtime/normalize-issues.ts:65-234, parse.ts:68-123)
IssuesNameTheFault ==
  \A v \in Values :
    LET issues == ParseIssues(schema, v)
        parts == Parts(schema, v, <<>>)
        namedBy(code) == {issue.path : issue \in {i \in issues : i.code = code}}
        absent == {part \in parts : part.value = Undefined /\ ~part.node.optional}
        strict == {part \in parts : TypeOf(part.value) = "object" /\ part.node.kind = "object"
                                     /\ part.node.unknownKeys = "strict"}
    IN /\ \A part \in parts :
            ~Parses(part.node, part.value) <=> \E issue \in issues : IsPrefix(part.path, issue.path)
       /\ namedBy("missing_required") \subseteq {part.path : part \in absent}
       /\ \A part \in absent :
            part.node.kind \notin {"literal", "enum"} => part.path \in namedBy("missing_required")
       /\ namedBy("unknown_key") =
            UNION {{Append(part.path, k) : k \in Members(part.value) \ DOMAIN part.node.fields} :
                     part \in strict}
       /\ SoundDefaults(schema) => ValidateIssues(schema, v) = issues

\* A partial schema is one for updates: it accepts what the whole one did, and
\* parsing an update adds nothing under the keys that were made optional.
\* (schema/src/builders/object.ts:139-163, 352-364)
PartialIsForUpdates ==
  [][\A mask \in Masks : partial(mask) =>
       \A v \in Values :
         LET out == Parse(schema', v) IN
         /\ Validates(schema, v) => Validates(schema', v)
         /\ out # Rejected => Members(out) \cap mask \subseteq Members(v)]_vars

\* A merge that is not told how to resolve conflicts accepts a record exactly
\* if each operand accepts the part of it under its own keys, and keys of
\* neither are there only if both let unknown ones through.
\* (schema/src/builders/object.ts:210-256)
MergeIsBoth ==
  [][merge(published, "throw", "throw") =>
       \A v \in Values : TypeOf(v) = "object" =>
         LET Part(node) == Object([k \in Members(v) \cap DOMAIN node.fields |-> Content(v)[k]])
             rest == Members(v) \ (DOMAIN schema.fields \cup DOMAIN published.fields)
         IN Validates(schema', v) <=>
              /\ Validates(schema, Part(schema)) /\ Validates(published, Part(published))
              /\ rest # {} => "strict" \notin {schema.unknownKeys, published.unknownKeys}]_vars

-----------------------------------------------------------------------------
(* What the documentation says.                                            *)

\* "additive: The new schema's accepted set is a strict superset of the old
\* one's": if the worst change is additive, the old data passes.
\* (schema/docs/DIFF_CLASSIFICATION.md:24)
DocAdditiveIsSuperset ==
  worstSeverity(diffNodes(published, schema)) = "additive" =>
    \A v \in Values : Validates(published, v) => Validates(schema, v)
=============================================================================
