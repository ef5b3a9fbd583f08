------------------------------- MODULE SchemaNode -------------------------------
(***************************************************************************)
(* The IR of packages/schema and what is made of a node: the compiled Zod  *)
(* schema that `parse` runs, the one that `validate` runs, the JSON Schema *)
(* artifact and the TypeScript artifact. They are described by what they   *)
(* accept and return.                                                      *)
(*                                                                         *)
(* A value is a pair of its type and its content; of a string only the     *)
(* length counts. Undefined is what an object has under a key it lacks.    *)
(* Values are otherwise those of JSON. Metadata, format refinements        *)
(* (regex, email, int, ...), runtime refinements and the kinds that no     *)
(* builder makes are left out.                                             *)
(***************************************************************************)
EXTENDS Integers, Sequences, Functions, TLC

Undefined == <<"undefined">>
Null == <<"null">>
Rejected == <<"rejected">>

TypeOf(v) == v[1]
Content(v) == v[2]
Members(v) == IF TypeOf(v) = "object" THEN DOMAIN Content(v) ELSE {}
Under(v, key) == IF key \in Members(v) THEN Content(v)[key] ELSE Undefined
Object(f) == <<"object", f>>

-----------------------------------------------------------------------------
(* Nodes, and the builders that make them.                                 *)

\* A node without modifiers and refinements. default = Undefined: it has none.
Bare(kind) ==
  [kind |-> kind, refinements |-> <<>>, optional |-> FALSE, nullable |-> FALSE,
   default |-> Undefined]

literal(value) == [value |-> value] @@ Bare("literal")
enum(values) == [values |-> values] @@ Bare("enum")
array(element) == [element |-> element] @@ Bare("array")
object(fields, policy) == [fields |-> fields, unknownKeys |-> policy] @@ Bare("object")

optional(node) == [node EXCEPT !.optional = TRUE]
nullable(node) == [node EXCEPT !.nullable = TRUE]

default(node, value) == [node EXCEPT !.optional = TRUE, !.default = value]
withRefinement(node, refinement) == [node EXCEPT !.refinements = Append(@, refinement)]

Lower == {"min", "minLength", "minItems", "gt"}
Upper == {"max", "maxLength", "maxItems", "lt"}
RefinementsOf(kind) ==
  CASE kind = "number" -> {"min", "max", "gt", "lt", "multipleOf"}
    [] kind = "string" -> {"minLength", "maxLength", "length"}
    [] kind = "array" -> {"minItems", "maxItems"}
    [] OTHER -> {}

-----------------------------------------------------------------------------
(* parse: the compiled Zod schema.                                         *)

Measure(v) == IF TypeOf(v) = "array" THEN Len(Content(v)) ELSE Content(v)

Satisfies(r, v) ==
  LET m == Measure(v) IN
  CASE r.name \in {"min", "minLength", "minItems"} -> m >= r.value
    [] r.name \in {"max", "maxLength", "maxItems"} -> m <= r.value
    [] r.name = "gt" -> m > r.value
    [] r.name = "lt" -> m < r.value
    [] r.name = "length" -> m = r.value
    [] r.name = "multipleOf" -> m % r.value = 0

\* No later refinement has the same name.
IsLast(refinements, i) ==
  \A j \in DOMAIN refinements : j > i => refinements[j].name # refinements[i].name

\* z.string() and z.number() check every bound they were given, z.array() the
\* last lower and the last upper one.
ZodRefined(node, v) ==
  \A i \in DOMAIN node.refinements :
    (node.kind = "array" => IsLast(node.refinements, i)) => Satisfies(node.refinements[i], v)

\* A scalar node's verdict on a value that is neither absent nor null-permitted.
ScalarAccepts(node, v) ==
  CASE node.kind = "literal" -> v = node.value
    [] node.kind = "enum" -> v \in Range(node.values)
    [] OTHER -> TypeOf(v) = node.kind /\ ZodRefined(node, v)

\* What an absence is filled with: the default is the outermost layer.
\* Faulty: a nullable node is made nullish, outside of its default.
MFilling(node) == IF node.nullable THEN Undefined ELSE node.default

Filling(node) == node.default

\* What `parse` returns of v, or Rejected. What is filled in goes through the
\* other layers.
RECURSIVE Parse(_, _)
Parse(node, v) ==
  CASE v = Undefined ->
         IF Filling(node) # Undefined THEN Parse(node, Filling(node))
         ELSE IF node.optional THEN Undefined ELSE Rejected
    [] v = Null /\ node.nullable -> Null
    [] node.kind \notin {"array", "object"} -> IF ScalarAccepts(node, v) THEN v ELSE Rejected
    [] TypeOf(v) # node.kind -> Rejected
    [] node.kind = "array" ->
         LET out == [i \in DOMAIN Content(v) |-> Parse(node.element, Content(v)[i])]
         IN IF Rejected \in Range(out) \/ ~ZodRefined(node, v) THEN Rejected ELSE <<"array", out>>
    [] node.kind = "object" ->
         LET known == [k \in DOMAIN node.fields |-> Parse(node.fields[k], Under(v, k))]
             unknown == Members(v) \ DOMAIN node.fields
             kept == {k \in DOMAIN known : known[k] # Undefined}
                     \cup (IF node.unknownKeys = "passthrough" THEN unknown ELSE {})
         IN IF Rejected \in Range(known) \/ (node.unknownKeys = "strict" /\ unknown # {})
            THEN Rejected
            ELSE Object([k \in kept |-> IF k \in unknown THEN Content(v)[k] ELSE known[k]])

-----------------------------------------------------------------------------
(* validate: the same of a variant of the node.                            *)

\* Faulty: a field with a default is required once the default is dropped.
MstripOwnDefault(node) ==
  IF node.default = Undefined THEN node
  ELSE [node EXCEPT !.default = Undefined, !.optional = FALSE]

stripOwnDefault(node) ==
  IF node.default = Undefined THEN node
  ELSE [node EXCEPT !.default = Undefined, !.optional = TRUE]

RECURSIVE stripDefaultsForValidate(_)
stripDefaultsForValidate(node) ==
  stripOwnDefault(
    CASE node.kind = "array" -> [node EXCEPT !.element = stripDefaultsForValidate(@)]
      [] node.kind = "object" ->
           [node EXCEPT !.fields = [k \in DOMAIN @ |-> stripDefaultsForValidate(@[k])]]
      [] OTHER -> node)

Validate(node, v) == Parse(stripDefaultsForValidate(node), v)

Parses(node, v) == Parse(node, v) # Rejected
Validates(node, v) == Validate(node, v) # Rejected

-----------------------------------------------------------------------------
(* The JSON Schema artifact, and what a validator of draft 2020-12 accepts. *)

\* Faulty: only optional is looked at, and default is set without it.
MisObjectRequired(node) == ~node.optional \/ node.default # Undefined

isObjectRequired(node) == ~node.optional /\ node.default = Undefined

\* The keywords a refinement writes into the fragment; a later one overwrites.
Keywords(r) == IF r.name = "length" THEN {"minLength", "maxLength"} ELSE {r.name}

Keyword(refinements, keyword) ==
  LET writers == {i \in DOMAIN refinements : keyword \in Keywords(refinements[i])}
      last == CHOOSE i \in writers : \A j \in writers : j <= i
  IN [name |-> keyword, value |-> refinements[last].value]

JsonRefined(node, v) ==
  \A i \in DOMAIN node.refinements : \A keyword \in Keywords(node.refinements[i]) :
    Satisfies(Keyword(node.refinements, keyword), v)

\* v is valid under the fragment that emitSchemaFragment makes of node.
RECURSIVE JsonAccepts(_, _)
JsonAccepts(node, v) ==
  CASE v = Null /\ node.nullable -> TRUE
    [] node.kind = "literal" -> v = node.value
    [] node.kind = "enum" -> v \in Range(node.values)
    [] TypeOf(v) # node.kind -> FALSE
    [] node.kind = "array" ->
         JsonRefined(node, v) /\ \A i \in DOMAIN Content(v) : JsonAccepts(node.element, Content(v)[i])
    [] node.kind = "object" ->
         /\ \A k \in DOMAIN node.fields :
              IF k \in Members(v) THEN JsonAccepts(node.fields[k], Content(v)[k])
              ELSE ~isObjectRequired(node.fields[k])
         /\ node.unknownKeys = "strict" => Members(v) \subseteq DOMAIN node.fields
    [] OTHER -> JsonRefined(node, v)

-----------------------------------------------------------------------------
(* The TypeScript artifact: the type of what goes into parse, mode "input", *)
(* and of what comes out, mode "output".                                   *)

\* Faulty: a default leaves a field optional in both types.
MMayLack(node, mode) == node.optional

\* Undefined is of the type, or the key of the field has a question mark.
MayLack(node, mode) == node.optional /\ (node.default # Undefined => mode = "input")

\* v is of the type that is emitted of node. An object may have more keys; one
\* without fields is emitted as `{}`, the type of all there is but null.
RECURSIVE Inhabits(_, _, _)
Inhabits(node, mode, v) ==
  CASE v = Undefined -> MayLack(node, mode)
    [] v = Null /\ node.nullable -> TRUE
    [] node.kind = "literal" -> v = node.value
    [] node.kind = "enum" -> v \in Range(node.values)
    [] node.kind = "object" /\ DOMAIN node.fields = {} -> v # Null
    [] TypeOf(v) # node.kind -> FALSE
    [] node.kind = "array" -> \A i \in DOMAIN Content(v) : Inhabits(node.element, mode, Content(v)[i])
    [] node.kind = "object" -> \A k \in DOMAIN node.fields : Inhabits(node.fields[k], mode, Under(v, k))
    [] OTHER -> TRUE
=============================================================================
