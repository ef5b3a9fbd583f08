------------------------------ MODULE Composition ------------------------------
(***************************************************************************)
(* An author at work on an object schema with the builders of              *)
(* packages/schema: a field is made by a chain of methods and put into the *)
(* object, the object is composed, and now and then a version of it is     *)
(* published. An action is one call of a builder's method; a call that the *)
(* builder refuses by throwing leaves everything as it was, and is no      *)
(* step. Every method returns a new schema: the variables name the one the *)
(* author goes on with.                                                    *)
(***************************************************************************)
EXTENDS SchemaDiff

CONSTANTS
  Keys,        \* field names
  Bases,       \* the nodes a chain of methods begins with
  Refinements, \* the refinements methods are called for, a name and a value each
  Defaults,    \* the values default() is called with
  FirstFields, \* the maps of fields of the objects the author begins with
  MaxCalls     \* bound: how many methods are called

Policies == {"strict", "stripUnknown", "passthrough"}

VARIABLES
  field,      \* the field in the making
  schema,     \* the object in the making
  published,  \* the version that was published last
  calls

vars == <<field, schema, published, calls>>

Fields == schema.fields
Masks == (SUBSET DOMAIN Fields) \ {{}}

Init ==
  /\ field \in Bases
  /\ \E fields \in FirstFields : schema = object(fields, "strict")
  /\ published = schema
  /\ calls = 0

Call == calls < MaxCalls /\ calls' = calls + 1
Makes(node) == Call /\ field' = node /\ UNCHANGED <<schema, published>>
Composes(node) == Call /\ schema' = node /\ UNCHANGED <<field, published>>

-----------------------------------------------------------------------------
(* Methods of every schema, on the field.                                  *)

BeginField == \E base \in Bases : field # base /\ Makes(base)

MakeOptional == ~field.optional /\ Makes(optional(field))
MakeNullable == ~field.nullable /\ Makes(nullable(field))
MakeDefault == \E value \in Defaults : field.default # value /\ Makes(default(field, value))

\* A schema with a modifier has the type of the base class, without bounds.
Refine ==
  /\ ~field.optional /\ ~field.nullable
  /\ \E r \in Refinements : r.name \in RefinementsOf(field.kind) /\ Makes(withRefinement(field, r))

\* s.array(field) and s.object({key: field}), strict like every new object.
MakeArray == field.kind # "array" /\ Makes(array(field))
MakeObject == \E key \in Keys :
                field.kind # "object" /\ Makes(object([k \in {key} |-> field], "strict"))

-----------------------------------------------------------------------------
(* Methods of ObjectSchema, on the schema.                                 *)

\* A composed object has the fields and the policy it is given, nothing else.
composedObject(fields, policy) == object(fields, policy)

withUnknownKeys == \E policy \in Policies :
  schema.unknownKeys # policy /\ Composes([schema EXCEPT !.unknownKeys = policy])

\* Throws if the key is there already.
extend == \E key \in Keys \ DOMAIN Fields :
  Composes(composedObject((key :> field) @@ Fields, schema.unknownKeys))

\* Throws if the key is not there.
override == \E key \in DOMAIN Fields :
  Fields[key] # field /\ Composes(composedObject([Fields EXCEPT ![key] = field], schema.unknownKeys))

\* Throw if the mask names a key that is not there.
pick(mask) == Composes(composedObject([k \in mask |-> Fields[k]], schema.unknownKeys))
omit(mask) == Composes(composedObject([k \in DOMAIN Fields \ mask |-> Fields[k]], schema.unknownKeys))

\* Faulty: the default stays.
MmakePartial(node) == [node EXCEPT !.optional = TRUE]

makePartial(node) == [node EXCEPT !.optional = TRUE, !.default = Undefined]
makeRequired(node) == [node EXCEPT !.optional = FALSE, !.default = Undefined]

partial(mask) ==
  Composes(composedObject([k \in DOMAIN Fields |-> IF k \in mask THEN makePartial(Fields[k]) ELSE Fields[k]],
                          schema.unknownKeys))
required(mask) ==
  Composes(composedObject([k \in DOMAIN Fields |-> IF k \in mask THEN makeRequired(Fields[k]) ELSE Fields[k]],
                          schema.unknownKeys))

\* The two ways to resolve a conflict, "left" and "right"; "throw" refuses it.
Resolved(how, left, right) == IF how = "right" THEN right ELSE left

\* Faulty: where the operands share a key, the left one is kept without a word.
MMergeable(other, conflict, unknownKeys) ==
  schema.unknownKeys # other.unknownKeys => unknownKeys # "throw"

Mergeable(other, conflict, unknownKeys) ==
  /\ DOMAIN Fields \cap DOMAIN other.fields # {} => conflict # "throw"
  /\ schema.unknownKeys # other.unknownKeys => unknownKeys # "throw"

merge(other, conflict, unknownKeys) ==
  /\ Mergeable(other, conflict, unknownKeys)
  /\ Composes(composedObject(
       [k \in DOMAIN Fields \cup DOMAIN other.fields |->
          IF k \notin DOMAIN other.fields THEN Fields[k]
          ELSE IF k \notin DOMAIN Fields THEN other.fields[k]
          ELSE Resolved(conflict, Fields[k], other.fields[k])],
       Resolved(unknownKeys, schema.unknownKeys, other.unknownKeys)))

Compose ==
  \/ withUnknownKeys \/ extend \/ override
  \/ \E mask \in Masks : pick(mask) \/ omit(mask) \/ partial(mask) \/ required(mask)
  \/ \E conflict, unknownKeys \in {"throw", "left", "right"} : merge(published, conflict, unknownKeys)

\* The schema is tagged with a new version and registered (external to the builders).
Publish == Call /\ published # schema /\ published' = schema /\ UNCHANGED <<field, schema>>

Next ==
  \/ BeginField \/ MakeOptional \/ MakeNullable \/ MakeDefault \/ Refine \/ MakeArray \/ MakeObject
  \/ Compose
  \/ Publish

Spec == Init /\ [][Next]_vars
=============================================================================
