----------------------------- MODULE NormalizeIssues -----------------------------
(***************************************************************************)
(* What a rejection is reported as: the issues that Zod 3 raises for the   *)
(* schema a node is compiled to, and the issues `parse`, `safeParse` and   *)
(* `validate` make of them. A path is the keys and indexes from the value  *)
(* that was given; messages, and what was expected, are left out.          *)
(***************************************************************************)
EXTENDS SchemaNode

ZodIssue(code, path, v, keys) ==
  [code |-> code, path |-> path, received |-> TypeOf(v), keys |-> keys]

RefinementCode(r, v) ==
  CASE r.name = "multipleOf" -> "not_multiple_of"
    [] r.name \in Upper \/ (r.name = "length" /\ Measure(v) > r.value) -> "too_big"
    [] OTHER -> "too_small"

\* A bound that is missed does not keep the others from being looked at.
RefinementCodes(node, v) ==
  {RefinementCode(node.refinements[i], v) :
     i \in {i \in DOMAIN node.refinements :
              /\ node.kind = "array" => IsLast(node.refinements, i)
              /\ ~Satisfies(node.refinements[i], v)}}

\* z.enum for strings, one z.literal for one value of another type, a union of
\* literals for several.
EnumCode(node, v) ==
  IF \A value \in Range(node.values) : TypeOf(value) = "string"
  THEN IF TypeOf(v) = "string" THEN "invalid_enum_value" ELSE "invalid_type"
  ELSE IF Len(node.values) = 1 THEN "invalid_literal" ELSE "invalid_union"

ScalarCodes(node, v) ==
  CASE ScalarAccepts(node, v) -> {}
    [] node.kind = "literal" -> {"invalid_literal"}
    [] node.kind = "enum" -> {EnumCode(node, v)}
    [] TypeOf(v) # node.kind -> {"invalid_type"}
    [] OTHER -> RefinementCodes(node, v)

\* A value of the wrong type is one issue; an array or an object of the right
\* type goes through all its bounds, members and unknown keys.
RECURSIVE ZodIssues(_, _, _)
ZodIssues(node, v, path) ==
  LET here(codes) == {ZodIssue(code, path, v, {}) : code \in codes} IN
  CASE v = Undefined /\ node.default # Undefined -> ZodIssues(node, node.default, path)
    [] (v = Undefined /\ node.optional) \/ (v = Null /\ node.nullable) -> {}
    [] node.kind \notin {"array", "object"} -> here(ScalarCodes(node, v))
    [] TypeOf(v) # node.kind -> here({"invalid_type"})
    [] node.kind = "array" ->
         here(RefinementCodes(node, v))
         \cup UNION {ZodIssues(node.element, Content(v)[i], Append(path, i)) : i \in DOMAIN Content(v)}
    [] node.kind = "object" ->
         LET unknown == Members(v) \ DOMAIN node.fields
         IN UNION {ZodIssues(node.fields[k], Under(v, k), Append(path, k)) : k \in DOMAIN node.fields}
            \cup IF node.unknownKeys = "strict" /\ unknown # {}
                 THEN {ZodIssue("unrecognized_keys", path, v, unknown)} ELSE {}

\* Zod names all unknown keys in one issue at the object.
\* Faulty: so is what is made of it.
MUnknownKeys(zi) == {[code |-> "unknown_key", path |-> zi.path]}

UnknownKeys(zi) == {[code |-> "unknown_key", path |-> Append(zi.path, key)] : key \in zi.keys}

appendNormalized(zi) ==
  IF zi.code = "unrecognized_keys" THEN UnknownKeys(zi)
  ELSE {[code |-> CASE zi.code = "invalid_type" /\ zi.received = "undefined" -> "missing_required"
                    [] zi.code = "invalid_enum_value" -> "invalid_enum"
                    [] zi.code = "not_multiple_of" -> "custom_refinement_failed"
                    [] OTHER -> zi.code,
         path |-> zi.path]}

normalizeIssues(issues) == UNION {appendNormalized(zi) : zi \in issues}

ParseIssues(node, v) == normalizeIssues(ZodIssues(node, v, <<>>))
ValidateIssues(node, v) == ParseIssues(stripDefaultsForValidate(node), v)
=============================================================================
