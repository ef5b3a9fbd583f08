------------------------------- MODULE SchemaDiff -------------------------------
(***************************************************************************)
(* diffNodes and worstSeverity: the changes between two versions of a      *)
(* schema and how bad they are. The planner asks for a migration when the  *)
(* worst change is breaking, and the CLI exits with a failure.             *)
(*                                                                         *)
(* A change is its severity, its kind and its path; an array element has   *)
(* the segment "[]" of the path.                                           *)
(***************************************************************************)
EXTENDS SchemaNode

Change(severity, kind, path) == [severity |-> severity, kind |-> kind, path |-> path]

diffDefault(before, after, path) ==
  CASE before.default = after.default -> {}
    [] before.default = Undefined -> {Change("additive", "default_added", path)}
    [] after.default = Undefined -> {Change("breaking", "default_removed", path)}
    [] OTHER -> {Change("breaking", "default_value_changed", path)}

\* The optional that comes with a default is not counted.
absenceStateOf(node) ==
  LET opt == node.optional /\ node.default = Undefined IN
  CASE opt /\ node.nullable -> "nullish"
    [] opt /\ ~node.nullable -> "optional"
    [] ~opt /\ node.nullable -> "nullable"
    [] OTHER -> "required"

absenceSeverity(from, to) ==
  LET superset == [required |-> {"required"}, optional |-> {"required", "optional"},
                   nullable |-> {"required", "nullable"},
                   nullish |-> {"required", "optional", "nullable", "nullish"}]
  IN IF from \in superset[to] THEN "additive" ELSE "breaking"

diffAbsence(before, after, path) ==
  LET from == absenceStateOf(before) to == absenceStateOf(after) IN
  IF from = to THEN {}
  ELSE {Change(absenceSeverity(from, to), "absence_modifier_changed", path)}

\* Faulty: lower bounds are taken for upper bounds.
MrefinementParamSeverity(name, before, after) ==
  IF (name \in Lower /\ after < before) \/ (name \in Upper /\ after > before)
     \/ name \notin Lower \cup Upper
  THEN "breaking" ELSE "additive"

refinementParamSeverity(name, before, after) ==
  IF (name \in Lower /\ after > before) \/ (name \in Upper /\ after < before)
     \/ name \notin Lower \cup Upper
  THEN "breaking" ELSE "additive"

\* By name the last refinement of that name, as a Map is filled.
ByName(refinements) ==
  [name \in {refinements[i].name : i \in DOMAIN refinements} |->
     refinements[CHOOSE i \in DOMAIN refinements :
                   refinements[i].name = name /\ IsLast(refinements, i)].value]

NamesInOrder(refinements) == [i \in DOMAIN refinements |-> refinements[i].name]

diffRefinements(before, after, path) ==
  LET b == ByName(before.refinements)
      a == ByName(after.refinements)
      both == DOMAIN b \cap DOMAIN a
      severities == (IF DOMAIN b \subseteq both THEN {} ELSE {"additive"})
                    \cup (IF DOMAIN a \subseteq both THEN {} ELSE {"breaking"})
                    \cup {refinementParamSeverity(n, b[n], a[n]) : n \in {n \in both : b[n] # a[n]}}
      bOrder == NamesInOrder(before.refinements)
      aOrder == NamesInOrder(after.refinements)
      Count(order, n) == Len(SelectSeq(order, LAMBDA m : m = n))
  IN IF severities # {} THEN {Change(s, "refinement_changed", path) : s \in severities}
     ELSE IF bOrder # aOrder /\ \A n \in both : Count(bOrder, n) = Count(aOrder, n)
     THEN {Change("cosmetic", "refinements_reordered", path)} ELSE {}

newFieldSeverity(node) ==
  IF node.default # Undefined \/ node.optional THEN "additive" ELSE "breaking"

unknownKeysSeverity(before, after) ==
  CASE before = "strict" /\ after # "strict" -> "additive"
    [] before # "strict" /\ after = "strict" -> "breaking"
    [] OTHER -> "cosmetic"

diffEnum(before, after, path) ==
  LET b == Range(before.values) a == Range(after.values) IN
  (IF a \subseteq b THEN {} ELSE {Change("additive", "enum_value_added", path)})
  \cup (IF b \subseteq a THEN {} ELSE {Change("breaking", "enum_value_removed", path)})

diffLiteral(before, after, path) ==
  IF before.value = after.value THEN {} ELSE {Change("breaking", "literal_changed", path)}

RECURSIVE walk(_, _, _)

diffField(before, after, key, path) ==
  CASE key \notin DOMAIN before -> {Change(newFieldSeverity(after[key]), "field_added", path)}
    [] key \notin DOMAIN after -> {Change("breaking", "field_removed", path)}
    [] OTHER -> walk(before[key], after[key], path)

diffObject(before, after, path) ==
  (IF before.unknownKeys = after.unknownKeys THEN {}
   ELSE {Change(unknownKeysSeverity(before.unknownKeys, after.unknownKeys),
                "unknown_keys_changed", path)})
  \cup UNION {diffField(before.fields, after.fields, key, Append(path, key)) :
                key \in DOMAIN before.fields \cup DOMAIN after.fields}

walk(before, after, path) ==
  IF before.kind # after.kind THEN {Change("breaking", "type_changed", path)}
  ELSE diffDefault(before, after, path) \cup diffAbsence(before, after, path)
       \cup diffRefinements(before, after, path)
       \cup CASE before.kind = "object" -> diffObject(before, after, path)
              [] before.kind = "array" -> walk(before.element, after.element, Append(path, "[]"))
              [] before.kind = "enum" -> diffEnum(before, after, path)
              [] before.kind = "literal" -> diffLiteral(before, after, path)
              [] OTHER -> {}

diffNodes(before, after) == walk(before, after, <<>>)

Severities(changes) == {c.severity : c \in changes}

worstSeverity(changes) ==
  CASE changes = {} -> "none"
    [] "breaking" \in Severities(changes) -> "breaking"
    [] "additive" \in Severities(changes) -> "additive"
    [] OTHER -> "cosmetic"
=============================================================================
