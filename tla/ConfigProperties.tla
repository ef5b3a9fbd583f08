---------------------------- MODULE ConfigProperties ----------------------------
(***************************************************************************)
(* What a program that starts may rely on, over shapes whose fields were   *)
(* made by any chain of methods and an environment set in any way.         *)
(***************************************************************************)
EXTENDS Config

\* The last call of one of these methods in a chain, as a set of one or none.
LastCall(chain, names) ==
  LET calls == {k \in DOMAIN chain : chain[k].name \in names}
  IN {chain[k] : k \in {k \in calls : \A l \in calls : l <= k}}

\* Whether a value is one and keeps every bound of a chain, wherever in the chain it stands.
Keeps(chain, value) ==
  /\ value # Number(NaN)
  /\ \A m \in LastCall(chain, {"minLength"}) : LengthOf[value[2]] >= m.arg
  /\ \A m \in LastCall(chain, {"maxLength"}) : LengthOf[value[2]] <= m.arg
  /\ \A m \in LastCall(chain, {"min"}) : value[2] >= m.arg
  /\ \A m \in LastCall(chain, {"max"}) : value[2] <= m.arg
  /\ LastCall(chain, {"url"}) # {} => value[2] \in Urls
  /\ LastCall(chain, {"int"}) # {} => value[2] % 10 = 0

\* The values a text can stand for.
ReadAs(kind, text) ==
  CASE kind = "string" -> {Text(text)}
    [] kind = "number" -> {Number(n) : n \in {NumberOf[text]} \ {NaN}}
    [] kind = "boolean" -> {Boolean(text # "")}
    [] kind = "enum" -> {Text(t) : t \in {text} \cap EnumTexts}
    [] kind = "array" -> {}

(* A field is what the last call of each method says, in whatever order    *)
(* the methods were called: of optional() and default() the later one      *)
(* decides what an unset variable means, and where neither was called it   *)
(* is refused, unless the field is a boolean, which is false then (against *)
(* define-config.ts:19, "any required field is missing"); a bound holds    *)
(* for defaults too and stays when other methods follow, and a secret      *)
(* stays a secret. Each method of the five builder classes hands all the   *)
(* others' settings on (field.ts:102-356).                                 *)
FieldIsItsCalls ==
  \A path \in DOMAIN fields :
    LET field == fields[path]
        chain == chains[path]
        unset == SafeParse(field, Unset)
    IN /\ \A m \in LastCall(chain, {"optional", "default"}) :
            unset = IF m.name = "optional" THEN Parsed(Undefined)
                    ELSE IF Keeps(chain, m.arg) THEN Parsed(m.arg) ELSE Failed("malformed")
       /\ LastCall(chain, {"optional", "default"}) = {} => (unset.ok <=> field.kind = "boolean")
       /\ \A text \in Texts :
            LET value == {v \in ReadAs(field.kind, text) : Keeps(chain, v)}
            IN SafeParse(field, text) \in
                 IF value = {} THEN {Failed("malformed")} ELSE {Parsed(v) : v \in value}
       /\ field.secret <=> LastCall(chain, {"secret"}) # {}
       /\ EnvKey(field, path) \in
            IF LastCall(chain, {"env"}) = {} THEN {FlattenSeq(path)}
            ELSE {m.arg : m \in LastCall(chain, {"env"})}

\* A path before another one in the order in which the shape is written.
Precedes(p, q) ==
  \E n \in DOMAIN p \cap DOMAIN q :
    LET keys == shape[SubSeq(p, 1, n - 1)]
    IN /\ \A m \in 1 .. n - 1 : p[m] = q[m]
       /\ \E i, j \in DOMAIN keys : i < j /\ p[n] = keys[i] /\ q[n] = keys[j]

Good(path) == SafeParse(fields[path], rawEnv[EnvKey(fields[path], path)]).ok

(* Every field that is not as it should be is reported, once, first to     *)
(* last, however deep it lies and whatever else is wrong; a config is      *)
(* there only if nothing is, and then it has every field (validator.ts:    *)
(* 53-67: a nested error is caught and carried on).                        *)
AllProblemsReported ==
  config # None =>
    LET errors == config.errors
    IN /\ {e.path : e \in ToSet(errors)} = {path \in DOMAIN fields : ~Good(path)}
       /\ \A i, j \in DOMAIN errors : i < j => Precedes(errors[i].path, errors[j].path)
       /\ errors = <<>> => {v.path : v \in config.values} = DOMAIN fields

(* The process environment wins over the files, the files of a mode over   *)
(* the general ones, the local one over the other, and the files of a mode *)
(* the process is not in have no say (env-loader.ts:6-13).                 *)
Outranks(a, b) ==
  \/ a = "os"
  \/ b # "os" /\ a \in {".env.mode", ".env.mode.local"} /\ b \in {".env", ".env.local"}
  \/ a = ".env.local" /\ b = ".env"
  \/ a = ".env.mode.local" /\ b = ".env.mode"

HighestSourceWins ==
  config # None =>
    \A v \in config.values :
      LET field == fields[v.path]
          key == EnvKey(field, v.path)
          counting == {s \in Sources : /\ contents[s][key] # Unset
                                       /\ nodeEnv = Unset => s \in {".env", ".env.local", "os"}}
      IN field.kind = "string" =>
           IF counting = {} THEN v.value \in {Undefined, field.default}
           ELSE \E s \in counting : /\ v.value = Text(contents[s][key])
                                    /\ \A other \in counting \ {s} : Outranks(s, other)
=============================================================================
