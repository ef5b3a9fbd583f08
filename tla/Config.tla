--------------------------------- MODULE Config ---------------------------------
(***************************************************************************)
(* packages/config: the field builders c.string() and its like, the        *)
(* environment put together from dotenv files and the process, and         *)
(* defineConfig(), which reads every field of a shape from it once, when   *)
(* the program starts: validateShape walks the shape, and a nested one by  *)
(* a call of itself.                                                       *)
(*                                                                         *)
(* A segment of a path is the sequence of its words, <<"db", "url">> for   *)
(* dbUrl, and so is the name of a variable, for DB_URL: deriving one from  *)
(* the other only puts words in a row. Numbers are counted in tenths.      *)
(***************************************************************************)
EXTENDS Integers, SequencesExt

CONSTANTS
  Texts,      \* what a variable may be set to, the empty text among it
  NumberOf,   \* Number(text), or NaN, as a function of texts
  LengthOf,   \* the lengths of texts
  Urls,       \* the texts that are URLs
  EnumTexts,  \* the values of the enums
  Shapes,     \* the shapes the author begins with, and of what kind their fields are
  Methods,    \* the calls of methods, name and argument
  MaxSteps,   \* bound: method calls and settings of variables
  NaN, None

Unset == "unset"

Undefined == <<"undefined">>
Text(t) == <<"text", t>>
Number(n) == <<"number", n>>
Boolean(b) == <<"boolean", b>>
List(items) == <<"array", items>>

-----------------------------------------------------------------------------
(* Field builders. A method returns a new builder with one thing changed.  *)

StringMethods == {"minLength", "maxLength", "url", "secret", "env", "optional", "default"}
NumberMethods == {"int", "min", "max", "secret", "env", "optional", "default"}
BooleanMethods == {"secret", "env", "optional", "default"}
EnumMethods == {"secret", "env", "optional", "default"}
ArrayMethods == {"secret", "env", "default"}
MethodsOf == [string |-> StringMethods, number |-> NumberMethods, boolean |-> BooleanMethods,
              enum |-> EnumMethods, array |-> ArrayMethods]
TypeOfDefault == [string |-> "text", number |-> "number", boolean |-> "boolean",
                  enum |-> "text", array |-> "array"]

\* c.string(), c.number(), ...
c(kind) ==
  [kind |-> kind, low |-> None, high |-> None, format |-> FALSE, secret |-> FALSE,
   env |-> None, optional |-> FALSE, default |-> Undefined, hasDefault |-> FALSE]

IsMethod(field, m) ==
  /\ m.name \in MethodsOf[field.kind]
  /\ m.name = "default" => /\ m.arg[1] = TypeOfDefault[field.kind]
                           /\ field.kind = "enum" => m.arg[2] \in EnumTexts

\* optional() withdraws a default, default() an optional().
MOptional(field) == [field EXCEPT !.optional = TRUE]
Optional(field) == [field EXCEPT !.optional = TRUE, !.default = Undefined, !.hasDefault = FALSE]
Default(field, value) ==
  [field EXCEPT !.optional = FALSE, !.default = value, !.hasDefault = TRUE]

Apply(field, m) ==
  CASE m.name \in {"minLength", "min"} -> [field EXCEPT !.low = m.arg]
    [] m.name \in {"maxLength", "max"} -> [field EXCEPT !.high = m.arg]
    [] m.name \in {"url", "int"} -> [field EXCEPT !.format = TRUE]
    [] m.name = "secret" -> [field EXCEPT !.secret = TRUE]
    [] m.name = "env" -> [field EXCEPT !.env = m.arg]
    [] m.name = "optional" -> Optional(field)
    [] m.name = "default" -> Default(field, m.arg)

-----------------------------------------------------------------------------
(* buildZod() and safeParse() of what it builds.                           *)

Failed(problem) == [ok |-> FALSE, problem |-> problem]
Parsed(value) == [ok |-> TRUE, value |-> value]

\* Zod's coercion: Number(x) and Boolean(x) are applied to whatever is there.
Coerced(field, raw) ==
  CASE field.kind = "number" -> IF raw = Unset THEN NaN ELSE NumberOf[raw]
    [] field.kind = "boolean" -> raw # Unset /\ raw # ""
    [] OTHER -> raw

WithinBounds(field, n) ==
  /\ field.low # None => n >= field.low
  /\ field.high # None => n <= field.high

ParseString(field, text) ==
  IF WithinBounds(field, LengthOf[text]) /\ (field.format => text \in Urls)
  THEN Parsed(Text(text)) ELSE Failed("malformed")

ParseNumber(field, n) ==
  IF n # NaN /\ WithinBounds(field, n) /\ (field.format => n % 10 = 0)
  THEN Parsed(Number(n)) ELSE Failed("malformed")

ParseEnum(text) == IF text \in EnumTexts THEN Parsed(Text(text)) ELSE Failed("malformed")

\* A text is not an array, so the variable of an array field can only be unset.
ParseBase(field, raw) ==
  CASE field.kind = "number" -> ParseNumber(field, Coerced(field, raw))
    [] field.kind = "boolean" -> Parsed(Boolean(Coerced(field, raw)))
    [] field.kind \in {"string", "enum", "array"} /\ raw = Unset -> Failed("Required")
    [] field.kind = "string" /\ raw # Unset -> ParseString(field, raw)
    [] field.kind = "enum" /\ raw # Unset -> ParseEnum(raw)
    [] field.kind = "array" /\ raw # Unset -> Failed("malformed")

\* A default goes through the schema like a value that was there.
ParseDefault(field) ==
  CASE field.kind = "string" -> ParseString(field, field.default[2])
    [] field.kind = "number" -> ParseNumber(field, field.default[2])
    [] OTHER -> Parsed(field.default)

SafeParse(field, raw) ==
  IF raw = Unset /\ field.hasDefault THEN ParseDefault(field)
  ELSE IF raw = Unset /\ field.optional THEN Parsed(Undefined)
  ELSE ParseBase(field, raw)

-----------------------------------------------------------------------------
(* The environment.                                                        *)

\* The files in the order they are read; the process environment is last.
MFiles(mode) ==
  IF mode = Unset THEN <<".env", ".env.local">>
  ELSE <<".env", ".env.mode", ".env.local", ".env.mode.local">>
Files(mode) ==
  <<".env", ".env.local">> \o
  IF mode = Unset THEN <<>> ELSE <<".env.mode", ".env.mode.local">>

Sources == {".env", ".env.local", ".env.mode", ".env.mode.local", "os"}

\* Object.assign: what the later source sets replaces what was there.
Assign(merged, source) == [key \in DOMAIN merged |-> IF source[key] = Unset THEN merged[key]
                                                     ELSE source[key]]

loadEnv(mode, sources) ==
  LET files == Files(mode)
      merged[n \in 0 .. Len(files)] ==
        IF n = 0 THEN [key \in DOMAIN sources["os"] |-> Unset]
        ELSE Assign(merged[n - 1], sources[files[n]])
  IN Assign(merged[Len(files)], sources["os"])

pathToEnvKey(path) == FlattenSeq(path)

EnvKey(field, path) == IF field.env # None THEN field.env ELSE pathToEnvKey(path)

-----------------------------------------------------------------------------
(* The author of a shape, whoever sets variables, and the program that     *)
(* starts. A shape is the keys of every object in it, by the path that     *)
(* leads there.                                                            *)

\* An object's keys differ; every path goes through shapes, by their keys,
\* and ends at a shape or a field.
IsTree(tree) ==
  /\ <<>> \in DOMAIN tree.keys /\ DOMAIN tree.keys \cap DOMAIN tree.kinds = {}
  /\ \A p \in DOMAIN tree.keys :
       /\ tree.keys[p] \in Seq(ToSet(tree.keys[p]))
       /\ \A i, j \in DOMAIN tree.keys[p] : tree.keys[p][i] = tree.keys[p][j] => i = j
       /\ \A i \in DOMAIN tree.keys[p] :
            Append(p, tree.keys[p][i]) \in DOMAIN tree.keys \cup DOMAIN tree.kinds
  /\ \A p \in DOMAIN tree.keys \cup DOMAIN tree.kinds :
       /\ p \in Seq(ToSet(p))
       /\ \A n \in DOMAIN p : \E i \in DOMAIN tree.keys[SubSeq(p, 1, n - 1)] :
            /\ SubSeq(p, 1, n - 1) \in DOMAIN tree.keys
            /\ p[n] = tree.keys[SubSeq(p, 1, n - 1)][i]

ASSUME ConfigConstants ==
  /\ Unset \notin Texts
  /\ \A tree \in Shapes :
       IsTree(tree) /\ tree.kinds \in [DOMAIN tree.kinds -> DOMAIN MethodsOf]
  /\ \A m \in Methods :
       /\ m.name \in {"minLength", "maxLength", "min", "max", "env"} => m.arg # None
       /\ m.name = "default" => m.arg = <<m.arg[1], m.arg[2]>>

VARIABLES
  shape,     \* the keys of the shape and of those nested in it
  fields,    \* the field builders in the making, by their paths
  chains,    \* history: the methods called on each of them
  nodeEnv,   \* NODE_ENV of the process, Unset or "mode"
  contents,  \* what the files and the process environment set
  steps,
  rawEnv,    \* what loadEnv returned, None before
  frames,    \* the calls of validateShape that are open, the outermost first
  config     \* what defineConfig came to, None before

author == <<shape, fields, chains, nodeEnv, contents, steps>>
vars == <<author, rawEnv, frames, config>>

Variables == {EnvKey(fields[path], path) : path \in DOMAIN fields}
             \cup {m.arg : m \in {m \in Methods : m.name = "env"}}

Init ==
  /\ \E tree \in Shapes : /\ shape = tree.keys
                          /\ fields = [path \in DOMAIN tree.kinds |-> c(tree.kinds[path])]
  /\ chains = [path \in DOMAIN fields |-> <<>>]
  /\ nodeEnv \in {Unset, "mode"}
  /\ contents = [source \in Sources |-> [key \in Variables |-> Unset]]
  /\ steps = 0
  /\ rawEnv = None /\ frames = <<>> /\ config = None

Step == frames = <<>> /\ config = None /\ steps < MaxSteps /\ steps' = steps + 1

CallMethod ==
  /\ Step
  /\ \E path \in DOMAIN fields, m \in Methods :
       /\ IsMethod(fields[path], m)
       /\ fields' = [fields EXCEPT ![path] = Apply(@, m)]
       /\ chains' = [chains EXCEPT ![path] = Append(@, m)]
  /\ UNCHANGED <<shape, nodeEnv, contents, rawEnv, frames, config>>

SetVariable ==
  /\ Step
  /\ \E source \in Sources, key \in DOMAIN contents["os"], text \in Texts :
       contents' = [contents EXCEPT ![source][key] = text]
  /\ UNCHANGED <<shape, fields, chains, nodeEnv, rawEnv, frames, config>>

-----------------------------------------------------------------------------
(* defineConfig and validateShape: a call goes through the keys of one     *)
(* object and opens another one for a nested object. What it has come to   *)
(* is the errors, and the value at every path.                             *)

Frame(path) == [path |-> path, next |-> 1, errors |-> <<>>, values |-> {}]

defineConfig ==
  /\ frames = <<>> /\ config = None
  /\ rawEnv' = loadEnv(nodeEnv, contents)
  /\ frames' = <<Frame(<<>>)>>
  /\ UNCHANGED <<author, config>>

Top == frames[Len(frames)]
AtKey == frames # <<>> /\ Top.next \in DOMAIN shape[Top.path]
AtEnd == frames # <<>> /\ Top.next \notin DOMAIN shape[Top.path]
Here == Append(Top.path, shape[Top.path][Top.next])

\* formatZodError has one message of its own.
Message(field, problem) ==
  IF problem = "Required" /\ ~field.hasDefault /\ ~field.optional
  THEN "required but not set" ELSE problem

AddField(frame, field, path) ==
  LET parsed == SafeParse(field, rawEnv[EnvKey(field, path)])
  IN IF parsed.ok
     THEN [frame EXCEPT !.next = @ + 1,
                        !.values = @ \cup {[path |-> path, value |-> parsed.value,
                                            wrapped |-> field.secret]}]
     ELSE [frame EXCEPT !.next = @ + 1,
                        !.errors = Append(@, [path |-> path, envKey |-> EnvKey(field, path),
                                              message |-> Message(field, parsed.problem)])]

\* The nested call throws its errors and the outer one catches them.
MAddNested(frame, nested) ==
  IF nested.errors = <<>>
  THEN [frame EXCEPT !.next = @ + 1, !.values = @ \cup nested.values]
  ELSE [frame EXCEPT !.next = @ + 1, !.errors = nested.errors]
AddNested(frame, nested) ==
  IF nested.errors = <<>>
  THEN [frame EXCEPT !.next = @ + 1, !.values = @ \cup nested.values]
  ELSE [frame EXCEPT !.next = @ + 1, !.errors = @ \o nested.errors]

ParseField ==
  /\ AtKey /\ Here \in DOMAIN fields
  /\ frames' = [frames EXCEPT ![Len(frames)] = AddField(@, fields[Here], Here)]
  /\ UNCHANGED <<author, rawEnv, config>>

EnterNested ==
  /\ AtKey /\ Here \in DOMAIN shape
  /\ frames' = Append(frames, Frame(Here))
  /\ UNCHANGED <<author, rawEnv, config>>

LeaveNested ==
  /\ AtEnd /\ Len(frames) > 1
  /\ frames' = [Front(frames) EXCEPT ![Len(frames) - 1] = AddNested(@, Top)]
  /\ UNCHANGED <<author, rawEnv, config>>

Return ==
  /\ AtEnd /\ Len(frames) = 1
  /\ config' = [errors |-> Top.errors, values |-> Top.values]
  /\ frames' = <<>>
  /\ UNCHANGED <<author, rawEnv>>

Next ==
  \/ CallMethod \/ SetVariable
  \/ defineConfig \/ ParseField \/ EnterNested \/ LeaveNested \/ Return

Spec == Init /\ [][Next]_vars
=============================================================================
