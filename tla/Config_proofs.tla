---------------------------- MODULE Config_proofs ----------------------------
(***************************************************************************)
(* Theorems about the configuration: fields of any kind made by any chain  *)
(* of methods, shapes nested to any depth, and any environment.            *)
(***************************************************************************)
EXTENDS ConfigProperties, TLAPS

-----------------------------------------------------------------------------
(* The last call of some methods, one call later.                          *)

LEMMA AppendedCall ==
  ASSUME NEW chain \in Seq(Methods), NEW m \in Methods
  PROVE  /\ Append(chain, m) \in Seq(Methods)
         /\ Len(Append(chain, m)) = Len(chain) + 1 /\ Len(chain) \in Nat
         /\ DOMAIN chain = 1 .. Len(chain)
         /\ DOMAIN Append(chain, m) = 1 .. Len(chain) + 1
         /\ Append(chain, m)[Len(chain) + 1] = m
         /\ \A k \in 1 .. Len(chain) : Append(chain, m)[k] = chain[k]
OBVIOUS

LEMMA LastCallOfNone ==
  ASSUME NEW names  PROVE LastCall(<<>>, names) = {}
BY DEF LastCall

LEMMA LastCallStep ==
  ASSUME NEW chain \in Seq(Methods), NEW m \in Methods, NEW names
  PROVE  LastCall(Append(chain, m), names)
           = IF m.name \in names THEN {m} ELSE LastCall(chain, names)
<1> DEFINE longer == Append(chain, m)
           N == Len(chain)
           Calls(s) == {k \in DOMAIN s : s[k].name \in names}
           Lasts(s) == {k \in Calls(s) : \A l \in Calls(s) : l <= k}
<1>1. /\ N \in Nat /\ DOMAIN chain = 1 .. N /\ DOMAIN longer = 1 .. N + 1
      /\ longer[N + 1] = m /\ \A k \in 1 .. N : longer[k] = chain[k]
  BY AppendedCall
<1>2. /\ LastCall(longer, names) = {longer[k] : k \in Lasts(longer)}
      /\ LastCall(chain, names) = {chain[k] : k \in Lasts(chain)}
  BY DEF LastCall
<1> HIDE DEF longer, N
<1>3. CASE m.name \in names
  <2>1. Lasts(longer) = {N + 1}
    <3>1. N + 1 \in Calls(longer) /\ \A l \in Calls(longer) : l \in 1 .. N + 1
      BY <1>1, <1>3
    <3>2. \A l \in 1 .. N + 1 : l <= N + 1 /\ (l = N + 1 \/ ~(N + 1 <= l))
      BY <1>1
    <3>3. QED  BY <3>1, <3>2
  <2>2. QED  BY <1>1, <1>2, <1>3, <2>1 DEF longer
<1>4. CASE m.name \notin names
  <2>1. Calls(longer) = Calls(chain)
    <3>1. \A k : k \in 1 .. N + 1 <=> k \in 1 .. N \/ k = N + 1
      BY <1>1
    <3>2. QED  BY <1>1, <1>4, <3>1
  <2>2. Lasts(longer) = Lasts(chain) /\ Lasts(chain) \subseteq 1 .. N
    BY <1>1, <2>1
  <2>3. QED  BY <1>1, <1>2, <1>4, <2>2 DEF longer
<1>5. QED  BY <1>3, <1>4

LEMMA LastCallIsOne ==
  ASSUME NEW chain \in Seq(Methods), NEW names
  PROVE  /\ \A m \in LastCall(chain, names) :
              /\ m.name \in names /\ \E k \in DOMAIN chain : m = chain[k]
              /\ \A n \in LastCall(chain, names) : m = n
<1> DEFINE Calls == {k \in DOMAIN chain : chain[k].name \in names}
           Lasts == {k \in Calls : \A l \in Calls : l <= k}
<1>1. LastCall(chain, names) = {chain[k] : k \in Lasts}
  BY DEF LastCall
<1>2. \A k, l \in Lasts : k = l
  <2>1. DOMAIN chain = 1 .. Len(chain) /\ Len(chain) \in Nat
    OBVIOUS
  <2>2. \A k, l \in 1 .. Len(chain) : k <= l /\ l <= k => k = l
    BY <2>1
  <2>3. QED  BY <2>1, <2>2
<1>3. QED  BY <1>1, <1>2

(* Only the methods that a field has count.                                *)
LEMMA LastCallAmong ==
  ASSUME NEW chain, NEW names, NEW others,
         \A k \in DOMAIN chain : chain[k].name \in names <=> chain[k].name \in others
  PROVE  LastCall(chain, names) = LastCall(chain, others)
<1>1. {k \in DOMAIN chain : chain[k].name \in names}
        = {k \in DOMAIN chain : chain[k].name \in others}
  OBVIOUS
<1>2. QED  BY <1>1 DEF LastCall

-----------------------------------------------------------------------------
(* A field is what its calls say, setting by setting.                      *)

Kinds == {"string", "number", "boolean", "enum", "array"}
Args == {m.arg : m \in Methods}
FieldSet ==
  [kind : Kinds, low : {None} \cup Args, high : {None} \cup Args, format : BOOLEAN,
   secret : BOOLEAN, env : {None} \cup Args, optional : BOOLEAN,
   default : {Undefined} \cup Args, hasDefault : BOOLEAN]

Allowed(kind, m) ==
  /\ m.name \in MethodsOf[kind]
  /\ m.name = "default" => m.arg[1] = TypeOfDefault[kind]
  /\ m.name = "default" /\ kind = "enum" => m.arg[2] \in EnumTexts

Lows == {"minLength", "min"}
Highs == {"maxLength", "max"}
Formats == {"url", "int"}
Absences == {"optional", "default"}

IsSetTo(x, chain, names) ==
  IF LastCall(chain, names) = {} THEN x = None
  ELSE \A m \in LastCall(chain, names) : x = m.arg

AbsenceIs(f, chain) ==
  /\ LastCall(chain, Absences) = {} => ~f.optional /\ ~f.hasDefault
  /\ \A m \in LastCall(chain, Absences) :
       IF m.name = "optional" THEN f.optional /\ ~f.hasDefault
       ELSE ~f.optional /\ f.hasDefault /\ f.default = m.arg

Settings(f, chain) ==
  /\ f \in FieldSet /\ chain \in Seq(Methods)
  /\ \A k \in DOMAIN chain : Allowed(f.kind, chain[k])
  /\ IsSetTo(f.low, chain, Lows) /\ IsSetTo(f.high, chain, Highs)
  /\ IsSetTo(f.env, chain, {"env"})
  /\ f.format <=> LastCall(chain, Formats) # {}
  /\ f.secret <=> LastCall(chain, {"secret"}) # {}
  /\ AbsenceIs(f, chain)

LEMMA NewField ==
  ASSUME NEW kind \in Kinds  PROVE Settings(c(kind), <<>>) /\ c(kind).kind = kind
BY LastCallOfNone DEF Settings, c, FieldSet, IsSetTo, AbsenceIs

LEMMA IsSetToStep ==
  ASSUME NEW chain \in Seq(Methods), NEW m \in Methods, NEW names, NEW x, NEW y,
         IsSetTo(x, chain, names), IF m.name \in names THEN y = m.arg ELSE y = x
  PROVE  IsSetTo(y, Append(chain, m), names)
<1>1. LastCall(Append(chain, m), names) = IF m.name \in names THEN {m} ELSE LastCall(chain, names)
  BY LastCallStep
<1>2. CASE m.name \in names
  BY <1>1, <1>2 DEF IsSetTo
<1>3. CASE m.name \notin names
  BY <1>1, <1>3 DEF IsSetTo
<1>4. QED  BY <1>2, <1>3

(* What a call changes and what it leaves.                                 *)
LEMMA ApplyFacts ==
  ASSUME NEW f \in FieldSet, NEW m \in Methods, IsMethod(f, m)
  PROVE  /\ Allowed(f.kind, m)
         /\ Apply(f, m) \in FieldSet /\ Apply(f, m).kind = f.kind
         /\ IF m.name \in Lows THEN Apply(f, m).low = m.arg ELSE Apply(f, m).low = f.low
         /\ IF m.name \in Highs THEN Apply(f, m).high = m.arg ELSE Apply(f, m).high = f.high
         /\ IF m.name \in {"env"} THEN Apply(f, m).env = m.arg ELSE Apply(f, m).env = f.env
         /\ Apply(f, m).format = IF m.name \in Formats THEN TRUE ELSE f.format
         /\ Apply(f, m).secret = IF m.name \in {"secret"} THEN TRUE ELSE f.secret
         /\ m.name = "optional" => Apply(f, m).optional /\ ~Apply(f, m).hasDefault
         /\ m.name = "default" => /\ ~Apply(f, m).optional /\ Apply(f, m).hasDefault
                                  /\ Apply(f, m).default = m.arg
         /\ m.name \notin Absences => /\ Apply(f, m).optional = f.optional
                                      /\ Apply(f, m).hasDefault = f.hasDefault
                                      /\ Apply(f, m).default = f.default
<1>1. Allowed(f.kind, m)
  BY DEF IsMethod, Allowed
<1>2. m.arg \in Args
  BY DEF Args
<1>3. m.name \in {"minLength", "min", "maxLength", "max", "url", "int", "secret", "env",
                  "optional", "default"}
  BY <1>1 DEF Allowed, FieldSet, Kinds, MethodsOf, StringMethods, NumberMethods, BooleanMethods,
         EnumMethods, ArrayMethods
<1>4. CASE m.name \in {"minLength", "min"}
  BY <1>1, <1>2, <1>4 DEF Apply, FieldSet, Lows, Highs, Formats, Absences
<1>5. CASE m.name \in {"maxLength", "max"}
  BY <1>1, <1>2, <1>5 DEF Apply, FieldSet, Lows, Highs, Formats, Absences
<1>6. CASE m.name \in {"url", "int"}
  BY <1>1, <1>2, <1>6 DEF Apply, FieldSet, Lows, Highs, Formats, Absences
<1>7. CASE m.name = "secret"
  BY <1>1, <1>2, <1>7 DEF Apply, FieldSet, Lows, Highs, Formats, Absences
<1>8. CASE m.name = "env"
  BY <1>1, <1>2, <1>8 DEF Apply, FieldSet, Lows, Highs, Formats, Absences
<1>9. CASE m.name = "optional"
  BY <1>1, <1>2, <1>9 DEF Apply, Optional, FieldSet, Lows, Highs, Formats, Absences
<1>10. CASE m.name = "default"
  BY <1>1, <1>2, <1>10 DEF Apply, Default, FieldSet, Lows, Highs, Formats, Absences
<1>11. QED  BY <1>3, <1>4, <1>5, <1>6, <1>7, <1>8, <1>9, <1>10

LEMMA SettingsStep ==
  ASSUME NEW f, NEW chain, Settings(f, chain), NEW m \in Methods, IsMethod(f, m)
  PROVE  Settings(Apply(f, m), Append(chain, m))
<1> DEFINE g == Apply(f, m)
           longer == Append(chain, m)
<1>1. f \in FieldSet /\ chain \in Seq(Methods)
  BY DEF Settings
<1>2. Allowed(f.kind, m) /\ g \in FieldSet /\ g.kind = f.kind
  BY <1>1, ApplyFacts
<1>3. longer \in Seq(Methods) /\ \A k \in DOMAIN longer : Allowed(g.kind, longer[k])
  <2>1. /\ longer \in Seq(Methods) /\ DOMAIN longer = 1 .. Len(chain) + 1 /\ Len(chain) \in Nat
        /\ DOMAIN chain = 1 .. Len(chain)
        /\ longer[Len(chain) + 1] = m /\ \A k \in 1 .. Len(chain) : longer[k] = chain[k]
    BY <1>1, AppendedCall
  <2>2. \A k \in 1 .. Len(chain) + 1 : k \in 1 .. Len(chain) \/ k = Len(chain) + 1
    BY <2>1
  <2>3. \A k \in DOMAIN chain : Allowed(f.kind, chain[k])
    BY DEF Settings
  <2>4. QED  BY <1>2, <2>1, <2>2, <2>3
<1>4. IsSetTo(g.low, longer, Lows)
  <2>1. IF m.name \in Lows THEN g.low = m.arg ELSE g.low = f.low
    BY <1>1, ApplyFacts
  <2>2. IsSetTo(f.low, chain, Lows)
    BY DEF Settings
  <2>3. QED  BY <1>1, <2>1, <2>2, IsSetToStep
<1>5. IsSetTo(g.high, longer, Highs)
  <2>1. IF m.name \in Highs THEN g.high = m.arg ELSE g.high = f.high
    BY <1>1, ApplyFacts
  <2>2. IsSetTo(f.high, chain, Highs)
    BY DEF Settings
  <2>3. QED  BY <1>1, <2>1, <2>2, IsSetToStep
<1>6. IsSetTo(g.env, longer, {"env"})
  <2>1. IF m.name \in {"env"} THEN g.env = m.arg ELSE g.env = f.env
    BY <1>1, ApplyFacts
  <2>2. IsSetTo(f.env, chain, {"env"})
    BY DEF Settings
  <2>3. QED  BY <1>1, <2>1, <2>2, IsSetToStep
<1>7. g.format <=> LastCall(longer, Formats) # {}
  <2>1. g.format = IF m.name \in Formats THEN TRUE ELSE f.format
    BY <1>1, ApplyFacts
  <2>2. LastCall(longer, Formats) = IF m.name \in Formats THEN {m} ELSE LastCall(chain, Formats)
    BY <1>1, LastCallStep
  <2>3. f.format <=> LastCall(chain, Formats) # {}
    BY DEF Settings
  <2>4. QED  BY <2>1, <2>2, <2>3
<1>8. g.secret <=> LastCall(longer, {"secret"}) # {}
  <2>1. g.secret = IF m.name \in {"secret"} THEN TRUE ELSE f.secret
    BY <1>1, ApplyFacts
  <2>2. LastCall(longer, {"secret"}) = IF m.name \in {"secret"} THEN {m} ELSE LastCall(chain, {"secret"})
    BY <1>1, LastCallStep
  <2>3. f.secret <=> LastCall(chain, {"secret"}) # {}
    BY DEF Settings
  <2>4. QED  BY <2>1, <2>2, <2>3
<1>9. AbsenceIs(g, longer)
  <2>1. LastCall(longer, Absences) = IF m.name \in Absences THEN {m} ELSE LastCall(chain, Absences)
    BY <1>1, LastCallStep
  <2>2. CASE m.name \in Absences
    <3>1. m.name = "optional" => g.optional /\ ~g.hasDefault
      BY <1>1, ApplyFacts
    <3>2. m.name = "default" => ~g.optional /\ g.hasDefault /\ g.default = m.arg
      BY <1>1, ApplyFacts
    <3>3. m.name \in {"optional", "default"}
      BY <2>2 DEF Absences
    <3> HIDE DEF g, longer
    <3>4. LastCall(longer, Absences) = {m}
      BY <2>1, <2>2
    <3>5. QED  BY <3>1, <3>2, <3>3, <3>4 DEF AbsenceIs
  <2>3. CASE m.name \notin Absences
    <3>1. g.optional = f.optional /\ g.hasDefault = f.hasDefault /\ g.default = f.default
      BY <1>1, <2>3, ApplyFacts
    <3>2. AbsenceIs(f, chain)
      BY DEF Settings
    <3> HIDE DEF g, longer
    <3>3. LastCall(longer, Absences) = LastCall(chain, Absences)
      BY <2>1, <2>3
    <3>4. QED  BY <3>1, <3>2, <3>3 DEF AbsenceIs
  <2>4. QED  BY <2>2, <2>3
<1> HIDE DEF g, longer
<1>10. Settings(g, longer)
  BY <1>2, <1>3, <1>4, <1>5, <1>6, <1>7, <1>8, <1>9 DEF Settings
<1>11. QED  BY <1>10 DEF g, longer

-----------------------------------------------------------------------------
(* What is parsed, by what was called.                                     *)

LEMMA CallsAllowed ==
  ASSUME NEW f, NEW chain, Settings(f, chain), NEW names
  PROVE  \A m \in LastCall(chain, names) : m \in Methods /\ m.name \in names /\ Allowed(f.kind, m)
<1>1. chain \in Seq(Methods) /\ \A k \in DOMAIN chain : Allowed(f.kind, chain[k])
  BY DEF Settings
<1>2. \A k \in DOMAIN chain : chain[k] \in Methods
  BY <1>1
<1>3. QED  BY <1>1, <1>2, LastCallIsOne

LEMMA OnlyAllowed ==
  ASSUME NEW f, NEW chain, Settings(f, chain), NEW names, NEW others,
         names \cap MethodsOf[f.kind] = others \cap MethodsOf[f.kind]
  PROVE  LastCall(chain, names) = LastCall(chain, others)
<1>1. \A k \in DOMAIN chain : chain[k].name \in MethodsOf[f.kind]
  BY DEF Settings, Allowed
<1>2. \A k \in DOMAIN chain : chain[k].name \in names <=> chain[k].name \in others
  BY <1>1
<1>3. QED  BY <1>2, LastCallAmong

LEMMA NoneOfNothing ==
  ASSUME NEW chain  PROVE LastCall(chain, {}) = {}
BY DEF LastCall

LEMMA BoundsKept ==
  ASSUME NEW f, NEW chain, Settings(f, chain), NEW n
  PROVE  WithinBounds(f, n) <=> /\ \A m \in LastCall(chain, Lows) : n >= m.arg
                                /\ \A m \in LastCall(chain, Highs) : n <= m.arg
<1>1. \A m \in LastCall(chain, Lows) \cup LastCall(chain, Highs) : m.arg # None
  <2>1. \A m \in Methods : m.name \in Lows \cup Highs => m.arg # None
    BY ConfigConstants DEF Lows, Highs
  <2>2. QED  BY <2>1, CallsAllowed
<1>2. (f.low # None => n >= f.low) <=> \A m \in LastCall(chain, Lows) : n >= m.arg
  <2>1. IsSetTo(f.low, chain, Lows)
    BY DEF Settings
  <2>2. QED  BY <1>1, <2>1 DEF IsSetTo
<1>3. (f.high # None => n <= f.high) <=> \A m \in LastCall(chain, Highs) : n <= m.arg
  <2>1. IsSetTo(f.high, chain, Highs)
    BY DEF Settings
  <2>2. QED  BY <1>1, <2>1 DEF IsSetTo
<1>4. QED  BY <1>2, <1>3 DEF WithinBounds

LEMMA MethodsAre ==
  /\ MethodsOf["string"] = StringMethods /\ MethodsOf["number"] = NumberMethods
  /\ MethodsOf["boolean"] = BooleanMethods /\ MethodsOf["enum"] = EnumMethods
  /\ MethodsOf["array"] = ArrayMethods
  /\ TypeOfDefault["string"] = "text" /\ TypeOfDefault["number"] = "number"
  /\ TypeOfDefault["boolean"] = "boolean" /\ TypeOfDefault["enum"] = "text"
  /\ TypeOfDefault["array"] = "array"
BY DEF MethodsOf, TypeOfDefault

LEMMA StringKeeps ==
  ASSUME NEW f, NEW chain, Settings(f, chain), f.kind = "string", NEW t
  PROVE  Keeps(chain, Text(t)) <=> WithinBounds(f, LengthOf[t]) /\ (f.format => t \in Urls)
<1>1. /\ LastCall(chain, {"minLength"}) = LastCall(chain, Lows)
      /\ LastCall(chain, {"maxLength"}) = LastCall(chain, Highs)
      /\ LastCall(chain, {"url"}) = LastCall(chain, Formats)
      /\ LastCall(chain, {"min"}) = LastCall(chain, {})
      /\ LastCall(chain, {"max"}) = LastCall(chain, {})
      /\ LastCall(chain, {"int"}) = LastCall(chain, {})
  <2>1. /\ {"minLength"} \cap StringMethods = Lows \cap StringMethods
        /\ {"maxLength"} \cap StringMethods = Highs \cap StringMethods
        /\ {"url"} \cap StringMethods = Formats \cap StringMethods
        /\ {"min"} \cap StringMethods = {} \cap StringMethods
        /\ {"max"} \cap StringMethods = {} \cap StringMethods
        /\ {"int"} \cap StringMethods = {} \cap StringMethods
    BY DEF StringMethods, Lows, Highs, Formats
  <2>2. QED  BY <2>1, OnlyAllowed, MethodsAre
<1>2. f.format <=> LastCall(chain, Formats) # {}
  BY DEF Settings
<1>3. Text(t)[2] = t /\ Text(t) # Number(NaN)
  BY DEF Text, Number
<1>4. QED  BY <1>1, <1>2, <1>3, BoundsKept, NoneOfNothing DEF Keeps

LEMMA NumberKeeps ==
  ASSUME NEW f, NEW chain, Settings(f, chain), f.kind = "number", NEW n
  PROVE  Keeps(chain, Number(n)) <=>
           n # NaN /\ WithinBounds(f, n) /\ (f.format => n % 10 = 0)
<1>1. /\ LastCall(chain, {"min"}) = LastCall(chain, Lows)
      /\ LastCall(chain, {"max"}) = LastCall(chain, Highs)
      /\ LastCall(chain, {"int"}) = LastCall(chain, Formats)
      /\ LastCall(chain, {"minLength"}) = LastCall(chain, {})
      /\ LastCall(chain, {"maxLength"}) = LastCall(chain, {})
      /\ LastCall(chain, {"url"}) = LastCall(chain, {})
  <2>1. /\ {"min"} \cap NumberMethods = Lows \cap NumberMethods
        /\ {"max"} \cap NumberMethods = Highs \cap NumberMethods
        /\ {"int"} \cap NumberMethods = Formats \cap NumberMethods
        /\ {"minLength"} \cap NumberMethods = {} \cap NumberMethods
        /\ {"maxLength"} \cap NumberMethods = {} \cap NumberMethods
        /\ {"url"} \cap NumberMethods = {} \cap NumberMethods
    BY DEF NumberMethods, Lows, Highs, Formats
  <2>2. QED  BY <2>1, OnlyAllowed, MethodsAre
<1>2. f.format <=> LastCall(chain, Formats) # {}
  BY DEF Settings
<1>3. Number(n)[2] = n /\ (Number(n) = Number(NaN) <=> n = NaN)
  BY DEF Number
<1>4. QED  BY <1>1, <1>2, <1>3, BoundsKept, NoneOfNothing DEF Keeps

LEMMA OthersKeep ==
  ASSUME NEW f, NEW chain, Settings(f, chain), f.kind \in {"boolean", "enum", "array"},
         NEW v, v # Number(NaN)
  PROVE  Keeps(chain, v)
<1> DEFINE Bounded == {"minLength", "maxLength", "min", "max", "url", "int"}
<1>1. ASSUME NEW name \in Bounded  PROVE LastCall(chain, {name}) = {}
  <2>1. {name} \cap MethodsOf[f.kind] = {} \cap MethodsOf[f.kind]
    BY MethodsAre DEF BooleanMethods, EnumMethods, ArrayMethods
  <2>2. QED  BY <2>1, OnlyAllowed, NoneOfNothing
<1>2. QED  BY <1>1 DEF Keeps

(* Without a variable, and with neither optional() nor default().          *)
LEMMA ParsedNeither ==
  ASSUME NEW f, NEW chain, Settings(f, chain), LastCall(chain, Absences) = {}
  PROVE  SafeParse(f, Unset).ok <=> f.kind = "boolean"
<1>1. f.kind \in Kinds /\ ~f.optional /\ ~f.hasDefault
  BY DEF Settings, FieldSet, AbsenceIs
<1>2. SafeParse(f, Unset) = ParseBase(f, Unset)
  BY <1>1 DEF SafeParse
<1>3. \A value : Parsed(value).ok
  BY DEF Parsed
<1>4. \A message : ~Failed(message).ok
  BY DEF Failed
<1>5. CASE f.kind = "boolean"
  <2>1. ParseBase(f, Unset) = Parsed(Boolean(Coerced(f, Unset)))
    BY <1>5 DEF ParseBase
  <2>2. QED  BY <1>2, <1>3, <1>5, <2>1
<1>6. CASE f.kind = "number"
  <2>1. ParseBase(f, Unset) = ParseNumber(f, NaN)
    BY <1>6 DEF ParseBase, Coerced
  <2>2. ParseNumber(f, NaN) = Failed("malformed")
    BY DEF ParseNumber
  <2>3. QED  BY <1>2, <1>4, <1>6, <2>1, <2>2
<1>7. CASE f.kind \in {"string", "enum", "array"}
  <2>1. ParseBase(f, Unset) = Failed("Required")
    BY <1>7 DEF ParseBase
  <2>2. QED  BY <1>2, <1>4, <1>7, <2>1
<1>8. QED  BY <1>1, <1>5, <1>6, <1>7 DEF Kinds

(* Without a variable the later one of optional() and default() decides.   *)
LEMMA ParsedUnset ==
  ASSUME NEW f, NEW chain, Settings(f, chain), NEW m \in LastCall(chain, Absences)
  PROVE  SafeParse(f, Unset) =
           IF m.name = "optional" THEN Parsed(Undefined)
           ELSE IF Keeps(chain, m.arg) THEN Parsed(m.arg) ELSE Failed("malformed")
<1>1. m \in Methods /\ m.name \in Absences /\ Allowed(f.kind, m) /\ f.kind \in Kinds
  BY CallsAllowed DEF Settings, FieldSet
<1>2. IF m.name = "optional" THEN f.optional /\ ~f.hasDefault
      ELSE ~f.optional /\ f.hasDefault /\ f.default = m.arg
  BY DEF Settings, AbsenceIs
<1>3. CASE m.name = "optional"
  BY <1>2, <1>3 DEF SafeParse
<1>4. CASE m.name # "optional"
  <2> DEFINE x == m.arg[2]
  <2>1. m.name = "default"
    BY <1>1, <1>4 DEF Absences
  <2>2. m.arg = <<m.arg[1], x>> /\ m.arg[1] = TypeOfDefault[f.kind]
    BY <1>1, <2>1, ConfigConstants DEF Allowed
  <2>3. SafeParse(f, Unset) = ParseDefault(f) /\ f.default = m.arg
    BY <1>2, <1>4 DEF SafeParse
  <2>4. CASE f.kind = "string"
    <3>1. m.arg = Text(x)
      BY <2>2, <2>4, MethodsAre DEF Text
    <3>2. ParseDefault(f) = ParseString(f, x)
      BY <2>3, <2>4 DEF ParseDefault
    <3>3. Keeps(chain, Text(x)) <=> WithinBounds(f, LengthOf[x]) /\ (f.format => x \in Urls)
      BY <2>4, StringKeeps
    <3> HIDE DEF x
    <3>4. QED  BY <1>4, <2>3, <3>1, <3>2, <3>3 DEF ParseString
  <2>5. CASE f.kind = "number"
    <3>1. m.arg = Number(x)
      BY <2>2, <2>5, MethodsAre DEF Number
    <3>2. ParseDefault(f) = ParseNumber(f, x)
      BY <2>3, <2>5 DEF ParseDefault
    <3>3. Keeps(chain, Number(x)) <=> x # NaN /\ WithinBounds(f, x) /\ (f.format => x % 10 = 0)
      BY <2>5, NumberKeeps
    <3> HIDE DEF x
    <3>4. QED  BY <1>4, <2>3, <3>1, <3>2, <3>3 DEF ParseNumber
  <2>6. CASE f.kind \in {"boolean", "enum", "array"}
    <3>1. ParseDefault(f) = Parsed(m.arg)
      BY <2>3, <2>6 DEF ParseDefault
    <3>2. m.arg[1] # "number"
      BY <2>2, <2>6, MethodsAre
    <3>3. m.arg # Number(NaN)
      BY <3>2 DEF Number
    <3>4. Keeps(chain, m.arg)
      BY <2>6, <3>3, OthersKeep
    <3>5. QED  BY <1>4, <2>3, <3>1, <3>4
  <2>7. QED  BY <1>1, <2>4, <2>5, <2>6 DEF Kinds
<1>5. QED  BY <1>3, <1>4

LEMMA ParsedText ==
  ASSUME NEW f, NEW chain, Settings(f, chain), NEW text \in Texts
  PROVE  LET value == {v \in ReadAs(f.kind, text) : Keeps(chain, v)}
         IN SafeParse(f, text) \in
              IF value = {} THEN {Failed("malformed")} ELSE {Parsed(v) : v \in value}
<1> DEFINE value == {v \in ReadAs(f.kind, text) : Keeps(chain, v)}
           Goal == SafeParse(f, text) \in
                     IF value = {} THEN {Failed("malformed")} ELSE {Parsed(v) : v \in value}
<1>1. text # Unset /\ f.kind \in Kinds
  BY ConfigConstants DEF Settings, FieldSet
<1>2. SafeParse(f, text) = ParseBase(f, text)
  BY <1>1 DEF SafeParse
<1>3. ASSUME NEW v, ReadAs(f.kind, text) = {v},
             SafeParse(f, text) = IF Keeps(chain, v) THEN Parsed(v) ELSE Failed("malformed")
      PROVE  Goal
  BY <1>3
<1>4. ASSUME ReadAs(f.kind, text) = {}, SafeParse(f, text) = Failed("malformed")  PROVE Goal
  BY <1>4
<1> SUFFICES Goal
  OBVIOUS
<1> HIDE DEF Goal
<1>5. CASE f.kind = "string"
  <2>1. ReadAs(f.kind, text) = {Text(text)}
    BY <1>5 DEF ReadAs
  <2>2. ParseBase(f, text) = ParseString(f, text)
    BY <1>1, <1>5 DEF ParseBase
  <2>3. SafeParse(f, text) = IF Keeps(chain, Text(text)) THEN Parsed(Text(text)) ELSE Failed("malformed")
    BY <1>2, <1>5, <2>2, StringKeeps DEF ParseString
  <2>4. QED  BY <1>3, <2>1, <2>3
<1>6. CASE f.kind = "number"
  <2> DEFINE n == NumberOf[text]
  <2>1. ParseBase(f, text) = ParseNumber(f, n)
    BY <1>1, <1>6 DEF ParseBase, Coerced
  <2>2. ReadAs(f.kind, text) = {Number(k) : k \in {n} \ {NaN}}
    BY <1>6 DEF ReadAs
  <2>3. Keeps(chain, Number(n)) <=> n # NaN /\ WithinBounds(f, n) /\ (f.format => n % 10 = 0)
    BY <1>6, NumberKeeps
  <2> HIDE DEF n
  <2>4. SafeParse(f, text) = IF Keeps(chain, Number(n)) THEN Parsed(Number(n)) ELSE Failed("malformed")
    BY <1>2, <2>1, <2>3 DEF ParseNumber
  <2>5. CASE n = NaN
    <3>1. ReadAs(f.kind, text) = {}
      BY <2>2, <2>5
    <3>2. QED  BY <1>4, <2>3, <2>4, <2>5, <3>1
  <2>6. CASE n # NaN
    <3>1. ReadAs(f.kind, text) = {Number(n)}
      BY <2>2, <2>6
    <3>2. QED  BY <1>3, <2>4, <3>1
  <2>7. QED  BY <2>5, <2>6
<1>7. CASE f.kind = "boolean"
  <2>1. ReadAs(f.kind, text) = {Boolean(text # "")}
    BY <1>7 DEF ReadAs
  <2>2. ParseBase(f, text) = Parsed(Boolean(Coerced(f, text)))
    BY <1>7 DEF ParseBase
  <2>3. Coerced(f, text) = (text # "")
    BY <1>1, <1>7, Zenon DEF Coerced
  <2>4. Boolean(text # "") # Number(NaN)
    BY DEF Boolean, Number
  <2>5. Keeps(chain, Boolean(text # ""))
    BY <1>7, <2>4, OthersKeep
  <2>6. SafeParse(f, text) = Parsed(Boolean(text # ""))
    BY <1>2, <2>2, <2>3
  <2>7. QED  BY <1>3, <2>1, <2>5, <2>6
<1>8. CASE f.kind = "enum"
  <2>1. ReadAs(f.kind, text) = {Text(t) : t \in {text} \cap EnumTexts}
    BY <1>8 DEF ReadAs
  <2>2. ParseBase(f, text) = ParseEnum(text)
    BY <1>1, <1>8 DEF ParseBase
  <2>3. CASE text \in EnumTexts
    <3>1. ReadAs(f.kind, text) = {Text(text)}
      BY <2>1, <2>3
    <3>2. Text(text) # Number(NaN)
      BY DEF Text, Number
    <3>3. Keeps(chain, Text(text))
      BY <1>8, <3>2, OthersKeep
    <3>4. SafeParse(f, text) = Parsed(Text(text))
      BY <1>2, <2>2, <2>3 DEF ParseEnum
    <3>5. QED  BY <1>3, <3>1, <3>3, <3>4
  <2>4. CASE text \notin EnumTexts
    <3>1. ReadAs(f.kind, text) = {}
      BY <2>1, <2>4
    <3>2. SafeParse(f, text) = Failed("malformed")
      BY <1>2, <2>2, <2>4 DEF ParseEnum
    <3>3. QED  BY <1>4, <3>1, <3>2
  <2>5. QED  BY <2>3, <2>4
<1>9. CASE f.kind = "array"
  <2>1. ReadAs(f.kind, text) = {}
    BY <1>9 DEF ReadAs
  <2>2. ParseBase(f, text) = Failed("malformed")
    BY <1>1, <1>9 DEF ParseBase
  <2>3. QED  BY <1>2, <1>4, <2>1, <2>2
<1>10. \/ f.kind = "string" \/ f.kind = "number" \/ f.kind = "boolean" \/ f.kind = "enum"
       \/ f.kind = "array"
  BY <1>1 DEF Kinds
<1>11. QED  BY <1>5, <1>6, <1>7, <1>8, <1>9, <1>10

-----------------------------------------------------------------------------
(* The author, and what the environment has.                               *)

AuthorInv ==
  /\ \E tree \in Shapes : shape = tree.keys /\ DOMAIN fields = DOMAIN tree.kinds
  /\ fields \in [DOMAIN fields -> FieldSet] /\ chains \in [DOMAIN fields -> Seq(Methods)]
  /\ \A path \in DOMAIN fields : Settings(fields[path], chains[path])

EnvInv ==
  /\ nodeEnv \in {Unset, "mode"}
  /\ contents \in [Sources -> [DOMAIN contents["os"] -> Texts \cup {Unset}]]
  /\ \A path \in DOMAIN fields : EnvKey(fields[path], path) \in DOMAIN contents["os"]
  /\ \A m \in Methods : m.name = "env" => m.arg \in DOMAIN contents["os"]

LEMMA KindsAre ==
  ASSUME NEW tree \in Shapes
  PROVE  IsTree(tree) /\ \A path \in DOMAIN tree.kinds : tree.kinds[path] \in Kinds
<1>1. DOMAIN MethodsOf = Kinds
  BY DEF MethodsOf, Kinds
<1>2. QED  BY <1>1, ConfigConstants

LEMMA AuthorInit == Init => AuthorInv /\ EnvInv
<1> SUFFICES ASSUME Init  PROVE AuthorInv /\ EnvInv
  OBVIOUS
<1>1. PICK tree \in Shapes : /\ shape = tree.keys
                             /\ fields = [path \in DOMAIN tree.kinds |-> c(tree.kinds[path])]
  BY DEF Init
<1>2. chains = [path \in DOMAIN fields |-> <<>>] /\ DOMAIN fields = DOMAIN tree.kinds
  BY <1>1 DEF Init
<1>3. ASSUME NEW path \in DOMAIN fields
      PROVE  Settings(fields[path], chains[path]) /\ fields[path] \in FieldSet
  BY <1>1, <1>2, KindsAre, NewField DEF Settings
<1>4. AuthorInv
  <2>1. fields \in [DOMAIN fields -> FieldSet]
    BY <1>1, <1>2, <1>3
  <2>2. chains \in [DOMAIN fields -> Seq(Methods)]
    BY <1>2
  <2>3. QED  BY <1>1, <1>2, <1>3, <2>1, <2>2 DEF AuthorInv
<1>5. EnvInv
  <2>1. nodeEnv \in {Unset, "mode"}
        /\ contents = [source \in Sources |-> [key \in Variables |-> Unset]]
    BY DEF Init
  <2>2. contents["os"] = [key \in Variables |-> Unset] /\ DOMAIN contents["os"] = Variables
    BY <2>1 DEF Sources
  <2>3. contents \in [Sources -> [DOMAIN contents["os"] -> Texts \cup {Unset}]]
    BY <2>1, <2>2
  <2>4. \A path \in DOMAIN fields : EnvKey(fields[path], path) \in Variables
    BY DEF Variables
  <2>5. \A m \in Methods : m.name = "env" => m.arg \in Variables
    BY DEF Variables
  <2>6. QED  BY <2>1, <2>2, <2>3, <2>4, <2>5 DEF EnvInv
<1>6. QED  BY <1>4, <1>5

LEMMA CallMethodKeeps ==
  ASSUME AuthorInv, EnvInv, CallMethod  PROVE AuthorInv' /\ EnvInv'
<1>1. PICK path \in DOMAIN fields, m \in Methods :
        /\ IsMethod(fields[path], m)
        /\ fields' = [fields EXCEPT ![path] = Apply(@, m)]
        /\ chains' = [chains EXCEPT ![path] = Append(@, m)]
  BY DEF CallMethod
<1>2. shape' = shape /\ nodeEnv' = nodeEnv /\ contents' = contents
  BY DEF CallMethod
<1>3. /\ fields \in [DOMAIN fields -> FieldSet] /\ chains \in [DOMAIN fields -> Seq(Methods)]
      /\ \A p \in DOMAIN fields : Settings(fields[p], chains[p])
  BY DEF AuthorInv
<1>4. /\ DOMAIN fields' = DOMAIN fields
      /\ fields'[path] = Apply(fields[path], m) /\ chains'[path] = Append(chains[path], m)
      /\ \A p \in DOMAIN fields \ {path} : fields'[p] = fields[p] /\ chains'[p] = chains[p]
  BY <1>1, <1>3
<1>5. ASSUME NEW p \in DOMAIN fields  PROVE Settings(fields'[p], chains'[p])
  <2>1. CASE p = path
    BY <1>1, <1>3, <1>4, <2>1, SettingsStep
  <2>2. CASE p # path
    BY <1>3, <1>4, <2>2
  <2>3. QED  BY <2>1, <2>2
<1>6. AuthorInv'
  <2>1. \A p \in DOMAIN fields : fields'[p] \in FieldSet /\ chains'[p] \in Seq(Methods)
    BY <1>5 DEF Settings
  <2>2. fields' \in [DOMAIN fields -> FieldSet] /\ chains' \in [DOMAIN fields -> Seq(Methods)]
    BY <1>1, <1>3, <2>1
  <2>3. \E tree \in Shapes : shape' = tree.keys /\ DOMAIN fields' = DOMAIN tree.kinds
    BY <1>2, <1>4 DEF AuthorInv
  <2>4. QED  BY <1>4, <1>5, <2>2, <2>3 DEF AuthorInv
<1>7. EnvKey(Apply(fields[path], m), path) \in DOMAIN contents["os"]
  <2>1. IF m.name \in {"env"} THEN Apply(fields[path], m).env = m.arg
        ELSE Apply(fields[path], m).env = fields[path].env
    BY <1>1, <1>3, ApplyFacts
  <2>2. CASE m.name = "env"
    <3>1. m.arg # None /\ m.arg \in DOMAIN contents["os"]
      BY <2>2, ConfigConstants DEF EnvInv
    <3>2. QED  BY <2>1, <2>2, <3>1 DEF EnvKey
  <2>3. CASE m.name # "env"
    <3>1. EnvKey(fields[path], path) \in DOMAIN contents["os"]
      BY DEF EnvInv
    <3>2. QED  BY <2>1, <2>3, <3>1 DEF EnvKey
  <2>4. QED  BY <2>2, <2>3
<1>8. EnvInv'
  <2>1. \A p \in DOMAIN fields : EnvKey(fields'[p], p) \in DOMAIN contents["os"]
    BY <1>4, <1>7 DEF EnvInv
  <2>2. QED  BY <1>2, <1>4, <2>1 DEF EnvInv
<1>9. QED  BY <1>6, <1>8

LEMMA SetVariableKeeps ==
  ASSUME AuthorInv, EnvInv, SetVariable  PROVE AuthorInv' /\ EnvInv'
<1>1. PICK source \in Sources, key \in DOMAIN contents["os"], text \in Texts :
        contents' = [contents EXCEPT ![source][key] = text]
  BY DEF SetVariable
<1>2. shape' = shape /\ fields' = fields /\ chains' = chains /\ nodeEnv' = nodeEnv
  BY DEF SetVariable
<1> DEFINE Env == [DOMAIN contents["os"] -> Texts \cup {Unset}]
<1>3. contents \in [Sources -> Env]
  BY DEF EnvInv
<1>4. [contents[source] EXCEPT ![key] = text] \in Env
  BY <1>3
<1>5. contents' \in [Sources -> Env]
  BY <1>1, <1>3, <1>4
<1>6. DOMAIN (contents'["os"]) = DOMAIN contents["os"]
  <2>1. "os" \in Sources
    BY DEF Sources
  <2>2. QED  BY <1>5, <2>1
<1>7. EnvInv'
  BY <1>2, <1>5, <1>6 DEF EnvInv
<1>8. AuthorInv'
  BY <1>2 DEF AuthorInv
<1>9. QED  BY <1>7, <1>8

LEMMA AuthorSame ==
  ASSUME AuthorInv, EnvInv, UNCHANGED author  PROVE AuthorInv' /\ EnvInv'
BY DEF AuthorInv, EnvInv, author

LEMMA AuthorStep == AuthorInv /\ EnvInv /\ [Next]_vars => AuthorInv' /\ EnvInv'
<1> SUFFICES ASSUME AuthorInv, EnvInv, [Next]_vars  PROVE AuthorInv' /\ EnvInv'
  OBVIOUS
<1>1. CASE CallMethod
  BY <1>1, CallMethodKeeps
<1>2. CASE SetVariable
  BY <1>2, SetVariableKeeps
<1>3. CASE defineConfig \/ ParseField \/ EnterNested \/ LeaveNested \/ Return \/ UNCHANGED vars
  <2>1. UNCHANGED author
    BY <1>3 DEF defineConfig, ParseField, EnterNested, LeaveNested, Return, vars
  <2>2. QED  BY <2>1, AuthorSame
<1>4. QED  BY <1>1, <1>2, <1>3 DEF Next

LEMMA AuthorCorrect == Spec => [](AuthorInv /\ EnvInv)
BY AuthorInit, AuthorStep, PTL DEF Spec

(* FieldIsItsCalls: for any kind, any chain of any methods and any texts.  *)
THEOREM FieldsAreTheirCalls == Spec => []FieldIsItsCalls
<1>1. AuthorInv => FieldIsItsCalls
  <2> SUFFICES ASSUME AuthorInv, NEW path \in DOMAIN fields
               PROVE  LET field == fields[path]
                          chain == chains[path]
                          unset == SafeParse(field, Unset)
                      IN /\ \A m \in LastCall(chain, {"optional", "default"}) :
                              unset = IF m.name = "optional" THEN Parsed(Undefined)
                                      ELSE IF Keeps(chain, m.arg) THEN Parsed(m.arg)
                                      ELSE Failed("malformed")
                         /\ LastCall(chain, {"optional", "default"}) = {} =>
                              (unset.ok <=> field.kind = "boolean")
                         /\ \A text \in Texts :
                              LET value == {v \in ReadAs(field.kind, text) : Keeps(chain, v)}
                              IN SafeParse(field, text) \in
                                   IF value = {} THEN {Failed("malformed")}
                                   ELSE {Parsed(v) : v \in value}
                         /\ field.secret <=> LastCall(chain, {"secret"}) # {}
                         /\ EnvKey(field, path) \in
                              IF LastCall(chain, {"env"}) = {} THEN {FlattenSeq(path)}
                              ELSE {m.arg : m \in LastCall(chain, {"env"})}
    BY DEF FieldIsItsCalls
  <2> DEFINE f == fields[path]
             chain == chains[path]
  <2>1. Settings(f, chain)
    BY DEF AuthorInv
  <2> HIDE DEF f, chain
  <2>2. \A m \in LastCall(chain, {"optional", "default"}) :
          SafeParse(f, Unset) = IF m.name = "optional" THEN Parsed(Undefined)
                                ELSE IF Keeps(chain, m.arg) THEN Parsed(m.arg)
                                ELSE Failed("malformed")
    BY <2>1, ParsedUnset DEF Absences
  <2>3. \A text \in Texts :
          LET value == {v \in ReadAs(f.kind, text) : Keeps(chain, v)}
          IN SafeParse(f, text) \in
               IF value = {} THEN {Failed("malformed")} ELSE {Parsed(v) : v \in value}
    BY <2>1, ParsedText
  <2>4. f.secret <=> LastCall(chain, {"secret"}) # {}
    BY <2>1 DEF Settings
  <2>5. EnvKey(f, path) \in
          IF LastCall(chain, {"env"}) = {} THEN {FlattenSeq(path)}
          ELSE {m.arg : m \in LastCall(chain, {"env"})}
    <3>1. IsSetTo(f.env, chain, {"env"})
      BY <2>1 DEF Settings
    <3>2. CASE LastCall(chain, {"env"}) = {}
      BY <3>1, <3>2 DEF IsSetTo, EnvKey, pathToEnvKey
    <3>3. CASE LastCall(chain, {"env"}) # {}
      <4>1. PICK m \in LastCall(chain, {"env"}) : f.env = m.arg
        BY <3>1, <3>3 DEF IsSetTo
      <4>2. m \in Methods /\ m.name = "env"
        BY <2>1, CallsAllowed
      <4>3. m.arg # None
        BY <4>2, ConfigConstants
      <4>4. EnvKey(f, path) = m.arg
        BY <4>1, <4>3 DEF EnvKey
      <4>5. QED  BY <3>3, <4>4
    <3>4. QED  BY <3>2, <3>3
  <2>6. LastCall(chain, {"optional", "default"}) = {} =>
          (SafeParse(f, Unset).ok <=> f.kind = "boolean")
    BY <2>1, ParsedNeither DEF Absences
  <2>7. QED  BY <2>2, <2>3, <2>4, <2>5, <2>6 DEF f, chain
<1>2. QED  BY <1>1, AuthorCorrect, PTL

-----------------------------------------------------------------------------
(* The paths of a shape.                                                   *)

Nodes == DOMAIN shape \cup DOMAIN fields

IsPath(p) == Len(p) \in Nat /\ DOMAIN p = 1 .. Len(p) /\ p \in Seq(ToSet(p))

(* AuthorInv about the tree, without the constants it comes from.          *)
Rooted ==
  /\ <<>> \in DOMAIN shape /\ DOMAIN shape \cap DOMAIN fields = {}
  /\ \A p \in Nodes : IsPath(p)
  /\ \A p \in DOMAIN shape : Len(shape[p]) \in Nat /\ DOMAIN shape[p] = 1 .. Len(shape[p])
  /\ \A p \in DOMAIN shape : \A i \in DOMAIN shape[p] : Append(p, shape[p][i]) \in Nodes
  /\ \A p \in Nodes : \A n \in 1 .. Len(p) :
       /\ SubSeq(p, 1, n - 1) \in DOMAIN shape
       /\ \E i \in DOMAIN shape[SubSeq(p, 1, n - 1)] : p[n] = shape[SubSeq(p, 1, n - 1)][i]

LEMMA SequenceIsPath ==
  ASSUME NEW p, p \in Seq(ToSet(p))  PROVE IsPath(p)
<1>1. Len(p) \in Nat /\ DOMAIN p = 1 .. Len(p)
  OBVIOUS
<1>2. QED  BY <1>1 DEF IsPath

LEMMA TreeRooted == ASSUME AuthorInv  PROVE Rooted
<1>1. PICK tree \in Shapes : shape = tree.keys /\ DOMAIN fields = DOMAIN tree.kinds
  BY DEF AuthorInv
<1>2. IsTree(tree)
  BY KindsAre
<1>3. \A p \in Nodes : IsPath(p)
  <2>1. \A p \in Nodes : p \in Seq(ToSet(p))
    BY <1>1, <1>2 DEF IsTree, Nodes
  <2>2. QED  BY <2>1, SequenceIsPath
<1>4. \A p \in DOMAIN shape : Len(shape[p]) \in Nat /\ DOMAIN shape[p] = 1 .. Len(shape[p])
  <2>1. \A p \in DOMAIN shape : shape[p] \in Seq(ToSet(shape[p]))
    BY <1>1, <1>2 DEF IsTree
  <2>2. QED  BY <2>1, SequenceIsPath DEF IsPath
<1>5. <<>> \in DOMAIN shape /\ DOMAIN shape \cap DOMAIN fields = {}
  BY <1>1, <1>2 DEF IsTree
<1>6. \A p \in DOMAIN shape : \A i \in DOMAIN shape[p] : Append(p, shape[p][i]) \in Nodes
  BY <1>1, <1>2 DEF IsTree, Nodes
<1>7. \A p \in Nodes : \A n \in 1 .. Len(p) :
        /\ SubSeq(p, 1, n - 1) \in DOMAIN shape
        /\ \E i \in DOMAIN shape[SubSeq(p, 1, n - 1)] : p[n] = shape[SubSeq(p, 1, n - 1)][i]
  <2>1. \A p \in Nodes : \A n \in DOMAIN p : \E i \in DOMAIN shape[SubSeq(p, 1, n - 1)] :
          SubSeq(p, 1, n - 1) \in DOMAIN shape /\ p[n] = shape[SubSeq(p, 1, n - 1)][i]
    BY <1>1, <1>2 DEF IsTree, Nodes
  <2>2. \A p \in Nodes : DOMAIN p = 1 .. Len(p)
    BY <1>3 DEF IsPath
  <2>3. QED  BY <2>1, <2>2
<1>8. QED  BY <1>3, <1>4, <1>5, <1>6, <1>7 DEF Rooted

Under(p, q) == Len(p) < Len(q) /\ \A n \in 1 .. Len(p) : q[n] = p[n]

LEMMA UnderFacts ==
  ASSUME NEW p, IsPath(p), NEW q, IsPath(q), Under(p, q)
  PROVE  SubSeq(q, 1, Len(p)) = p /\ Len(p) + 1 \in 1 .. Len(q)
<1>1. Len(p) \in Nat /\ Len(q) \in Nat /\ Len(p) < Len(q) /\ \A n \in 1 .. Len(p) : q[n] = p[n]
  BY DEF IsPath, Under
<1>2. p \in Seq(ToSet(p)) /\ q \in Seq(ToSet(q))
  BY DEF IsPath
<1>3. \A n \in 1 .. Len(p) : p[n] \in ToSet(q)
  <2>1. \A n \in 1 .. Len(q) : q[n] \in ToSet(q)
    BY <1>2 DEF ToSet
  <2>2. QED  BY <1>1, <2>1
<1>4. p \in Seq(ToSet(q)) 
  BY <1>2, <1>3
<1>5. SubSeq(q, 1, Len(p)) \in Seq(ToSet(q)) /\ Len(SubSeq(q, 1, Len(p))) = Len(p)
      /\ \A n \in 1 .. Len(p) : SubSeq(q, 1, Len(p))[n] = q[n]
  BY <1>1, <1>2
<1>6. QED  BY <1>1, <1>4, <1>5

LEMMA ChildFacts ==
  ASSUME NEW p, IsPath(p), NEW k
  PROVE  LET child == Append(p, k)
         IN /\ Len(child) = Len(p) + 1 /\ child[Len(p) + 1] = k
            /\ \A n \in 1 .. Len(p) : child[n] = p[n]
            /\ Under(p, child) /\ IsPath(child)
<1> DEFINE child == Append(p, k)
           S == ToSet(p) \cup {k}
<1>1. p \in Seq(S) /\ k \in S /\ Len(p) \in Nat
  BY DEF IsPath
<1> HIDE DEF S
<1>2. /\ child \in Seq(S) /\ Len(child) = Len(p) + 1 /\ child[Len(p) + 1] = k
      /\ \A n \in 1 .. Len(p) : child[n] = p[n]
  BY <1>1
<1>3. Len(child) \in Nat /\ DOMAIN child = 1 .. Len(child)
  BY <1>2
<1>4. child \in Seq(ToSet(child))
  <2>1. \A n \in 1 .. Len(child) : child[n] \in ToSet(child)
    BY <1>3 DEF ToSet
  <2>2. QED  BY <1>2, <2>1
<1> HIDE DEF child
<1>5. Len(p) < Len(child)
  BY <1>1, <1>2
<1>6. QED  BY <1>2, <1>3, <1>4, <1>5 DEF Under, IsPath, child

Key(p, i) == shape[p][i]
Child(p, i) == Append(p, Key(p, i))
Beneath(p) == {q \in DOMAIN fields : Under(p, q)}
Through(p, i) == {q \in Beneath(p) : q[Len(p) + 1] = Key(p, i)}
Passed(p, next) == UNION {Through(p, i) : i \in 1 .. next - 1}

(* What lies behind a key is the field, or what the nested shape has.      *)
LEMMA ThroughIs ==
  ASSUME Rooted, NEW p \in DOMAIN shape, NEW i \in DOMAIN shape[p]
  PROVE  /\ Child(p, i) \in DOMAIN fields => Through(p, i) = {Child(p, i)}
         /\ Child(p, i) \in DOMAIN shape => Through(p, i) = Beneath(Child(p, i))
<1> DEFINE child == Child(p, i)
           L == Len(p)
<1>1. IsPath(p) /\ L \in Nat
  BY DEF Rooted, Nodes, IsPath
<1>2. /\ Len(child) = L + 1 /\ child[L + 1] = Key(p, i) /\ \A n \in 1 .. L : child[n] = p[n]
      /\ Under(p, child) /\ IsPath(child)
  BY <1>1, ChildFacts DEF Child
<1> HIDE DEF child, L
<1>3. \A q \in DOMAIN fields : IsPath(q) /\ Len(q) \in Nat
  BY DEF Rooted, Nodes, IsPath
<1>4. ASSUME NEW q \in Through(p, i)  PROVE q = child \/ Under(child, q)
  <2>1. q \in DOMAIN fields /\ Under(p, q) /\ q[L + 1] = Key(p, i)
    BY DEF Through, Beneath, L
  <2>2. \A n \in 1 .. L + 1 : q[n] = child[n]
    <3>1. \A n \in 1 .. L + 1 : n \in 1 .. L \/ n = L + 1
      BY <1>1
    <3>2. QED  BY <1>2, <2>1, <3>1 DEF Under, L
  <2>3. CASE Len(q) = L + 1
    <3>1. q \in Seq(ToSet(q)) /\ child \in Seq(ToSet(child)) /\ Len(q) = Len(child)
      BY <1>2, <1>3, <2>1, <2>3 DEF IsPath
    <3>2. \A n \in 1 .. Len(q) : q[n] = child[n]
      BY <2>2, <2>3
    <3>3. DOMAIN q = 1 .. Len(q) /\ DOMAIN child = 1 .. Len(q)
      BY <1>2, <1>3, <2>1, <3>1 DEF IsPath
    <3>4. q = child
      BY <3>1, <3>2, <3>3
    <3>5. QED  BY <3>4
  <2>4. CASE Len(q) # L + 1
    <3>1. L + 1 < Len(q)
      BY <1>1, <1>3, <2>1, <2>4 DEF Under, L
    <3>2. QED  BY <1>2, <2>2, <3>1 DEF Under
  <2>5. QED  BY <2>3, <2>4
<1>5. ASSUME NEW q \in DOMAIN fields, Under(child, q)
      PROVE  q \in Through(p, i) /\ child \in DOMAIN shape
  <2>1. Under(p, q) /\ q[L + 1] = Key(p, i)
    BY <1>1, <1>2, <1>3, <1>5 DEF Under, L
  <2>2. SubSeq(q, 1, L + 1) = child /\ L + 2 \in 1 .. Len(q) /\ (L + 2) - 1 = L + 1
    <3>1. SubSeq(q, 1, Len(child)) = child /\ Len(child) + 1 \in 1 .. Len(q)
      BY <1>2, <1>3, <1>5, UnderFacts
    <3>2. QED  BY <1>1, <1>2, <3>1
  <2>3. child \in DOMAIN shape
    BY <2>2 DEF Rooted, Nodes
  <2>4. QED  BY <2>1, <2>3 DEF Through, Beneath, L
<1>6. CASE child \in DOMAIN fields
  <2>1. child \notin DOMAIN shape
    BY <1>6 DEF Rooted
  <2>2. child \in Through(p, i)
    BY <1>2, <1>6 DEF Through, Beneath, L
  <2>3. \A q \in Through(p, i) : q \in DOMAIN fields
    BY DEF Through, Beneath
  <2>4. QED  BY <1>4, <1>5, <2>1, <2>2, <2>3 DEF child
<1>7. CASE child \in DOMAIN shape
  <2>1. child \notin DOMAIN fields
    BY <1>7 DEF Rooted
  <2>2. \A q \in Through(p, i) : q \in DOMAIN fields
    BY DEF Through, Beneath
  <2>3. Through(p, i) = Beneath(child)
    BY <1>4, <1>5, <2>1, <2>2 DEF Beneath
  <2>4. QED  BY <2>1, <2>3 DEF child
<1>8. QED  BY <1>6, <1>7 DEF child

LEMMA PassedFacts ==
  ASSUME Rooted, NEW p \in DOMAIN shape
  PROVE  /\ Passed(p, 1) = {}
         /\ \A i \in DOMAIN shape[p] : Passed(p, i + 1) = Passed(p, i) \cup Through(p, i)
         /\ Passed(p, Len(shape[p]) + 1) = Beneath(p)
<1>1. Passed(p, 1) = {}
  BY DEF Passed
<1>2. Len(shape[p]) \in Nat /\ DOMAIN shape[p] = 1 .. Len(shape[p]) /\ IsPath(p)
  BY DEF Rooted, Nodes
<1>3. ASSUME NEW i \in DOMAIN shape[p]
      PROVE  Passed(p, i + 1) = Passed(p, i) \cup Through(p, i)
  <2>1. 1 .. (i + 1) - 1 = (1 .. i - 1) \cup {i}
    BY <1>2
  <2>2. QED  BY <2>1 DEF Passed
<1>4. Passed(p, Len(shape[p]) + 1) = Beneath(p)
  <2>1. 1 .. (Len(shape[p]) + 1) - 1 = DOMAIN shape[p]
    BY <1>2
  <2>2. ASSUME NEW q \in Beneath(p)  PROVE \E i \in DOMAIN shape[p] : q \in Through(p, i)
    <3>1. q \in DOMAIN fields /\ Under(p, q) /\ IsPath(q)
      BY DEF Beneath, Rooted, Nodes
    <3>2. SubSeq(q, 1, Len(p)) = p /\ Len(p) + 1 \in 1 .. Len(q) /\ (Len(p) + 1) - 1 = Len(p)
      <4>1. Len(p) \in Nat
        BY <1>2 DEF IsPath
      <4>2. QED  BY <1>2, <3>1, <4>1, UnderFacts
    <3>3. \E i \in DOMAIN shape[p] : q[Len(p) + 1] = shape[p][i]
      <4>1. \A n \in 1 .. Len(q) : \E i \in DOMAIN shape[SubSeq(q, 1, n - 1)] :
              q[n] = shape[SubSeq(q, 1, n - 1)][i]
        BY <3>1 DEF Rooted, Nodes
      <4>2. \E i \in DOMAIN shape[SubSeq(q, 1, (Len(p) + 1) - 1)] :
              q[Len(p) + 1] = shape[SubSeq(q, 1, (Len(p) + 1) - 1)][i]
        BY <3>2, <4>1
      <4>3. QED  BY <3>2, <4>2
    <3>4. QED  BY <3>3 DEF Through, Key
  <2>3. \A i : Through(p, i) \subseteq Beneath(p)
    BY DEF Through
  <2>4. QED  BY <2>1, <2>2, <2>3 DEF Passed
<1>5. QED  BY <1>1, <1>3, <1>4

LEMMA BeneathRoot == ASSUME Rooted  PROVE Beneath(<<>>) = DOMAIN fields
<1>1. ASSUME NEW q \in DOMAIN fields  PROVE Under(<<>>, q)
  <2>1. IsPath(q) /\ q # <<>>
    BY DEF Rooted, Nodes
  <2>2. Len(q) # 0
    BY <2>1 DEF IsPath
  <2>3. QED  BY <2>1, <2>2 DEF Under, IsPath
<1>2. QED  BY <1>1 DEF Beneath

(* What was passed stands before what comes next.                          *)
LEMMA PassedPrecedes ==
  ASSUME Rooted, NEW p \in DOMAIN shape, NEW i \in DOMAIN shape[p],
         NEW q \in Passed(p, i), NEW r \in Through(p, i)
  PROVE  Precedes(q, r)
<1>1. PICK h \in 1 .. i - 1 : q \in Through(p, h)
  BY DEF Passed
<1>2. /\ q \in DOMAIN fields /\ Under(p, q) /\ q[Len(p) + 1] = shape[p][h]
      /\ r \in DOMAIN fields /\ Under(p, r) /\ r[Len(p) + 1] = shape[p][i]
  BY <1>1 DEF Through, Beneath, Key
<1>3. IsPath(p) /\ IsPath(q) /\ IsPath(r) /\ DOMAIN shape[p] = 1 .. Len(shape[p])
      /\ Len(shape[p]) \in Nat
  BY <1>2 DEF Rooted, Nodes
<1>4. h \in DOMAIN shape[p] /\ h < i
  BY <1>1, <1>3
<1>5. SubSeq(q, 1, Len(p)) = p /\ Len(p) + 1 \in DOMAIN q /\ Len(p) + 1 \in DOMAIN r
  BY <1>2, <1>3, UnderFacts DEF IsPath
<1>6. \A m \in 1 .. Len(p) : q[m] = r[m]
  BY <1>2 DEF Under
<1>7. (Len(p) + 1) - 1 = Len(p)
  BY <1>3 DEF IsPath
<1>8. QED  BY <1>2, <1>4, <1>5, <1>6, <1>7 DEF Precedes

-----------------------------------------------------------------------------
(* The walk.  Each open call accounts for the keys that it has passed, and *)
(* is at the key of the call that it has opened.                           *)

ParsedAt(path) == SafeParse(fields[path], rawEnv[EnvKey(fields[path], path)])
ValueAt(path) == [path |-> path, value |-> ParsedAt(path).value, wrapped |-> fields[path].secret]
ErrorAt(path) == [path |-> path, envKey |-> EnvKey(fields[path], path),
                  message |-> Message(fields[path], ParsedAt(path).problem)]
ValueSet == {ValueAt(path) : path \in {path \in DOMAIN fields : Good(path)}}
ErrorSet == {ErrorAt(path) : path \in {path \in DOMAIN fields : ~Good(path)}}
FrameSet == [path : DOMAIN shape, next : Nat, errors : Seq(ErrorSet), values : SUBSET ValueSet]

Accounts(errors, values, paths) ==
  /\ {e.path : e \in ToSet(errors)} = {q \in paths : ~Good(q)}
  /\ \A i, j \in DOMAIN errors : i < j => Precedes(errors[i].path, errors[j].path)
  /\ errors = <<>> => {v.path : v \in values} = paths

FrameOK(f) ==
  /\ f \in FrameSet /\ f.next \in 1 .. Len(shape[f.path]) + 1
  /\ Accounts(f.errors, f.values, Passed(f.path, f.next))

Opened(outer, inner) ==
  outer.next \in DOMAIN shape[outer.path] /\ inner.path = Child(outer.path, outer.next)

Walking(fs) ==
  /\ fs \in Seq(FrameSet)
  /\ \A k \in 1 .. Len(fs) : FrameOK(fs[k])
  /\ fs # <<>> => fs[1].path = <<>>
  /\ \A k \in 1 .. Len(fs) - 1 : Opened(fs[k], fs[k + 1])

Walked(c1) ==
  /\ c1.errors \in Seq(ErrorSet) /\ c1.values \subseteq ValueSet
  /\ Accounts(c1.errors, c1.values, DOMAIN fields)

WalkInv ==
  /\ frames # <<>> \/ config # None => rawEnv = loadEnv(nodeEnv, contents)
  /\ Walking(frames)
  /\ config # None => Walked(config)

LEMMA JoinFacts ==
  ASSUME NEW S, NEW s \in Seq(S), NEW t \in Seq(S)
  PROVE  /\ s \o t \in Seq(S) /\ ToSet(s \o t) = ToSet(s) \cup ToSet(t)
         /\ \A k \in DOMAIN (s \o t) :
              \/ k \in DOMAIN s /\ (s \o t)[k] = s[k]
              \/ k - Len(s) \in DOMAIN t /\ (s \o t)[k] = t[k - Len(s)] /\ Len(s) < k
         /\ DOMAIN s = 1 .. Len(s) /\ DOMAIN t = 1 .. Len(t) /\ DOMAIN (s \o t) \subseteq Nat
         /\ Len(s) \in Nat /\ Len(t) \in Nat
         /\ s \o t = <<>> <=> s = <<>> /\ t = <<>>
<1> DEFINE u == s \o t
           L == Len(s)
<1>1. L \in Nat /\ Len(t) \in Nat /\ u \in Seq(S) /\ Len(u) = L + Len(t)
  OBVIOUS
<1>2. DOMAIN s = 1 .. L /\ DOMAIN t = 1 .. Len(t) /\ DOMAIN u = 1 .. L + Len(t)
  BY <1>1
<1>3. \A k \in 1 .. L : u[k] = s[k]
  OBVIOUS
<1>4. \A k \in 1 .. Len(t) : u[L + k] = t[k]
  OBVIOUS
<1>5. \A k \in 1 .. L + Len(t) : k \in 1 .. L \/ (k - L \in 1 .. Len(t) /\ L + (k - L) = k /\ L < k)
  BY <1>1
<1>6. \A k \in 1 .. Len(t) : L + k \in 1 .. L + Len(t)
  BY <1>1
<1>7. \A k \in 1 .. L : k \in 1 .. L + Len(t)
  BY <1>1
<1>8. u = <<>> <=> s = <<>> /\ t = <<>>
  BY <1>1
<1> HIDE DEF u, L
<1>9. ToSet(u) = ToSet(s) \cup ToSet(t)
  <2>1. ASSUME NEW x \in ToSet(u)  PROVE x \in ToSet(s) \cup ToSet(t)
    BY <1>2, <1>3, <1>4, <1>5 DEF ToSet
  <2>2. ASSUME NEW x \in ToSet(s)  PROVE x \in ToSet(u)
    BY <1>2, <1>3, <1>7 DEF ToSet
  <2>3. ASSUME NEW x \in ToSet(t)  PROVE x \in ToSet(u)
    BY <1>2, <1>4, <1>6 DEF ToSet
  <2>4. QED  BY <2>1, <2>2, <2>3
<1>10. \A k \in DOMAIN u : \/ k \in DOMAIN s /\ u[k] = s[k]
                           \/ k - L \in DOMAIN t /\ u[k] = t[k - L] /\ L < k
  <2>1. ASSUME NEW k \in DOMAIN u
        PROVE  \/ k \in DOMAIN s /\ u[k] = s[k]
               \/ k - L \in DOMAIN t /\ u[k] = t[k - L] /\ L < k
    <3>1. CASE k \in 1 .. L
      BY <1>2, <1>3, <3>1
    <3>2. CASE k - L \in 1 .. Len(t) /\ L + (k - L) = k /\ L < k
      <4>1. u[L + (k - L)] = t[k - L]
        BY <1>4, <3>2
      <4>2. QED  BY <1>2, <3>2, <4>1
    <3>3. QED  BY <1>2, <1>5, <2>1, <3>1, <3>2
  <2>2. QED  BY <2>1
<1>11. DOMAIN u \subseteq Nat
  BY <1>1, <1>2
<1>12. QED  BY <1>1, <1>2, <1>8, <1>9, <1>10, <1>11 DEF u, L

(* Two accounts in a row are an account of both.                           *)
LEMMA AccountsJoin ==
  ASSUME NEW e1 \in Seq(ErrorSet), NEW e2 \in Seq(ErrorSet), NEW v1, NEW v2, NEW v,
         NEW P, NEW Q, Accounts(e1, v1, P), Accounts(e2, v2, Q),
         \A p \in P, q \in Q : Precedes(p, q),
         e1 = <<>> /\ e2 = <<>> => v = v1 \cup v2
  PROVE  Accounts(e1 \o e2, v, P \cup Q)
<1> DEFINE e == e1 \o e2
<1>1. /\ ToSet(e) = ToSet(e1) \cup ToSet(e2)
      /\ \A k \in DOMAIN e : \/ k \in DOMAIN e1 /\ e[k] = e1[k]
                             \/ /\ k - Len(e1) \in DOMAIN e2 /\ e[k] = e2[k - Len(e1)]
                                /\ Len(e1) < k
      /\ DOMAIN e1 = 1 .. Len(e1) /\ DOMAIN e2 = 1 .. Len(e2) /\ DOMAIN e \subseteq Nat
      /\ Len(e1) \in Nat /\ Len(e2) \in Nat
      /\ e = <<>> <=> e1 = <<>> /\ e2 = <<>>
  BY JoinFacts
<1> HIDE DEF e
<1>2. /\ {x.path : x \in ToSet(e1)} = {q \in P : ~Good(q)}
      /\ {x.path : x \in ToSet(e2)} = {q \in Q : ~Good(q)}
  BY DEF Accounts
<1>3. {x.path : x \in ToSet(e)} = {q \in P \cup Q : ~Good(q)}
  <2>1. {x.path : x \in ToSet(e)} = {x.path : x \in ToSet(e1)} \cup {x.path : x \in ToSet(e2)}
    BY <1>1
  <2>2. {q \in P \cup Q : ~Good(q)} = {q \in P : ~Good(q)} \cup {q \in Q : ~Good(q)}
    OBVIOUS
  <2>3. QED  BY <1>2, <2>1, <2>2
<1>4. /\ \A i \in DOMAIN e1 : e1[i].path \in P
      /\ \A i \in DOMAIN e2 : e2[i].path \in Q
  <2>1. \A i \in DOMAIN e1 : e1[i].path \in {x.path : x \in ToSet(e1)}
    BY DEF ToSet
  <2>2. \A i \in DOMAIN e2 : e2[i].path \in {x.path : x \in ToSet(e2)}
    BY DEF ToSet
  <2>3. QED  BY <1>2, <2>1, <2>2
<1>5. ASSUME NEW i \in DOMAIN e, NEW j \in DOMAIN e, i < j
      PROVE  Precedes(e[i].path, e[j].path)
  <2> DEFINE L == Len(e1)
  <2>1. CASE i \in DOMAIN e1 /\ e[i] = e1[i] /\ j \in DOMAIN e1 /\ e[j] = e1[j]
    BY <1>5, <2>1 DEF Accounts
  <2>2. CASE i \in DOMAIN e1 /\ e[i] = e1[i] /\ j - L \in DOMAIN e2 /\ e[j] = e2[j - L]
    BY <1>4, <2>2
  <2>3. CASE /\ i - L \in DOMAIN e2 /\ e[i] = e2[i - L] /\ L < i
             /\ j - L \in DOMAIN e2 /\ e[j] = e2[j - L]
    <3>1. i - L < j - L
      BY <1>1, <1>5
    <3>2. QED  BY <2>3, <3>1 DEF Accounts
  <2>4. ~(i \notin DOMAIN e1 /\ j \in DOMAIN e1)
    <3>1. j \in DOMAIN e1 => i \in DOMAIN e1
      <4>1. i \in Nat /\ j \in Nat /\ i \notin DOMAIN e1 => L < i
        BY <1>1
      <4>2. QED  BY <1>1, <1>5, <4>1
    <3>2. QED  BY <3>1
  <2>5. QED  BY <1>1, <2>1, <2>2, <2>3, <2>4
<1>6. e = <<>> => {x.path : x \in v} = P \cup Q
  <2>1. SUFFICES ASSUME e = <<>>  PROVE {x.path : x \in v} = P \cup Q
    OBVIOUS
  <2>2. {x.path : x \in v1} = P /\ {x.path : x \in v2} = Q /\ v = v1 \cup v2
    BY <1>1, <2>1 DEF Accounts
  <2>3. QED  BY <2>2
<1>7. Accounts(e, v, P \cup Q)
  BY <1>3, <1>5, <1>6 DEF Accounts
<1>8. QED  BY <1>7 DEF e

LEMMA AccountsOne ==
  ASSUME NEW q \in DOMAIN fields
  PROVE  /\ Good(q) => Accounts(<<>>, {ValueAt(q)}, {q})
         /\ ~Good(q) => Accounts(<<ErrorAt(q)>>, {}, {q})
<1>1. ASSUME Good(q)  PROVE Accounts(<<>>, {ValueAt(q)}, {q})
  <2>1. ToSet(<<>>) = {}
    BY DEF ToSet
  <2>2. {x.path : x \in {ValueAt(q)}} = {q}
    BY DEF ValueAt
  <2>3. QED  BY <1>1, <2>1, <2>2 DEF Accounts
<1>2. ASSUME ~Good(q)  PROVE Accounts(<<ErrorAt(q)>>, {}, {q})
  <2> DEFINE x == ErrorAt(q)
  <2>1. x.path = q
    BY DEF ErrorAt
  <2> HIDE DEF x
  <2>2. ToSet(<<x>>) = {x} /\ DOMAIN <<x>> = {1} /\ <<x>> # <<>>
    BY DEF ToSet
  <2>3. Accounts(<<x>>, {}, {q})
    BY <1>2, <2>1, <2>2 DEF Accounts
  <2>4. QED  BY <2>3 DEF x
<1>3. QED  BY <1>1, <1>2

(* What a call of validateShape comes to with the next key, be it a field  *)
(* or what a nested call came to.                                          *)
LEMMA NextKey ==
  ASSUME Rooted, NEW f, FrameOK(f), f.next \in DOMAIN shape[f.path],
         NEW e \in Seq(ErrorSet), NEW v, Accounts(e, v, Through(f.path, f.next)),
         NEW g \in FrameSet, g.path = f.path, g.next = f.next + 1,
         g.errors = f.errors \o e,
         f.errors = <<>> /\ e = <<>> => g.values = f.values \cup v
  PROVE  FrameOK(g)
<1> DEFINE p == f.path
           i == f.next
<1>1. p \in DOMAIN shape /\ f.errors \in Seq(ErrorSet) /\ i \in Nat
  BY DEF FrameOK, FrameSet
<1>2. Accounts(f.errors, f.values, Passed(p, i))
  BY DEF FrameOK
<1>3. \A q \in Passed(p, i), r \in Through(p, i) : Precedes(q, r)
  BY <1>1, PassedPrecedes
<1>4. Passed(p, i + 1) = Passed(p, i) \cup Through(p, i)
  BY <1>1, PassedFacts
<1>5. Accounts(g.errors, g.values, Passed(p, i + 1))
  <2> HIDE DEF p, i
  <2> DEFINE P == Passed(p, i)
             Q == Through(p, i)
             w == g.values
             d == f.errors
             u == f.values
  <2>1. Accounts(d, u, P) /\ Accounts(e, v, Q) /\ d \in Seq(ErrorSet)
    BY <1>1, <1>2 DEF p, i
  <2>2. d = <<>> /\ e = <<>> => w = u \cup v
    OBVIOUS
  <2>3. \A q \in P, r \in Q : Precedes(q, r)
    BY <1>3
  <2>4. g.errors = d \o e /\ Passed(p, i + 1) = P \cup Q
    BY <1>4
  <2> HIDE DEF P, Q, w, d, u
  <2>5. Accounts(d \o e, w, P \cup Q)
    BY <2>1, <2>2, <2>3, AccountsJoin
  <2>6. QED  BY <2>4, <2>5 DEF w
<1>6. i + 1 \in 1 .. Len(shape[p]) + 1
  <2>1. DOMAIN shape[p] = 1 .. Len(shape[p]) /\ Len(shape[p]) \in Nat
    BY <1>1 DEF Rooted
  <2>2. QED  BY <2>1
<1>7. QED  BY <1>5, <1>6 DEF FrameOK

WithValues(f, v) == [f EXCEPT !.next = @ + 1, !.values = v]
WithErrors(f, e) == [f EXCEPT !.next = @ + 1, !.errors = e]

LEMMA ValuesUpdated ==
  ASSUME NEW f \in FrameSet, NEW v \in SUBSET ValueSet
  PROVE  /\ WithValues(f, v) \in FrameSet /\ WithValues(f, v).path = f.path
         /\ WithValues(f, v).next = f.next + 1 /\ WithValues(f, v).errors = f.errors
         /\ WithValues(f, v).values = v
<1>1. f.next + 1 \in Nat
  BY DEF FrameSet
<1>2. QED  BY <1>1 DEF FrameSet, WithValues

LEMMA ErrorsUpdated ==
  ASSUME NEW f \in FrameSet, NEW e \in Seq(ErrorSet)
  PROVE  /\ WithErrors(f, e) \in FrameSet /\ WithErrors(f, e).path = f.path
         /\ WithErrors(f, e).next = f.next + 1 /\ WithErrors(f, e).errors = e
<1>1. f.next + 1 \in Nat
  BY DEF FrameSet
<1>2. QED  BY <1>1 DEF FrameSet, WithErrors

LEMMA AddFieldOK ==
  ASSUME Rooted, NEW f, FrameOK(f), f.next \in DOMAIN shape[f.path],
         NEW q, q = Child(f.path, f.next), q \in DOMAIN fields
  PROVE  FrameOK(AddField(f, fields[q], q)) /\ AddField(f, fields[q], q).path = f.path
<1> DEFINE g == AddField(f, fields[q], q)
<1>1. f \in FrameSet /\ f.path \in DOMAIN shape /\ f.errors \in Seq(ErrorSet) /\ f.next \in Nat
      /\ f.values \subseteq ValueSet
  BY DEF FrameOK, FrameSet
<1>2. Through(f.path, f.next) = {q}
  BY <1>1, ThroughIs
<1>3. CASE Good(q)
  <2>1. g = WithValues(f, f.values \cup {ValueAt(q)})
    BY <1>3 DEF AddField, Good, ValueAt, ParsedAt, WithValues
  <2>2. ValueAt(q) \in ValueSet
    BY <1>3 DEF ValueSet
  <2> HIDE DEF g
  <2>3. /\ g.path = f.path /\ g.next = f.next + 1 /\ g.errors = f.errors
        /\ g.values = f.values \cup {ValueAt(q)} /\ g \in FrameSet
    <3>1. f.values \cup {ValueAt(q)} \in SUBSET ValueSet
      BY <1>1, <2>2
    <3>2. QED  BY <1>1, <2>1, <3>1, ValuesUpdated
  <2>4. Accounts(<<>>, {ValueAt(q)}, {q})
    BY <1>3, AccountsOne
  <2>5. f.errors = f.errors \o <<>> /\ <<>> \in Seq(ErrorSet)
    BY <1>1
  <2>6. g.errors = f.errors \o <<>>
    BY <2>3, <2>5
  <2>7. FrameOK(g)
    BY <1>2, <2>3, <2>4, <2>5, <2>6, NextKey
  <2>8. QED  BY <2>3, <2>7 DEF g
<1>4. CASE ~Good(q)
  <2>1. g = WithErrors(f, Append(f.errors, ErrorAt(q)))
    BY <1>4 DEF AddField, Good, ErrorAt, ParsedAt, WithErrors
  <2>2. ErrorAt(q) \in ErrorSet
    BY <1>4 DEF ErrorSet
  <2> HIDE DEF g
  <2> DEFINE x == ErrorAt(q)
  <2> HIDE DEF x
  <2>3. Append(f.errors, x) = f.errors \o <<x>> /\ <<x>> \in Seq(ErrorSet)
        /\ Append(f.errors, x) \in Seq(ErrorSet) /\ <<x>> # <<>>
    BY <1>1, <2>2 DEF x
  <2>4. /\ g.path = f.path /\ g.next = f.next + 1 /\ g.errors = f.errors \o <<x>>
        /\ g \in FrameSet
    <3> DEFINE e == f.errors \o <<x>>
    <3>1. e \in Seq(ErrorSet) /\ g = WithErrors(f, e)
      BY <2>1, <2>3 DEF x
    <3> HIDE DEF e
    <3>2. g \in FrameSet /\ g.path = f.path /\ g.next = f.next + 1 /\ g.errors = e
      BY <1>1, <3>1, ErrorsUpdated
    <3>3. QED  BY <3>2 DEF e
  <2>5. Accounts(<<x>>, {}, {q})
    BY <1>4, AccountsOne DEF x
  <2>6. FrameOK(g)
    BY <1>2, <2>3, <2>4, <2>5, NextKey
  <2>7. QED  BY <2>4, <2>6 DEF g
<1>5. QED  BY <1>3, <1>4

LEMMA AddNestedOK ==
  ASSUME Rooted, NEW f, FrameOK(f), NEW n, FrameOK(n), Opened(f, n),
         n.next \notin DOMAIN shape[n.path]
  PROVE  FrameOK(AddNested(f, n)) /\ AddNested(f, n).path = f.path
<1> DEFINE g == AddNested(f, n)
<1>1. /\ f \in FrameSet /\ f.path \in DOMAIN shape /\ f.errors \in Seq(ErrorSet) /\ f.next \in Nat
      /\ f.values \subseteq ValueSet
      /\ n \in FrameSet /\ n.path \in DOMAIN shape /\ n.errors \in Seq(ErrorSet)
      /\ n.values \subseteq ValueSet
  BY DEF FrameOK, FrameSet
<1>2. f.next \in DOMAIN shape[f.path] /\ n.path = Child(f.path, f.next)
  BY DEF Opened
<1>3. Through(f.path, f.next) = Beneath(n.path)
  BY <1>1, <1>2, ThroughIs
<1>4. n.next = Len(shape[n.path]) + 1
  <2>1. DOMAIN shape[n.path] = 1 .. Len(shape[n.path]) /\ Len(shape[n.path]) \in Nat
    BY <1>1 DEF Rooted
  <2>2. n.next \in 1 .. Len(shape[n.path]) + 1
    BY DEF FrameOK
  <2>3. QED  BY <2>1, <2>2
<1>5. Accounts(n.errors, n.values, Through(f.path, f.next))
  BY <1>1, <1>3, <1>4, PassedFacts DEF FrameOK
<1>6. g.path = f.path /\ g.next = f.next + 1 /\ g \in FrameSet /\ g.errors = f.errors \o n.errors
      /\ (f.errors = <<>> /\ n.errors = <<>> => g.values = f.values \cup n.values)
  <2>1. f.errors \o n.errors \in Seq(ErrorSet) /\ f.values \cup n.values \in SUBSET ValueSet
    BY <1>1
  <2>2. CASE n.errors = <<>>
    <3>1. g = WithValues(f, f.values \cup n.values)
      BY <2>2 DEF AddNested, WithValues
    <3>2. f.errors \o n.errors = f.errors
      BY <1>1, <2>2
    <3> HIDE DEF g
    <3>3. QED  BY <1>1, <2>1, <3>1, <3>2, ValuesUpdated
  <2>3. CASE n.errors # <<>>
    <3>1. g = WithErrors(f, f.errors \o n.errors)
      BY <2>3 DEF AddNested, WithErrors
    <3> HIDE DEF g
    <3> DEFINE e == f.errors \o n.errors
    <3>2. e \in Seq(ErrorSet) /\ g = WithErrors(f, e)
      BY <2>1, <3>1
    <3>3. f.errors = <<>> /\ n.errors = <<>> => FALSE
      BY <2>3
    <3> HIDE DEF e
    <3>4. g \in FrameSet /\ g.path = f.path /\ g.next = f.next + 1 /\ g.errors = e
      BY <1>1, <3>2, ErrorsUpdated
    <3>5. QED  BY <3>3, <3>4 DEF e
  <2>4. QED  BY <2>2, <2>3
<1> HIDE DEF g
<1>7. FrameOK(g)
  BY <1>1, <1>2, <1>5, <1>6, NextKey
<1>8. QED  BY <1>6, <1>7 DEF g

LEMMA NewFrameOK ==
  ASSUME Rooted, NEW p \in DOMAIN shape  PROVE FrameOK(Frame(p)) /\ Frame(p).path = p
<1>1. Frame(p) = [path |-> p, next |-> 1, errors |-> <<>>, values |-> {}]
  BY DEF Frame
<1>2. Frame(p) \in FrameSet
  BY <1>1 DEF FrameSet
<1>3. 1 \in 1 .. Len(shape[p]) + 1
  BY DEF Rooted
<1>4. Accounts(<<>>, {}, {})
  BY DEF Accounts, ToSet
<1>5. Passed(p, 1) = {}
  BY PassedFacts
<1>6. /\ Frame(p).path = p /\ Frame(p).next = 1 /\ Frame(p).errors = <<>>
      /\ Frame(p).values = {}
  BY <1>1
<1>7. QED  BY <1>2, <1>3, <1>4, <1>5, <1>6 DEF FrameOK

-----------------------------------------------------------------------------
(* The stack of open calls.                                                *)

LEMMA WalkingFacts ==
  ASSUME NEW fs, Walking(fs), fs # <<>>
  PROVE  /\ Len(fs) \in Nat \ {0} /\ Len(fs) \in 1 .. Len(fs) /\ 1 \in 1 .. Len(fs)
         /\ DOMAIN fs = 1 .. Len(fs)
         /\ FrameOK(fs[Len(fs)]) /\ fs[Len(fs)] \in FrameSet
         /\ fs[Len(fs)].path \in DOMAIN shape
<1>1. fs \in Seq(FrameSet)
  BY DEF Walking
<1>2. Len(fs) \in Nat \ {0} /\ DOMAIN fs = 1 .. Len(fs)
  BY <1>1
<1>3. Len(fs) \in 1 .. Len(fs) /\ 1 \in 1 .. Len(fs)
  BY <1>2
<1>4. FrameOK(fs[Len(fs)]) /\ fs[Len(fs)] \in FrameSet
  BY <1>1, <1>3 DEF Walking, FrameOK
<1>5. QED  BY <1>2, <1>3, <1>4 DEF FrameSet

LEMMA TopReplaced ==
  ASSUME NEW fs, Walking(fs), fs # <<>>, NEW g, FrameOK(g), g.path = fs[Len(fs)].path
  PROVE  Walking([fs EXCEPT ![Len(fs)] = g])
<1> DEFINE gs == [fs EXCEPT ![Len(fs)] = g]
           L == Len(fs)
<1>1. fs \in Seq(FrameSet) /\ L \in Nat \ {0} /\ L \in 1 .. L /\ DOMAIN fs = 1 .. L
  BY WalkingFacts DEF Walking
<1>2. g \in FrameSet
  BY DEF FrameOK
<1>3. gs \in Seq(FrameSet) /\ Len(gs) = L /\ gs[L] = g
      /\ \A k \in 1 .. L : k # L => gs[k] = fs[k]
  <2> HIDE DEF L
  <2>1. fs \in [1 .. L -> FrameSet]
    BY <1>1 DEF L
  <2>2. gs = [fs EXCEPT ![L] = g]
    BY DEF L
  <2> HIDE DEF gs
  <2>3. gs \in [1 .. L -> FrameSet] /\ gs[L] = g /\ \A k \in 1 .. L : k # L => gs[k] = fs[k]
    BY <1>1, <1>2, <2>1, <2>2
  <2>4. gs \in Seq(FrameSet) /\ Len(gs) = L
    BY <1>1, <2>3
  <2>5. QED  BY <2>3, <2>4
<1> HIDE DEF gs, L
<1>4. \A k \in 1 .. L : gs[k].path = fs[k].path
  BY <1>3 DEF L
<1>5. \A k \in 1 .. L : FrameOK(gs[k])
  BY <1>3 DEF Walking, L
<1>6. \A k \in 1 .. L - 1 : Opened(gs[k], gs[k + 1])
  <2>1. \A k \in 1 .. L - 1 : k \in 1 .. L /\ k + 1 \in 1 .. L /\ k # L
    BY <1>1
  <2>2. \A k \in 1 .. L - 1 : Opened(fs[k], fs[k + 1])
    BY DEF Walking, L
  <2>3. QED  BY <1>3, <1>4, <2>1, <2>2 DEF Opened
<1>7. gs[1].path = <<>>
  BY <1>1, <1>4 DEF Walking
<1>8. Walking(gs)
  BY <1>3, <1>5, <1>6, <1>7 DEF Walking
<1>9. QED  BY <1>8 DEF gs

LEMMA Pushed ==
  ASSUME NEW fs, Walking(fs), fs # <<>>, NEW g, FrameOK(g), Opened(fs[Len(fs)], g)
  PROVE  Walking(Append(fs, g))
<1> DEFINE gs == Append(fs, g)
           L == Len(fs)
<1>1. fs \in Seq(FrameSet) /\ L \in Nat \ {0} /\ 1 \in 1 .. L /\ DOMAIN fs = 1 .. L
  BY WalkingFacts DEF Walking
<1>2. g \in FrameSet
  BY DEF FrameOK
<1>3. gs \in Seq(FrameSet) /\ Len(gs) = L + 1 /\ gs[L + 1] = g
      /\ \A k \in 1 .. L : gs[k] = fs[k]
  BY <1>1, <1>2
<1> HIDE DEF gs, L
<1>4. \A k \in 1 .. L + 1 : k \in 1 .. L \/ k = L + 1
  BY <1>1
<1>5. \A k \in 1 .. L + 1 : FrameOK(gs[k])
  BY <1>3, <1>4 DEF Walking, L
<1>6. \A k \in 1 .. (L + 1) - 1 : Opened(gs[k], gs[k + 1])
  <2>1. \A k \in 1 .. (L + 1) - 1 : k \in 1 .. L /\ (k = L \/ (k \in 1 .. L - 1 /\ k + 1 \in 1 .. L))
    BY <1>1
  <2>2. \A k \in 1 .. L - 1 : Opened(fs[k], fs[k + 1])
    BY DEF Walking, L
  <2>3. QED  BY <1>3, <2>1, <2>2 DEF L
<1>7. gs[1].path = <<>>
  BY <1>1, <1>3 DEF Walking
<1>8. Walking(gs)
  BY <1>3, <1>5, <1>6, <1>7 DEF Walking
<1>9. QED  BY <1>8 DEF gs

LEMMA Popped ==
  ASSUME NEW fs, Walking(fs), Len(fs) > 1
  PROVE  /\ Walking(Front(fs)) /\ Len(Front(fs)) = Len(fs) - 1 /\ Front(fs) # <<>>
         /\ Front(fs)[Len(fs) - 1] = fs[Len(fs) - 1]
         /\ Opened(fs[Len(fs) - 1], fs[Len(fs)])
         /\ FrameOK(fs[Len(fs) - 1])
<1> DEFINE gs == Front(fs)
           L == Len(fs)
<1>1. fs \in Seq(FrameSet) /\ L \in Nat /\ L > 1
  BY DEF Walking
<1>2. gs \in Seq(FrameSet) /\ Len(gs) = L - 1 /\ \A k \in 1 .. L - 1 : gs[k] = fs[k]
  BY <1>1 DEF Front
<1> HIDE DEF gs
<1>3. /\ \A k \in 1 .. L : FrameOK(fs[k]) /\ fs[1].path = <<>>
      /\ \A k \in 1 .. L - 1 : Opened(fs[k], fs[k + 1])
  BY <1>1 DEF Walking
<1> HIDE DEF L
<1>4. /\ L - 1 \in 1 .. L - 1 /\ 1 \in 1 .. L - 1 /\ (L - 1) + 1 = L
      /\ \A k \in 1 .. L - 1 : k \in 1 .. L
      /\ \A k \in 1 .. (L - 1) - 1 : k \in 1 .. L - 1 /\ k + 1 \in 1 .. L - 1
  BY <1>1
<1>5. gs # <<>>
  BY <1>1, <1>2
<1>6. Opened(fs[L - 1], fs[(L - 1) + 1])
  BY <1>3, <1>4
<1>7. Walking(gs)
  BY <1>2, <1>3, <1>4 DEF Walking
<1>8. QED  BY <1>2, <1>3, <1>4, <1>5, <1>6, <1>7 DEF gs, L

-----------------------------------------------------------------------------
(* The steps of the walk.                                                  *)

LEMMA Began == Rooted => Walking(<<Frame(<<>>)>>)
<1>1. SUFFICES ASSUME Rooted  PROVE Walking(<<Frame(<<>>)>>)
  OBVIOUS
<1> DEFINE f == Frame(<<>>)
<1>2. FrameOK(f) /\ f.path = <<>> /\ f \in FrameSet
  BY <1>1, NewFrameOK DEF Rooted, FrameOK
<1> HIDE DEF f
<1>3. Walking(<<f>>)
  <2>1. <<f>> \in Seq(FrameSet) /\ Len(<<f>>) = 1 /\ <<f>>[1] = f
    BY <1>2
  <2>2. \A k \in 1 .. 1 - 1 : FALSE
    OBVIOUS
  <2>3. \A k \in 1 .. 1 : k = 1
    OBVIOUS
  <2>4. QED  BY <1>2, <2>1, <2>2, <2>3 DEF Walking
<1>4. QED  BY <1>3 DEF f

LEMMA NoneOpen == Walking(<<>>)
BY DEF Walking

LEMMA WalkingSame ==
  ASSUME UNCHANGED <<shape, fields, rawEnv>>, Walking(frames')  PROVE Walking(frames)'
<1>1. \A q : (Good(q)' <=> Good(q)) /\ ParsedAt(q)' = ParsedAt(q)
  BY DEF Good, ParsedAt
<1>2. \A q : ErrorAt(q)' = ErrorAt(q) /\ ValueAt(q)' = ValueAt(q)
  BY <1>1 DEF ErrorAt, ValueAt
<1>3. ErrorSet' = ErrorSet /\ ValueSet' = ValueSet
  BY <1>1, <1>2 DEF ErrorSet, ValueSet
<1>4. FrameSet' = FrameSet
  BY <1>3 DEF FrameSet
<1>5. \A p, q : Precedes(p, q)' <=> Precedes(p, q)
  BY DEF Precedes
<1>6. \A p, i : Passed(p, i)' = Passed(p, i)
  <2>1. \A p : Beneath(p)' = Beneath(p)
    BY DEF Beneath
  <2>2. \A p, i : Through(p, i)' = Through(p, i)
    BY <2>1 DEF Through, Key
  <2>3. QED  BY <2>2 DEF Passed
<1>7. \A errors, values, paths :
        Accounts(errors, values, paths)' <=> Accounts(errors, values, paths)
  BY <1>1, <1>5 DEF Accounts
<1>8. \A f : FrameOK(f)' <=> FrameOK(f)
  BY <1>4, <1>6, <1>7 DEF FrameOK
<1>9. \A f, g : Opened(f, g)' <=> Opened(f, g)
  BY DEF Opened, Child, Key
<1>10. QED  BY <1>4, <1>8, <1>9 DEF Walking

LEMMA WalkedSame ==
  ASSUME UNCHANGED <<shape, fields, rawEnv>>, Walked(config')  PROVE Walked(config)'
<1>1. \A q : (Good(q)' <=> Good(q)) /\ ParsedAt(q)' = ParsedAt(q)
  BY DEF Good, ParsedAt
<1>2. \A q : ErrorAt(q)' = ErrorAt(q) /\ ValueAt(q)' = ValueAt(q)
  BY <1>1 DEF ErrorAt, ValueAt
<1>3. ErrorSet' = ErrorSet /\ ValueSet' = ValueSet
  BY <1>1, <1>2 DEF ErrorSet, ValueSet
<1>4. \A p, q : Precedes(p, q)' <=> Precedes(p, q)
  BY DEF Precedes
<1>5. \A errors, values, paths :
        Accounts(errors, values, paths)' <=> Accounts(errors, values, paths)
  BY <1>1, <1>4 DEF Accounts
<1>6. QED  BY <1>3, <1>5 DEF Walked

LEMMA ParseFieldWalks ==
  ASSUME Rooted, Walking(frames), ParseField  PROVE Walking(frames')
<1> DEFINE f == Top
           q == Here
           g == AddField(f, fields[q], q)
<1>1. frames # <<>> /\ f.next \in DOMAIN shape[f.path] /\ q \in DOMAIN fields
      /\ q = Child(f.path, f.next)
      /\ frames' = [frames EXCEPT ![Len(frames)] = g]
  BY DEF ParseField, AtKey, Here, Top, Child, Key
<1>2. FrameOK(f) /\ f = frames[Len(frames)]
  BY <1>1, WalkingFacts DEF Top
<1> HIDE DEF f, q
<1>3. FrameOK(g) /\ g.path = f.path
  BY <1>1, <1>2, AddFieldOK
<1> HIDE DEF g
<1>4. Walking([frames EXCEPT ![Len(frames)] = g])
  BY <1>1, <1>2, <1>3, TopReplaced
<1>5. QED  BY <1>1, <1>4

LEMMA EnterNestedWalks ==
  ASSUME Rooted, Walking(frames), EnterNested  PROVE Walking(frames')
<1> DEFINE f == Top
           q == Here
           g == Frame(q)
<1>1. frames # <<>> /\ f.next \in DOMAIN shape[f.path] /\ q \in DOMAIN shape
      /\ q = Child(f.path, f.next) /\ frames' = Append(frames, g)
  BY DEF EnterNested, AtKey, Here, Top, Child, Key
<1>2. f = frames[Len(frames)]
  BY DEF Top
<1> HIDE DEF f, q
<1>3. FrameOK(g) /\ g.path = q
  BY <1>1, NewFrameOK
<1>4. Opened(frames[Len(frames)], g)
  BY <1>1, <1>2, <1>3 DEF Opened
<1> HIDE DEF g
<1>5. Walking(Append(frames, g))
  BY <1>1, <1>3, <1>4, Pushed
<1>6. QED  BY <1>1, <1>5

LEMMA LeaveNestedWalks ==
  ASSUME Rooted, Walking(frames), LeaveNested  PROVE Walking(frames')
<1> DEFINE fs == Front(frames)
           L == Len(frames)
           f == fs[L - 1]
           n == Top
           g == AddNested(f, n)
<1>1. /\ frames # <<>> /\ Len(frames) > 1 /\ n.next \notin DOMAIN shape[n.path]
      /\ frames' = [fs EXCEPT ![L - 1] = g] /\ n = frames[L]
  BY DEF LeaveNested, AtEnd, Top
<1>2. FrameOK(n)
  BY <1>1, WalkingFacts
<1>3. /\ Walking(fs) /\ Len(fs) = L - 1 /\ fs # <<>> /\ f = frames[L - 1]
      /\ Opened(frames[L - 1], frames[L]) /\ FrameOK(frames[L - 1])
  BY <1>1, Popped
<1> HIDE DEF fs, L, f, n
<1>4. FrameOK(g) /\ g.path = f.path
  BY <1>1, <1>2, <1>3, AddNestedOK
<1>5. f = fs[Len(fs)]
  BY <1>3 DEF f
<1> HIDE DEF g
<1>6. Walking([fs EXCEPT ![Len(fs)] = g])
  BY <1>3, <1>4, <1>5, TopReplaced
<1>7. QED  BY <1>1, <1>3, <1>6

LEMMA ReturnWalks ==
  ASSUME Rooted, Walking(frames), Return  PROVE Walking(frames') /\ Walked(config')
<1> DEFINE f == Top
<1>1. /\ frames # <<>> /\ f.next \notin DOMAIN shape[f.path] /\ Len(frames) = 1
      /\ frames' = <<>> /\ config' = [errors |-> f.errors, values |-> f.values]
      /\ f = frames[Len(frames)]
  BY DEF Return, AtEnd, Top
<1>2. FrameOK(f) /\ f.path = <<>> /\ f \in FrameSet
  BY <1>1, WalkingFacts DEF Walking
<1> HIDE DEF f
<1>3. <<>> \in DOMAIN shape
  BY DEF Rooted
<1>4. f.next = Len(shape[<<>>]) + 1
  <2>1. DOMAIN shape[<<>>] = 1 .. Len(shape[<<>>]) /\ Len(shape[<<>>]) \in Nat
    BY <1>3 DEF Rooted
  <2>2. f.next \in 1 .. Len(shape[<<>>]) + 1 /\ f.next \notin DOMAIN shape[<<>>]
    BY <1>1, <1>2 DEF FrameOK
  <2>3. QED  BY <2>1, <2>2
<1>5. Passed(<<>>, Len(shape[<<>>]) + 1) = DOMAIN fields
  BY <1>3, PassedFacts, BeneathRoot
<1>6. Accounts(f.errors, f.values, DOMAIN fields)
  BY <1>2, <1>4, <1>5 DEF FrameOK
<1>7. f.errors \in Seq(ErrorSet) /\ f.values \subseteq ValueSet
  BY <1>2 DEF FrameSet
<1>8. Walked(config')
  BY <1>1, <1>6, <1>7 DEF Walked
<1>9. QED  BY <1>1, <1>8, NoneOpen

LEMMA WalkInit == Init => WalkInv
BY NoneOpen DEF Init, WalkInv

LEMMA NoneOpenNext == Walking(<<>>)'
BY NoneOpen, PTL

LEMMA BeganNext == Rooted' => Walking(<<Frame(<<>>)>>)'
BY Began, PTL

LEMMA WalkStep == Rooted /\ Rooted' /\ WalkInv /\ [Next]_vars => WalkInv'
<1>1. SUFFICES ASSUME Rooted, Rooted', WalkInv, [Next]_vars  PROVE WalkInv'
  OBVIOUS
<1>2. Walking(frames)
  BY <1>1 DEF WalkInv
<1>3. CASE CallMethod \/ SetVariable
  <2>1. frames' = <<>> /\ config' = None
    BY <1>3 DEF CallMethod, SetVariable, Step
  <2>2. Walking(frames)'
    BY <2>1, NoneOpenNext DEF Walking
  <2>3. QED  BY <2>1, <2>2 DEF WalkInv
<1>4. CASE defineConfig
  <2>1. frames' = <<Frame(<<>>)>> /\ config' = None /\ rawEnv' = loadEnv(nodeEnv', contents')
    BY <1>4 DEF defineConfig, author
  <2>2. Walking(<<Frame(<<>>)>>)'
    BY <1>1, BeganNext
  <2>3. Walking(frames)'
    BY <2>1, <2>2 DEF Walking
  <2>4. QED  BY <2>1, <2>3 DEF WalkInv
<1>5. ASSUME frames # <<>>, UNCHANGED <<author, rawEnv>>, Walking(frames'),
             config' = config \/ Walked(config')
      PROVE  WalkInv'
  <2>1. rawEnv' = loadEnv(nodeEnv', contents') /\ UNCHANGED <<shape, fields, rawEnv>>
    BY <1>1, <1>5 DEF WalkInv, author
  <2>2. Walking(frames)'
    BY <1>5, <2>1, WalkingSame
  <2>3. config' # None => Walked(config)'
    <3>1. config' # None => Walked(config')
      BY <1>1, <1>5 DEF WalkInv
    <3>2. QED  BY <2>1, <3>1, WalkedSame
  <2>4. QED  BY <2>1, <2>2, <2>3 DEF WalkInv
<1>6. CASE ParseField
  BY <1>1, <1>2, <1>5, <1>6, ParseFieldWalks DEF ParseField, AtKey
<1>7. CASE EnterNested
  BY <1>1, <1>2, <1>5, <1>7, EnterNestedWalks DEF EnterNested, AtKey
<1>8. CASE LeaveNested
  BY <1>1, <1>2, <1>5, <1>8, LeaveNestedWalks DEF LeaveNested, AtEnd
<1>9. CASE Return
  BY <1>1, <1>2, <1>5, <1>9, ReturnWalks DEF Return, AtEnd
<1>10. CASE UNCHANGED vars
  <2>1. UNCHANGED <<shape, fields, rawEnv, nodeEnv, contents, frames, config>>
    BY <1>10 DEF vars, author
  <2>2. Walking(frames)'
    BY <1>2, <2>1, WalkingSame
  <2>3. config' # None => Walked(config)'
    BY <1>1, <2>1, WalkedSame DEF WalkInv
  <2>4. QED  BY <1>1, <2>1, <2>2, <2>3 DEF WalkInv
<1>11. QED  BY <1>1, <1>3, <1>4, <1>6, <1>7, <1>8, <1>9, <1>10 DEF Next

LEMMA WalkCorrect == Spec => [](EnvInv /\ AuthorInv /\ WalkInv)
<1>1. AuthorInv => Rooted
  BY TreeRooted
<1>2. AuthorInv' => Rooted'
  BY <1>1, PTL
<1>3. AuthorInv /\ AuthorInv' /\ WalkInv /\ [Next]_vars => WalkInv'
  BY <1>1, <1>2, WalkStep
<1>4. QED  BY <1>3, WalkInit, AuthorCorrect, PTL DEF Spec

(* Every field that is not as it should be is reported, once, first to     *)
(* last, and a config is there only if nothing is: validateShape's calls   *)
(* of itself (validator.ts:36-69) account for every key that they passed.  *)
THEOREM ProblemsAreReported == Spec => []AllProblemsReported
<1>1. WalkInv => AllProblemsReported
  BY DEF WalkInv, Walked, Accounts, AllProblemsReported
<1>2. QED  BY <1>1, WalkCorrect, PTL

-----------------------------------------------------------------------------
(* The environment: what a variable is after every source was assigned.    *)

LEMMA AssignFacts ==
  ASSUME NEW merged, NEW source
  PROVE  /\ DOMAIN Assign(merged, source) = DOMAIN merged
         /\ \A key \in DOMAIN merged :
              Assign(merged, source)[key] = IF source[key] = Unset THEN merged[key] ELSE source[key]
BY DEF Assign

(* loadEnv's fold over a list that is as long as Files() makes it.         *)
LEMMA Merged ==
  ASSUME NEW mode, NEW S, Len(Files(mode)) \in 0 .. 4
  PROVE  \E merged :
           /\ \A n \in 0 .. Len(Files(mode)) :
                merged[n] = IF n = 0 THEN [key \in DOMAIN S["os"] |-> Unset]
                            ELSE Assign(merged[n - 1], S[Files(mode)[n]])
           /\ loadEnv(mode, S) = Assign(merged[Len(Files(mode))], S["os"])
<1> DEFINE files == Files(mode)
           merged == CHOOSE f : f = [n \in 0 .. Len(files) |->
                                       IF n = 0 THEN [key \in DOMAIN S["os"] |-> Unset]
                                       ELSE Assign(f[n - 1], S[files[n]])]
<1>0. loadEnv(mode, S) = Assign(merged[Len(files)], S["os"])
  BY DEF loadEnv
<1> DEFINE L == Len(files)
           m0 == [key \in DOMAIN S["os"] |-> Unset]
           m1 == Assign(m0, S[files[1]])
           m2 == Assign(m1, S[files[2]])
           m3 == Assign(m2, S[files[3]])
           m4 == Assign(m3, S[files[4]])
           w == [n \in 0 .. L |-> IF n = 0 THEN m0 ELSE IF n = 1 THEN m1 ELSE IF n = 2 THEN m2
                                  ELSE IF n = 3 THEN m3 ELSE m4]
           Step1(f) == [n \in 0 .. L |-> IF n = 0 THEN m0 ELSE Assign(f[n - 1], S[files[n]])]
<1>1. L \in 0 .. 4
  OBVIOUS
<1> HIDE DEF L, files
<1>2. ASSUME NEW n \in 0 .. L
      PROVE  w[n] = IF n = 0 THEN m0 ELSE Assign(w[n - 1], S[files[n]])
  <2> HIDE DEF m0
  <2>1. n \in {0, 1, 2, 3, 4}
    BY <1>1
  <2>2. CASE n = 0
    BY <2>2
  <2>3. CASE n = 1
    <3>1. w[n] = m1 /\ n - 1 = 0 /\ 0 \in 0 .. L
      BY <2>3, <1>1
    <3>2. w[0] = m0
      BY <3>1
    <3>3. QED  BY <3>1, <3>2, <2>3
  <2>4. CASE n = 2
    <3> HIDE DEF m1
    <3>1. w[n] = m2 /\ n - 1 = 1 /\ 1 \in 0 .. L
      BY <2>4, <1>1
    <3>2. w[1] = m1
      BY <3>1
    <3>3. QED  BY <3>1, <3>2, <2>4
  <2>5. CASE n = 3
    <3> HIDE DEF m1, m2
    <3>1. w[n] = m3 /\ n - 1 = 2 /\ 2 \in 0 .. L
      BY <2>5, <1>1
    <3>2. w[2] = m2
      BY <3>1
    <3>3. QED  BY <3>1, <3>2, <2>5
  <2>6. CASE n = 4
    <3> HIDE DEF m1, m2, m3
    <3>1. w[n] = m4 /\ n - 1 = 3 /\ 3 \in 0 .. L
      BY <2>6, <1>1
    <3>2. w[3] = m3
      BY <3>1
    <3>3. QED  BY <3>1, <3>2, <2>6
  <2>7. QED  BY <2>1, <2>2, <2>3, <2>4, <2>5, <2>6
<1>3. w = Step1(w)
  <2> HIDE DEF m0, m1, m2, m3, m4
  <2> DEFINE v == w
  <2>1. v = [n \in 0 .. L |-> v[n]]
    OBVIOUS
  <2>2. \A n \in 0 .. L : v[n] = IF n = 0 THEN m0 ELSE Assign(v[n - 1], S[files[n]])
    BY <1>2
  <2> HIDE DEF v
  <2>3. v = Step1(v)
    BY <2>1, <2>2
  <2>4. QED  BY <2>3 DEF v
<1>4. merged = Step1(merged)
  <2>1. merged = CHOOSE f : f = Step1(f)
    BY DEF L
  <2> HIDE DEF Step1, w
  <2>2. QED  BY <1>3, <2>1
<1> HIDE DEF w, merged
<1>5. \A n \in 0 .. L : Step1(merged)[n] = IF n = 0 THEN m0 ELSE Assign(merged[n - 1], S[files[n]])
  OBVIOUS
<1> HIDE DEF Step1
<1>6. \A n \in 0 .. L : merged[n] = IF n = 0 THEN m0 ELSE Assign(merged[n - 1], S[files[n]])
  BY <1>4, <1>5
<1>7. QED  BY <1>0, <1>6 DEF L, files

LEMMA TwoAndTwo ==
  ASSUME NEW a, NEW b, NEW x, NEW y  PROVE <<a, b>> \o <<x, y>> = <<a, b, x, y>>
<1> DEFINE S == {a, b, x, y}
           s == <<a, b>>
           t == <<x, y>>
           u == s \o t
           v == <<a, b, x, y>>
<1>1. s \in Seq(S) /\ t \in Seq(S) /\ Len(s) = 2 /\ Len(t) = 2 /\ v \in Seq(S) /\ Len(v) = 4
      /\ s[1] = a /\ s[2] = b /\ t[1] = x /\ t[2] = y
      /\ v[1] = a /\ v[2] = b /\ v[3] = x /\ v[4] = y
  OBVIOUS
<1> HIDE DEF s, t, v, S
<1>2. u \in Seq(S) /\ Len(u) = 4 /\ u[1] = s[1] /\ u[2] = s[2] /\ u[3] = t[1] /\ u[4] = t[2]
  <2>1. s \in Seq(S) /\ t \in Seq(S)
    BY <1>1
  <2>2. u \in Seq(S) /\ Len(u) = Len(s) + Len(t)
    BY <2>1
  <2>3. \A k \in 1 .. Len(s) : u[k] = s[k]
    BY <2>1
  <2>4. \A k \in 1 .. Len(t) : u[Len(s) + k] = t[k]
    BY <2>1
  <2> HIDE DEF u
  <2>5. \A k \in 1 .. 2 : u[k] = s[k] /\ u[2 + k] = t[k]
    BY <1>1, <2>3, <2>4
  <2>6. 1 \in 1 .. 2 /\ 2 \in 1 .. 2 /\ 2 + 1 = 3 /\ 2 + 2 = 4
    OBVIOUS
  <2>7. u[1] = s[1] /\ u[2] = s[2] /\ u[2 + 1] = t[1] /\ u[2 + 2] = t[2]
    BY <2>5, <2>6
  <2>8. QED  BY <1>1, <2>2, <2>6, <2>7
<1> HIDE DEF u
<1>3. \A n \in 1 .. 4 : n \in {1, 2, 3, 4}
  OBVIOUS
<1>4. \A n \in 1 .. 4 : u[n] = v[n]
  BY <1>1, <1>2, <1>3
<1>5. DOMAIN u = 1 .. 4 /\ DOMAIN v = 1 .. 4 /\ u = [n \in 1 .. 4 |-> u[n]]
      /\ v = [n \in 1 .. 4 |-> v[n]]
  BY <1>1, <1>2
<1>6. u = v
  BY <1>4, <1>5
<1>7. QED  BY <1>6 DEF u, s, t, v

LEMMA FilesAre ==
  /\ Files(Unset) = <<".env", ".env.local">>
  /\ Files("mode") = <<".env", ".env.local", ".env.mode", ".env.mode.local">>
<1>1. Unset # "mode"
  BY DEF Unset
<1>2. <<".env", ".env.local">> \o <<>> = <<".env", ".env.local">>
  OBVIOUS
<1>3. <<".env", ".env.local">> \o <<".env.mode", ".env.mode.local">>
        = <<".env", ".env.local", ".env.mode", ".env.mode.local">>
  BY TwoAndTwo
<1>4. QED  BY <1>1, <1>2, <1>3 DEF Files

\* A variable where a source sets it, and otherwise what it was.
Over(raw, was) == IF raw = Unset THEN was ELSE raw

(* The environment, source by source: the last one that sets a variable is *)
(* asked first.                                                            *)
LEMMA Loaded ==
  ASSUME NEW S, NEW key \in DOMAIN S["os"]
  PROVE  /\ loadEnv(Unset, S)[key] =
              Over(S["os"][key], Over(S[".env.local"][key], Over(S[".env"][key], Unset)))
         /\ loadEnv("mode", S)[key] =
              Over(S["os"][key], Over(S[".env.mode.local"][key], Over(S[".env.mode"][key],
                Over(S[".env.local"][key], Over(S[".env"][key], Unset)))))
<1> DEFINE K == DOMAIN S["os"]
           m0 == [k \in K |-> Unset]
<1>1. DOMAIN m0 = K /\ m0[key] = Unset
  OBVIOUS
<1>2. ASSUME NEW m, DOMAIN m = K, NEW source
      PROVE  DOMAIN Assign(m, source) = K /\ Assign(m, source)[key] = Over(source[key], m[key])
  BY <1>2, AssignFacts DEF Over
<1>3. loadEnv(Unset, S)[key] =
        Over(S["os"][key], Over(S[".env.local"][key], Over(S[".env"][key], Unset)))
  <2> DEFINE files == Files(Unset)
  <2>1. Len(files) = 2 /\ files[1] = ".env" /\ files[2] = ".env.local"
    BY FilesAre
  <2>2. PICK merged :
          /\ \A n \in 0 .. Len(files) :
               merged[n] = IF n = 0 THEN [k \in K |-> Unset]
                           ELSE Assign(merged[n - 1], S[files[n]])
          /\ loadEnv(Unset, S) = Assign(merged[Len(files)], S["os"])
    <3>1. Len(Files(Unset)) \in 0 .. 4
      BY <2>1
    <3>2. QED  BY <3>1, Merged
  <2> HIDE DEF files, K
  <2>3. \A n \in 0 .. 2 : merged[n] = IF n = 0 THEN m0 ELSE Assign(merged[n - 1], S[files[n]])
    BY <2>1, <2>2
  <2> HIDE DEF m0
  <2>4. 0 \in 0 .. 2 /\ 1 \in 0 .. 2 /\ 2 \in 0 .. 2 /\ 1 # 0 /\ 2 # 0 /\ 1 - 1 = 0 /\ 2 - 1 = 1
    OBVIOUS
  <2>5. /\ merged[0] = m0
        /\ merged[1] = Assign(merged[0], S[".env"])
        /\ merged[2] = Assign(merged[1], S[".env.local"])
    BY <2>1, <2>3, <2>4
  <2>6. DOMAIN merged[0] = K /\ merged[0][key] = Unset
    BY <1>1, <2>5
  <2>7. DOMAIN merged[1] = K /\ merged[1][key] = Over(S[".env"][key], Unset)
    BY <1>2, <2>5, <2>6
  <2>8. DOMAIN merged[2] = K
        /\ merged[2][key] = Over(S[".env.local"][key], Over(S[".env"][key], Unset))
    BY <1>2, <2>5, <2>7
  <2>9. QED  BY <1>2, <2>1, <2>2, <2>8
<1>4. loadEnv("mode", S)[key] =
        Over(S["os"][key], Over(S[".env.mode.local"][key], Over(S[".env.mode"][key],
          Over(S[".env.local"][key], Over(S[".env"][key], Unset)))))
  <2> DEFINE files == Files("mode")
  <2>1. Len(files) = 4 /\ files[1] = ".env" /\ files[2] = ".env.local"
        /\ files[3] = ".env.mode" /\ files[4] = ".env.mode.local"
    BY FilesAre
  <2>2. PICK merged :
          /\ \A n \in 0 .. Len(files) :
               merged[n] = IF n = 0 THEN [k \in K |-> Unset]
                           ELSE Assign(merged[n - 1], S[files[n]])
          /\ loadEnv("mode", S) = Assign(merged[Len(files)], S["os"])
    <3>1. Len(Files("mode")) \in 0 .. 4
      BY <2>1
    <3>2. QED  BY <3>1, Merged
  <2> HIDE DEF files, K
  <2>3. \A n \in 0 .. 4 : merged[n] = IF n = 0 THEN m0 ELSE Assign(merged[n - 1], S[files[n]])
    BY <2>1, <2>2
  <2> HIDE DEF m0
  <2>4. /\ 0 \in 0 .. 4 /\ 1 \in 0 .. 4 /\ 2 \in 0 .. 4 /\ 3 \in 0 .. 4 /\ 4 \in 0 .. 4
        /\ 1 # 0 /\ 2 # 0 /\ 3 # 0 /\ 4 # 0 /\ 1 - 1 = 0 /\ 2 - 1 = 1 /\ 3 - 1 = 2 /\ 4 - 1 = 3
    OBVIOUS
  <2>5. /\ merged[0] = m0
        /\ merged[1] = Assign(merged[0], S[".env"])
        /\ merged[2] = Assign(merged[1], S[".env.local"])
        /\ merged[3] = Assign(merged[2], S[".env.mode"])
        /\ merged[4] = Assign(merged[3], S[".env.mode.local"])
    BY <2>1, <2>3, <2>4
  <2>6. DOMAIN merged[0] = K /\ merged[0][key] = Unset
    BY <1>1, <2>5
  <2>7. DOMAIN merged[1] = K /\ merged[1][key] = Over(S[".env"][key], Unset)
    BY <1>2, <2>5, <2>6
  <2>8. DOMAIN merged[2] = K
        /\ merged[2][key] = Over(S[".env.local"][key], Over(S[".env"][key], Unset))
    BY <1>2, <2>5, <2>7
  <2>9. DOMAIN merged[3] = K
        /\ merged[3][key] = Over(S[".env.mode"][key],
                              Over(S[".env.local"][key], Over(S[".env"][key], Unset)))
    BY <1>2, <2>5, <2>8
  <2>10. DOMAIN merged[4] = K
         /\ merged[4][key] = Over(S[".env.mode.local"][key], Over(S[".env.mode"][key],
                               Over(S[".env.local"][key], Over(S[".env"][key], Unset))))
    BY <1>2, <2>5, <2>9
  <2>11. QED  BY <1>2, <2>1, <2>2, <2>10
<1>5. QED  BY <1>3, <1>4

\* The sources that set a variable, of those that the process reads.
Counting(key) ==
  {s \in Sources : contents[s][key] # Unset /\ (nodeEnv = Unset => s \in {".env", ".env.local", "os"})}

LEMMA HighestCounts ==
  ASSUME EnvInv, NEW key \in DOMAIN contents["os"]
  PROVE  LET raw == loadEnv(nodeEnv, contents)[key]
         IN /\ Counting(key) = {} => raw = Unset
            /\ Counting(key) # {} =>
                 /\ raw # Unset
                 /\ \E s \in Counting(key) :
                      /\ raw = contents[s][key]
                      /\ \A other \in Counting(key) \ {s} : Outranks(s, other)
<1> DEFINE raw == loadEnv(nodeEnv, contents)[key]
           of(s) == contents[s][key]
           Wins(s) == /\ s \in Counting(key) /\ raw = of(s)
                      /\ \A other \in Counting(key) \ {s} : Outranks(s, other)
           Goal == /\ Counting(key) = {} => raw = Unset
                   /\ Counting(key) # {} => raw # Unset /\ \E s \in Counting(key) : Wins(s)
<1> SUFFICES Goal
  OBVIOUS
<1>1. nodeEnv \in {Unset, "mode"} /\ Unset # "mode"
  BY DEF EnvInv, Unset
<1>2. CASE nodeEnv = Unset
  <2>1. raw = Over(of("os"), Over(of(".env.local"), Over(of(".env"), Unset)))
    BY <1>2, Loaded
  <2>2. Counting(key) = {s \in {".env", ".env.local", "os"} : of(s) # Unset}
    BY <1>2 DEF Counting, Sources
  <2> HIDE DEF raw, of
  <2>3. CASE of("os") # Unset
    <3>1. raw = of("os") /\ "os" \in Counting(key)
      BY <2>1, <2>2, <2>3 DEF Over
    <3>2. \A other \in Counting(key) \ {"os"} : Outranks("os", other)
      BY DEF Outranks
    <3>3. QED  BY <2>3, <3>1, <3>2
  <2>4. CASE of("os") = Unset /\ of(".env.local") # Unset
    <3>1. raw = of(".env.local") /\ ".env.local" \in Counting(key)
      BY <2>1, <2>2, <2>4 DEF Over
    <3>2. \A other \in Counting(key) \ {".env.local"} : other = ".env"
      BY <2>2, <2>4
    <3>3. \A other \in Counting(key) \ {".env.local"} : Outranks(".env.local", other)
      BY <3>2 DEF Outranks
    <3>4. QED  BY <2>4, <3>1, <3>3
  <2>5. CASE of("os") = Unset /\ of(".env.local") = Unset /\ of(".env") # Unset
    <3>1. raw = of(".env") /\ Counting(key) = {".env"}
      BY <2>1, <2>2, <2>5 DEF Over
    <3>2. QED  BY <2>5, <3>1
  <2>6. CASE of("os") = Unset /\ of(".env.local") = Unset /\ of(".env") = Unset
    <3>1. raw = Unset /\ Counting(key) = {}
      BY <2>1, <2>2, <2>6 DEF Over
    <3>2. QED  BY <3>1
  <2>7. QED  BY <2>3, <2>4, <2>5, <2>6
<1>3. CASE nodeEnv = "mode"
  <2>1. raw = Over(of("os"), Over(of(".env.mode.local"), Over(of(".env.mode"),
                Over(of(".env.local"), Over(of(".env"), Unset)))))
    BY <1>3, Loaded
  <2>2. Counting(key) = {s \in Sources : of(s) # Unset}
    BY <1>1, <1>3 DEF Counting
  <2> HIDE DEF raw, of
  <2>3. CASE of("os") # Unset
    <3>1. raw = of("os") /\ "os" \in Counting(key)
      BY <2>1, <2>2, <2>3 DEF Over, Sources
    <3>2. \A other \in Counting(key) \ {"os"} : Outranks("os", other)
      BY DEF Outranks
    <3>3. QED  BY <2>3, <3>1, <3>2
  <2>4. CASE of("os") = Unset /\ of(".env.mode.local") # Unset
    <3>1. raw = of(".env.mode.local") /\ ".env.mode.local" \in Counting(key)
      BY <2>1, <2>2, <2>4 DEF Over, Sources
    <3>2. \A other \in Counting(key) \ {".env.mode.local"} :
            other \in {".env", ".env.local", ".env.mode"}
      BY <2>2, <2>4 DEF Sources
    <3>3. \A other \in Counting(key) \ {".env.mode.local"} : Outranks(".env.mode.local", other)
      BY <3>2 DEF Outranks
    <3>4. QED  BY <2>4, <3>1, <3>3
  <2>5. CASE of("os") = Unset /\ of(".env.mode.local") = Unset /\ of(".env.mode") # Unset
    <3>1. raw = of(".env.mode") /\ ".env.mode" \in Counting(key)
      BY <2>1, <2>2, <2>5 DEF Over, Sources
    <3>2. \A other \in Counting(key) \ {".env.mode"} : other \in {".env", ".env.local"}
      BY <2>2, <2>5 DEF Sources
    <3>3. \A other \in Counting(key) \ {".env.mode"} : Outranks(".env.mode", other)
      BY <3>2 DEF Outranks
    <3>4. QED  BY <2>5, <3>1, <3>3
  <2>6. CASE of("os") = Unset /\ of(".env.mode.local") = Unset /\ of(".env.mode") = Unset
             /\ of(".env.local") # Unset
    <3>1. raw = of(".env.local") /\ ".env.local" \in Counting(key)
      BY <2>1, <2>2, <2>6 DEF Over, Sources
    <3>2. \A other \in Counting(key) \ {".env.local"} : other = ".env"
      BY <2>2, <2>6 DEF Sources
    <3>3. \A other \in Counting(key) \ {".env.local"} : Outranks(".env.local", other)
      BY <3>2 DEF Outranks
    <3>4. QED  BY <2>6, <3>1, <3>3
  <2>7. CASE of("os") = Unset /\ of(".env.mode.local") = Unset /\ of(".env.mode") = Unset
             /\ of(".env.local") = Unset
    <3>1. raw = of(".env") /\ Counting(key) \subseteq {".env"}
          /\ (".env" \in Counting(key) <=> of(".env") # Unset)
      BY <2>1, <2>2, <2>7 DEF Over, Sources
    <3>2. QED  BY <3>1
  <2>8. QED  BY <2>3, <2>4, <2>5, <2>6, <2>7
<1>4. QED  BY <1>1, <1>2, <1>3

(* The process environment wins over the files, a mode over the general    *)
(* ones and the local file over the other, whatever is set where           *)
(* (env-loader.ts:27-47), for every field of every shape.                  *)
THEOREM HighestWins == Spec => []HighestSourceWins
<1>1. ASSUME AuthorInv, EnvInv, WalkInv, config # None, NEW v \in config.values,
             fields[v.path].kind = "string"
      PROVE  LET field == fields[v.path]
                 key == EnvKey(field, v.path)
             IN IF Counting(key) = {} THEN v.value \in {Undefined, field.default}
                ELSE \E s \in Counting(key) :
                       /\ v.value = Text(contents[s][key])
                       /\ \A other \in Counting(key) \ {s} : Outranks(s, other)
  <2> DEFINE q == v.path
             f == fields[q]
             chain == chains[q]
             key == EnvKey(f, q)
             raw == rawEnv[key]
  <2>1. q \in DOMAIN fields /\ v = ValueAt(q) /\ Good(q)
    <3>1. v \in ValueSet
      BY <1>1 DEF WalkInv, Walked
    <3>2. PICK path \in DOMAIN fields : Good(path) /\ v = ValueAt(path)
      BY <3>1 DEF ValueSet
    <3>3. v.path = path
      BY <3>2 DEF ValueAt
    <3>4. QED  BY <3>2, <3>3
  <2>2. v.value = SafeParse(f, raw).value /\ SafeParse(f, raw).ok
    <3>1. ValueAt(q).value = ParsedAt(q).value
      BY DEF ValueAt
    <3>2. QED  BY <2>1, <3>1 DEF Good, ParsedAt
  <2>3. Settings(f, chain) /\ f.kind = "string"
    BY <1>1, <2>1 DEF AuthorInv
  <2>4. key \in DOMAIN contents["os"]
    BY <1>1, <2>1 DEF EnvInv
  <2>5. raw = loadEnv(nodeEnv, contents)[key]
    BY <1>1 DEF WalkInv
  <2> HIDE DEF q, f, chain, key, raw
  <2>6. CASE Counting(key) = {}
    <3>1. raw = Unset
      BY <1>1, <2>4, <2>5, <2>6, HighestCounts
    <3>2. CASE f.hasDefault
      <4>1. PICK m \in LastCall(chain, Absences) : m.name # "optional"
        BY <2>3, <3>2 DEF Settings, AbsenceIs
      <4>2. SafeParse(f, raw) = IF Keeps(chain, m.arg) THEN Parsed(m.arg) ELSE Failed("malformed")
        BY <2>3, <3>1, <4>1, ParsedUnset
      <4>3. f.default = m.arg
        BY <2>3, <4>1 DEF Settings, AbsenceIs
      <4>4. ~Failed("malformed").ok /\ Parsed(m.arg).value = m.arg
        BY DEF Failed, Parsed
      <4>5. v.value = f.default
        BY <2>2, <4>2, <4>3, <4>4
      <4>6. QED  BY <2>6, <4>5 DEF f, q, key
    <3>3. CASE ~f.hasDefault /\ f.optional
      <4>1. SafeParse(f, raw) = Parsed(Undefined)
        BY <3>1, <3>3 DEF SafeParse
      <4>2. v.value = Undefined
        BY <2>2, <4>1 DEF Parsed
      <4>3. QED  BY <2>6, <4>2 DEF f, q, key
    <3>4. ~(~f.hasDefault /\ ~f.optional)
      <4>1. ~f.hasDefault /\ ~f.optional => SafeParse(f, raw) = Failed("Required")
        BY <2>3, <3>1 DEF SafeParse, ParseBase
      <4>2. QED  BY <2>2, <4>1 DEF Failed
    <3>5. QED  BY <3>2, <3>3, <3>4
  <2>7. CASE Counting(key) # {}
    <3>1. /\ raw # Unset
          /\ \E s \in Counting(key) : /\ raw = contents[s][key]
                                      /\ \A other \in Counting(key) \ {s} : Outranks(s, other)
      BY <1>1, <2>4, <2>5, <2>7, HighestCounts
    <3>2. SafeParse(f, raw) = ParseString(f, raw)
      BY <2>3, <3>1 DEF SafeParse, ParseBase
    <3>3. v.value = Text(raw)
      BY <2>2, <3>2 DEF ParseString, Parsed, Failed
    <3>4. QED  BY <2>7, <3>1, <3>3 DEF f, q, key
  <2>8. QED  BY <2>6, <2>7
<1>2. AuthorInv /\ EnvInv /\ WalkInv => HighestSourceWins
  BY <1>1 DEF HighestSourceWins, Counting
<1>3. QED  BY <1>2, WalkCorrect, PTL
=============================================================================
