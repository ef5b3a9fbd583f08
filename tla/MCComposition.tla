----------------------------- MODULE MCComposition -----------------------------
EXTENDS CompositionProperties

Num(n) == <<"number", n>>
Str(n) == <<"string", n>>
Arr(s) == <<"array", s>>

Ref(name, n) == [name |-> name, value |-> n]

MCKeys == {"a", "b"}
\* A chain begins with a new node, or goes on from a field that has been used before.
MCBases == {Bare("number"), Bare("string"), literal(Num(1)), enum(<<Num(1), Num(2)>>), enum(<<Str(1)>>),
            default(Bare("number"), Num(1)), array(optional(Bare("number")))}
MCRefinements == {Ref("min", 1), Ref("min", 2), Ref("max", 1), Ref("multipleOf", 2), Ref("length", 1),
                  Ref("minLength", 2), Ref("minItems", 1), Ref("maxItems", 1)}
MCDefaults == {Num(1)}
\* A bounded number; a string with everything and an enum; an array of objects
\* with a default in them.
MCFirstFields ==
  {[a |-> withRefinement(Bare("number"), Ref("min", 1))],
   [a |-> default(nullable(Bare("string")), Str(1)), b |-> enum(<<Num(1)>>)],
   [b |-> array(object([a |-> default(Bare("number"), Num(1))], "strict"))]}

Scalars1 == {Null, Num(0), Num(1), Num(2), Str(1), Str(2)}
Pairs(A, B) == {Object([k \in {k \in MCKeys : (IF k = "a" THEN a ELSE b) # Undefined} |->
                          IF k = "a" THEN a ELSE b]) : a \in A, b \in B}
Small == Pairs({Undefined, Num(1), Num(2)}, {Undefined, Num(1)})
Most == Scalars1 \cup {Undefined} \cup Small
        \cup {Arr(<<>>), Arr(<<Num(1), Num(2)>>), Arr(<<Null>>), Arr(<<Object(<<>>)>>)}
Few == {Undefined, Null, Num(1)}
MCValues == {Num(1), Arr(<<>>), Null} \cup Pairs(Most, Few) \cup Pairs(Few, Most)
=============================================================================
