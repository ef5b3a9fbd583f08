-------------------------------- MODULE MCConfig --------------------------------
EXTENDS ConfigProperties

MCTexts == {"", "7", "http://x"}
MCNumberOf == [t \in MCTexts |-> CASE t = "" -> 0 [] t = "7" -> 70 [] OTHER -> NaN]
MCLengthOf == [t \in MCTexts |-> CASE t = "" -> 0 [] t = "7" -> 1 [] OTHER -> 8]

Tree(keys, kinds) == [keys |-> keys, kinds |-> kinds]
\* The second and the third field of the first shape read one variable, DB_URL.
MCShapes ==
  {Tree(<<>> :> << <<"port">>, <<"db">>, <<"db", "url">> >> @@ << <<"db">> >> :> << <<"url">> >>,
        << <<"port">> >> :> "number" @@ << <<"db">>, <<"url">> >> :> "string"
          @@ << <<"db", "url">> >> :> "string"),
   Tree(<<>> :> << <<"log">>, <<"env">> >> @@ << <<"log">> >> :> << <<"on">>, <<"to">> >>,
        << <<"log">>, <<"on">> >> :> "boolean" @@ << <<"log">>, <<"to">> >> :> "array"
          @@ << <<"env">> >> :> "enum")}

Method(name, arg) == [name |-> name, arg |-> arg]
MCMethods ==
  {Method("minLength", 1), Method("minLength", 2), Method("maxLength", 3), Method("url", None),
   Method("min", 10), Method("max", 20), Method("int", None), Method("secret", None),
   Method("env", <<"x">>), Method("optional", None), Method("default", Text("7")),
   Method("default", Number(5)) , Method("default", Boolean(TRUE)),
   Method("default", List(<<>>))}
=============================================================================
