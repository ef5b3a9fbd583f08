------------------------------ MODULE MCRegistries ------------------------------
EXTENDS RegistriesProperties

MCVersions == {"", "1.9.0", "1.10.0", "1.10.0-rc.ts", "1.10.0/rc.ts", "null"}
MCTriple == [v \in MCVersions |-> CASE v = "1.9.0" -> <<1, 9, 0>>
                                    [] v \in {"", "null"} -> <<>>
                                    [] OTHER -> <<1, 10, 0>>]
MCCollation == [v \in MCVersions |->
                  CASE v = "" -> 0 [] v = "1.10.0" -> 1 [] v = "1.10.0-rc.ts" -> 2
                    [] v = "1.10.0/rc.ts" -> 3 [] v = "1.9.0" -> 4 [] v = "null" -> 5]
MCTextPlace == ("com.User" :> 0) @@ ("1" :> 1) @@ ("2" :> 2) @@ ("3" :> 3)
MCIdOrder == <<"com.User", "com.User.1.10.0.rc.ts">>

MCWords ==
  ("" :> <<"">>) @@ ("1.9.0" :> <<"1", "9", "0">>) @@ ("1.10.0" :> <<"1", "10", "0">>)
  @@ ("1.10.0-rc.ts" :> <<"1", "10", "0", "rc", "ts">>)
  @@ ("1.10.0/rc.ts" :> <<"1", "10", "0", "rc", "ts">>) @@ ("null" :> <<"null">>)
  @@ ("com.User" :> <<"com", "user">>)
  @@ ("com.User.1.10.0.rc.ts" :> <<"com", "user", "1", "10", "0", "rc", "ts">>)

\* a/user.schema.ts, user.com-user.schema.ts, user.schema.js, user.schema.ts, users.ts
Source(dir, name) == [dir |-> dir, name |-> name]
MCSourcePaths ==
  << Source("a", << <<"user">>, <<"schema">>, <<"ts">> >>),
     Source("", << <<"user">>, <<"com", "user">>, <<"schema">>, <<"ts">> >>),
     Source("", << <<"user">>, <<"schema">>, <<"js">> >>),
     Source("", << <<"user">>, <<"schema">>, <<"ts">> >>),
     Source("", << <<"users">>, <<"ts">> >>) >>

Header(to) == [opens |-> TRUE, fields |-> [f \in RequiredFields |->
                 CASE f = "schemaId" -> "com.User" [] f = "fromVersion" -> "1" [] f = "toVersion" -> to
                   [] OTHER -> "good"]]
MCHeaders ==
  {Header("2"), Header("3"), [opens |-> FALSE, fields |-> <<>>],
   [opens |-> TRUE, fields |-> [Header("2").fields EXCEPT !["toIrHash"] = "malformed"]],
   [opens |-> TRUE, fields |-> [f \in RequiredFields \ {"toVersion"} |-> Header("2").fields[f]]]}
=============================================================================
