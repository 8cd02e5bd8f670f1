-------------------------- MODULE MCApiProcess ---------------------------
(* One setting written in a file and one in the environment, of one section. *)
EXTENDS ApiProcess

\* What a file may say of a setting, by its type: within and beyond its limits.
InFile(setting) ==
    CASE setting.type = "flag" -> {Bool(TRUE), Bool(FALSE), Integer(1)}
      [] setting.type = "name" -> {Text("other"), Text(Blank), Null}
      [] setting.type = "choice" ->
            {Text(c) : c \in setting.choices} \cup {Text("unknown"), Bool(TRUE)}
      [] setting.type = "int" ->
            {Integer(setting.low), Integer(setting.low - 1), Float(setting.low), Bool(TRUE)}
            \cup (IF setting.high = NoLimit THEN {}
                  ELSE {Integer(setting.high), Integer(setting.high + 1)})
      [] OTHER ->
            {Integer(setting.low), Float(setting.low - 1), NaN, Infinity}
            \cup (IF setting.high = NoLimit THEN {}
                  ELSE {Float(setting.high), Float(setting.high + 1)})

InEnvironment(setting) ==
    CASE setting.type = "flag" -> {Bool(TRUE), Bool(FALSE), Integer(0), Text("other")}
      [] setting.type \in {"name", "choice"} ->
            {Text(c) : c \in setting.choices} \cup {Text("other"), Text(Blank)}
      [] setting.type = "int" ->
            {Integer(setting.low), Integer(setting.low - 1), NaN, Text(Blank)}
      [] OTHER -> {Integer(setting.low), Integer(setting.low - 1), NaN, Text("other")}

\* The file that says v at p.
FileWith(p, v) ==
    IF p[1] # "ops" THEN Mapping(p[1] :> Mapping(p[2] :> v))
    ELSE Mapping("ops" :> Mapping("retention" :> Mapping(
             p[2] :> IF Len(p) = 2 THEN v ELSE Mapping(p[3] :> v))))

Nothing == [p \in {} |-> Null]
Files(explicit, environment, default) ==
    [explicit |-> explicit, environment |-> environment, default |-> default]

Database == <<"database", "url">> :> Text("postgresql")

FilesOf(p) == {FileWith(p, v) : v \in InFile(SettingAt(p))}
EnvironmentsOf(p) == {p :> v @@ Database : v \in InEnvironment(SettingAt(p))}

\* Files of other shapes: empty, unknown names, sections without content, and
\* a retention that deletes without a domain.
OddFiles ==
    {Invalid, Missing, NoFile, Mapping(Nothing), Mapping("no_section" :> Null),
     Mapping("camera" :> Null), Mapping("camera" :> Integer(1)),
     Mapping("camera" :> Mapping("no_key" :> Integer(1))),
     Mapping("ops" :> Mapping("retention" :> Null)),
     Mapping("ops" :> Mapping("retention" :> Integer(1))),
     Mapping("ops" :> Mapping("retention" :> Mapping("entities" :> Null))),
     Mapping("ops" :> Mapping("retention" :> Mapping("entities" :> Integer(1)))),
     Mapping("ops" :> Mapping("retention" :> Mapping("entities" :>
                 Mapping("keep_days" :> Integer(1))))),
     Mapping("ops" :> Mapping("retention" :> Mapping(
                 "enabled" :> Bool(TRUE) @@ "dry_run" :> Bool(FALSE))))}

Single == [section \in DOMAIN DefaultValues |-> {p \in Paths : p[1] = section}]

MCInputs ==
    UNION {[files : {Files(NoFile, NoFile, f) : f \in UNION {FilesOf(p) : p \in Single[s]}},
            environ : {Database} \cup UNION {EnvironmentsOf(p) : p \in Single[s]}] :
           s \in DOMAIN Single}
    \cup [files : {Files(e, v, d) : e, v, d \in {NoFile, Missing} \cup
                       FilesOf(<<"camera", "width">>)},
          environ : {Nothing, Database}]
    \cup [files : {Files(NoFile, NoFile, f) : f \in OddFiles},
          environ : {Database} \cup EnvironmentsOf(<<"ops", "entities", "enabled">>)]

=============================================================================
