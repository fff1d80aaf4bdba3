----------------------------- MODULE MCConversions -----------------------------
(* Inputs of the conversions.                                                  *)
EXTENDS Conversions

\* Two parameters, one named like the variable of the API key, given or not, sealed or not, locked or
\* not, for the start or for the run.
FullMessages ==
  [ wellFormed : {TRUE}, content : [Names -> Values \cup {Absent}], initArgs : SUBSET Names,
    lockedArgs : [Names -> KeyNames \cup {Absent}], apiKey : {"key"}, storeActivations : {Absent} ]
EmptyMessages ==
  [ wellFormed : BOOLEAN, content : [Names -> {Absent}], initArgs : {{}},
    lockedArgs : [Names -> {Absent}], apiKey : {"key", Absent}, storeActivations : BOOLEAN ]

\* Code of every form, and every value of the annotation.
PlainCode == [form |-> "inlined", bytes |-> "plain", octets |-> FALSE]
AllFunctions ==
  [code : Codes, provideAPIKey : {Absent, "null"}]
    \cup [code : {PlainCode}, provideAPIKey : {"true", "false", "0", "1", "\"\"", "text", "list"}]
AllCalls == FullMessages \X [code : {PlainCode}, provideAPIKey : {Absent, "false"}] \cup EmptyMessages \X AllFunctions

\* Sizes that are written differently and are the same, and one without a known unit.
Text(n, u) == [number |-> n, unit |-> u]
Cell(n, t) == [count |-> n, memory |-> t]
Stemcells  == { <<>>, <<Cell(2, Text(1, "M"))>>, <<Cell(1, Text(4, "M")), Cell(3, Text(1, "G"))>>,
                <<Cell(1, Text(4, "K")), Cell(1, Text(2, "M"))>>, <<Cell(1, Text(1, "T"))>> }
\* Kinds of one family and of both, and one that is the alias of a family.
NodeVersions   == [ kind : {<<"nodejs", "1">>, <<"shared", "1">>, <<"nodejs", "default">>}, default : BOOLEAN,
                    stemcells : Stemcells ]
PythonVersions == [ kind : {<<"python", "1">>, <<"shared", "1">>, <<"nodejs", "default">>}, default : BOOLEAN,
                    stemcells : {<<Cell(2, Text(1, "M"))>>} ]
UpTo2(S) == {<<>>} \cup {<<v>> : v \in S} \cup {<<v, w>> : v, w \in S}
AllConfigurations == {[f \in {"nodejs", "python"} |-> IF f = "nodejs" THEN n ELSE p] :
                        n \in UpTo2(NodeVersions), p \in UpTo2(PythonVersions)}

\* Namespaces without annotations, with one of their own, and with one for each name of the schema.
SomeRequests ==
  [ cause : BOOLEAN, binding : BOOLEAN, builder : BOOLEAN, annotations : {{}, {"custom"}, AnnotationNames} ]

================================================================================
