-------------------------------- MODULE Payload --------------------------------
(******************************************************************************)
(* From the message of the controller and the document of a function to what    *)
(* the container is sent: ParseActivationMessage (pkg/protocol/activation.go)    *)
(* with Decrypt (pkg/encryption), FunctionCode.UnmarshalJSON                     *)
(* (pkg/entities/function.go) with the attachment of GetFunction                 *)
(* (pkg/couchdb/client.go), IsTruthy (annotations.go) and the two payloads of    *)
(* pkg/exec/payload.go.  Of a value only its form is kept: which JSON type its   *)
(* plain text has, how it is sealed or encoded; whose value it is follows from   *)
(* where it is.                                                                  *)
(******************************************************************************)
EXTENDS Integers

CONSTANTS
  Names,       \* names of parameters
  KeyNames,    \* encryption keys messages may refer to
  Known,       \* those the invoker has
  OwnNames,    \* variables the invoker sets in the environment of every container
  APIKeyName,  \* and the one of the API key; parameters may have these names, too
  Absent       \* what a document does not have

VARIABLES
  message,     \* as the controller wrote it
  function,    \* its document, with the attachment of its code
  parsed,      \* ActivationMessage, if there is one
  payloads,    \* what the container was sent
  stage        \* how far the invocation is

payloadVars == <<message, function, parsed, payloads, stage>>

\* The error of a value that cannot be decrypted.
Sealed == "sealed"

--------------------------------------------------------------------------------
(* The message.                                                                 *)

\* A parameter: the JSON type of its plain text, and whether it was encrypted, with which key, how well.
\* What was encrypted need not be JSON: "cut" begins like a string, "bare" does not.
Values ==
  [type : {"string", "other"}, sealed : {"no"}, key : {Absent}]
    \cup [type : {"string", "other", "cut", "bare"}, sealed : {"well"}, key : KeyNames]
    \cup [type : {"string"}, sealed : {"short", "nonce", "tampered"}, key : KeyNames]

\* What a value reads as when nobody decrypts it: a sealed one is a string of base64.
Form(value) == IF value.sealed = "no" THEN value.type ELSE "encrypted"

\* Decrypt: a key that is known, enough bytes, the expected length of the nonce, and what GCM accepts.
Decrypt(keyName, value) ==
  IF keyName \notin Known \/ value.sealed \in {"short", "nonce", "tampered"} \/ value.key # keyName
  THEN Sealed ELSE value.type

\* A locked parameter is base64-decoded first.  One that was never encrypted does not come through:
\* a string is no base64 of enough bytes, and anything else has none.
Unlock(keyName, value) == IF value.sealed = "no" THEN Sealed ELSE Decrypt(keyName, value)

\* The value of one parameter of the content.
Resolve(m, n) == IF m.lockedArgs[n] # Absent THEN Unlock(m.lockedArgs[n], m.content[n]) ELSE Form(m.content[n])

\* What a controller sends: parameters, which of them are for the start of a container, which are locked.
Messages ==
  [ wellFormed : BOOLEAN, content : [Names -> Values \cup {Absent}], initArgs : SUBSET Names,
    lockedArgs : [Names -> KeyNames \cup {Absent}], apiKey : {"key", Absent}, storeActivations : BOOLEAN \cup {Absent} ]

Given(m) == {n \in Names : m.content[n] # Absent}

\* The given parameters among S, with their values.
Partition(m, S) == [n \in S \cap Given(m) |-> Resolve(m, n)]

\* What is parsed: the values of some of the parameters, twice, and two properties of the message.
Forms == {"string", "other", "cut", "bare", "encrypted"}
ParameterMaps == UNION {[S -> Forms] : S \in SUBSET Names}
ActivationMessages ==
  [initParameters : ParameterMaps, parameters : ParameterMaps, apiKey : {"key", Absent}, store : BOOLEAN]

\* What is read from the code of a function.
FunctionCodes == [resolved : {"plain", "base64", "nothing"}, attachment : BOOLEAN]

\* What is refused is not taken for something that was parsed.
ASSUME AbsentAssumption == Absent \notin ActivationMessages /\ Absent \notin FunctionCodes
ASSUME NamesAssumption  == APIKeyName \notin OwnNames

\* ParseActivationMessage: the first parameter that cannot be unlocked refuses the message.
ParseActivationMessage(m) ==
  IF ~m.wellFormed \/ \E n \in Given(m) : Resolve(m, n) = Sealed
  THEN Absent
  ELSE [ initParameters |-> Partition(m, m.initArgs),
         parameters     |-> Partition(m, Names \ m.initArgs),
         apiKey         |-> m.apiKey,
         store          |-> m.storeActivations # FALSE ]

Parse ==
  /\ stage = "arrived"
  /\ parsed' = ParseActivationMessage(message)
  /\ stage' = IF parsed' = Absent THEN "rejected" ELSE "parsed"
  /\ UNCHANGED <<message, function, payloads>>

--------------------------------------------------------------------------------
(* The function.                                                                *)

\* The ways to store code: a string is plain text or the base64 of a binary.  The name of an inlined
\* attachment is the base64 of its bytes, if it can be decoded.
Codes ==
  [form : {"inlined"}, bytes : {"plain", "base64", "nothing"}, octets : {FALSE}]
    \cup [form : {"mem", "attachment"}, bytes : {"plain", "nothing"}, octets : {FALSE}]
    \cup [form : {"mem", "attachment"}, bytes : {"binary", "nothing"}, octets : {TRUE}]
    \cup [form : {"mem"}, bytes : {"garbled"}, octets : BOOLEAN]
    \cup [form : {"null"}, bytes : {"nothing"}, octets : {FALSE}]
\* The document of a function: its code, and the annotation that says whether it is given the API key.
Documents ==
  [ code : Codes,
    provideAPIKey : {Absent, "null", "true", "false", "0", "1", "\"\"", "text", "list"} ]

\* UnmarshalJSON: an inlined string, an attachment in its own name, one to be fetched, or no code.
UnmarshalCode(doc) ==
  CASE doc.form = "inlined"    -> [resolved |-> doc.bytes, attachment |-> FALSE]
    [] doc.form = "mem"        -> IF doc.bytes = "garbled" THEN Absent
                                  ELSE [resolved |-> IF doc.bytes = "nothing" THEN "nothing"
                                                     ELSE IF doc.octets THEN "base64" ELSE doc.bytes,
                                        attachment |-> FALSE]
    [] doc.form = "attachment" -> [resolved |-> "nothing", attachment |-> TRUE]
    [] doc.form = "null"       -> [resolved |-> "nothing", attachment |-> FALSE]

\* GetFunction: an attachment is fetched, and encoded when it is binary.
Resolved(doc) ==
  LET code == UnmarshalCode(doc) IN
  IF ~code.attachment THEN code.resolved
  ELSE IF doc.octets /\ doc.bytes # "nothing" THEN "base64" ELSE doc.bytes

\* GetFunction before the container: a document that cannot be read ends the invocation.
FetchCode ==
  /\ stage = "parsed"
  /\ stage' = IF UnmarshalCode(function.code) = Absent THEN "failed" ELSE "fetched"
  /\ UNCHANGED <<message, function, parsed, payloads>>

\* IsTruthy of an annotation: booleans, numbers, strings, null, lists and objects.
IsTruthy(value, valueForNonExistent) ==
  IF value = Absent THEN valueForNonExistent ELSE value \notin {"false", "0", "\"\"", "null"}

--------------------------------------------------------------------------------
(* The payloads.                                                                *)

\* An environment variable is a text: strings lose their quotes, everything else stays JSON.
EnvValue(form) == IF form = "string" THEN "text" ELSE form

PassedAPIKey == IF IsTruthy(function.provideAPIKey, TRUE) THEN parsed.apiKey ELSE Absent

\* The variables of the invoker, with the API key if there is one to pass.
Environment ==
  [v \in OwnNames \cup {k \in {APIKeyName} : PassedAPIKey # Absent} |-> IF v = APIKeyName THEN PassedAPIKey ELSE "own"]

\* Mutation: the environment of the invoker comes last.
EnvironmentLast(parameters) ==
  [v \in DOMAIN Environment \cup DOMAIN parameters |->
     IF v \in DOMAIN Environment THEN Environment[v] ELSE EnvValue(parameters[v])]
\* One map: a parameter replaces a variable of the invoker that has its name.
WithParameters(parameters) ==
  [v \in DOMAIN Environment \cup DOMAIN parameters |->
     IF v \in DOMAIN parameters THEN EnvValue(parameters[v]) ELSE Environment[v]]

ContainerInitPayload ==
  [code |-> Resolved(function.code), env |-> WithParameters(parsed.initParameters)]
ContainerRunPayload ==
  [value |-> parsed.parameters, apiKey |-> PassedAPIKey]

\* json.Marshal of a payload fails: in the environment what begins like a string has to be one, and a
\* parameter of the run has to be JSON.
Unwritable(parameters, wrong) == \E n \in DOMAIN parameters : parameters[n] \in wrong
Unsent == stage' = "failed" /\ UNCHANGED payloads

\* Initialize, of a container that was not used before.
SendInit ==
  /\ stage = "fetched"
  /\ \/ Unwritable(parsed.initParameters, {"cut"}) /\ Unsent
     \/ /\ ~Unwritable(parsed.initParameters, {"cut"})
        /\ payloads' = [payloads EXCEPT !.init = ContainerInitPayload]
        /\ stage' = "initialized"
  /\ UNCHANGED <<message, function, parsed>>

\* Run: a message without content has no parameters, which is sent as {}.
SendRun ==
  /\ stage \in {"fetched", "initialized"}
  /\ \/ Unwritable(parsed.parameters, {"cut", "bare"}) /\ Unsent
     \/ /\ ~Unwritable(parsed.parameters, {"cut", "bare"})
        /\ payloads' = [payloads EXCEPT !.run = ContainerRunPayload]
        /\ stage' = "sent"
  /\ UNCHANGED <<message, function, parsed>>

NoPayload == [init |-> Absent, run |-> Absent]
PayloadInit(calls) ==
  /\ \E call \in calls : message = call[1] /\ function = call[2]
  /\ parsed = Absent /\ payloads = NoPayload /\ stage = "arrived"
PayloadIdle ==
  /\ message = Absent /\ function = Absent
  /\ parsed = Absent /\ payloads = NoPayload /\ stage = "idle"
PayloadNext == Parse \/ FetchCode \/ SendInit \/ SendRun

--------------------------------------------------------------------------------
(* What the controller and the runtimes rely on.                                *)

\* The parameter reached the function in its place and can be read there: parameters of initArgs as
\* environment variables of a new container, all others as arguments of the run.
Delivered(n) ==
  LET type == message.content[n].type IN
  IF n \in message.initArgs
  THEN /\ n \notin DOMAIN payloads.run.value
       /\ payloads.init # Absent =>
            /\ type # "cut" /\ n \in DOMAIN payloads.init.env
            /\ payloads.init.env[n] = IF type = "string" THEN "text" ELSE type
  ELSE n \in DOMAIN payloads.run.value /\ payloads.run.value[n] = type /\ type \in {"string", "other"}

\* Locked parameters can be opened: encrypted by the key the message names for them.
Openable(n) ==
  message.lockedArgs[n] = Absent
    \/ /\ message.content[n].sealed = "well"
       /\ message.content[n].key = message.lockedArgs[n] /\ message.content[n].key \in Known

\* The code a runtime reads: text, or the base64 encoding of a binary, however it was stored.
Readable(doc, code) ==
  code = IF doc.form = "null" \/ doc.bytes = "nothing" THEN "nothing"
         ELSE IF doc.octets THEN "base64" ELSE doc.bytes

\* What nobody could deliver: encrypted plain text that is no JSON, or code that is no base64.
Undeliverable == function.code.bytes = "garbled" \/ \E n \in Given(message) : message.content[n].type \in {"cut", "bare"}

\* A message is refused as a whole when one of its parameters cannot be unlocked, and nothing is sent;
\* a run is given up only for a value or a code that cannot be read.  Of any other message every parameter
\* arrives once, as plain text, on the side initArgs says (pkg/protocol/activation.go:128-163), in the form
\* the runtime reads it in; a parameter that no key locks stays what it was.  The code arrives in the one
\* form the runtime reads for each of the ways it is stored in (pkg/entities/function.go:111-123).  The
\* environment of a new container has the invoker's variables and the API key beside the parameters, in
\* one map (pkg/exec/payload.go:47-73): only an init parameter of the same name takes their place, never
\* one of the run; and the API key is there only if the function does not refuse it
\* (pkg/runner/runner.go:242-246).
PayloadExact ==
  /\ stage = "rejected" =>
       /\ payloads = NoPayload
       /\ ~message.wellFormed \/ \E n \in Given(message) : ~Openable(n)
  /\ stage = "failed" => payloads.run = Absent /\ Undeliverable
  /\ stage = "sent" =>
       /\ message.wellFormed
       /\ \A n \in Given(message) :
            /\ Openable(n)
            /\ message.lockedArgs[n] # Absent \/ message.content[n].sealed = "no" => Delivered(n)
       /\ DOMAIN payloads.run.value \subseteq Given(message)
       /\ payloads.run.apiKey # Absent =>
            payloads.run.apiKey = message.apiKey /\ function.provideAPIKey \in {Absent, "true", "1", "text", "list"}
       /\ payloads.init # Absent =>
            LET own == OwnNames \cup {k \in {APIKeyName} : payloads.run.apiKey # Absent} IN
            /\ Readable(function.code, payloads.init.code)
            /\ DOMAIN payloads.init.env = own \cup (Given(message) \cap message.initArgs)
            /\ \A v \in own : v \notin Given(message) \cap message.initArgs =>
                 payloads.init.env[v] = IF v = APIKeyName THEN payloads.run.apiKey ELSE "own"

================================================================================
