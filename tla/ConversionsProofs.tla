---------------------------- MODULE ConversionsProofs ----------------------------
(******************************************************************************)
(* Proofs about the conversions, for any names, keys, messages, configurations,  *)
(* memory limits and times: what a container is sent is what the controller      *)
(* wrote (PayloadExact), an activation says what happened (ActivationRendered),  *)
(* and a configuration means the same in whatever order its map is walked        *)
(* (ManifestsAsConfigured).                                                      *)
(******************************************************************************)
EXTENDS Conversions, WellFoundedInduction, TLAPS

--------------------------------------------------------------------------------
(* The payloads.                                                                 *)

Before == {"idle", "arrived", "rejected", "parsed", "fetched"}
Parsed == {"parsed", "fetched", "initialized", "sent", "failed"}

\* What is parsed, and what is sent, at each stage.
PayloadInv ==
  /\ stage \in {"idle", "arrived", "rejected"} \cup Parsed
  /\ stage # "idle" => message \in Messages /\ function \in Documents
  /\ stage \in Before => payloads = NoPayload
  /\ stage \in {"rejected"} \cup Parsed => parsed = ParseActivationMessage(message)
  /\ stage = "rejected" => parsed = Absent
  /\ stage \in Parsed => parsed # Absent
  /\ stage \in {"fetched", "initialized", "sent"} => UnmarshalCode(function.code) # Absent
  /\ stage = "initialized" =>
       payloads = [init |-> ContainerInitPayload, run |-> Absent] /\ ~Unwritable(parsed.initParameters, {"cut"})
  /\ stage = "failed" =>
       /\ payloads.run = Absent
       /\ \/ UnmarshalCode(function.code) = Absent
          \/ Unwritable(parsed.initParameters, {"cut"}) \/ Unwritable(parsed.parameters, {"cut", "bare"})
  /\ stage = "sent" =>
       /\ ~Unwritable(parsed.parameters, {"cut", "bare"})
       /\ \/ payloads = [init |-> Absent, run |-> ContainerRunPayload]
          \/ /\ payloads = [init |-> ContainerInitPayload, run |-> ContainerRunPayload]
             /\ ~Unwritable(parsed.initParameters, {"cut"})

\* A given parameter is a value, and one that no key locks, or the right one, is resolved to its type.
LEMMA ResolveGiven ==
  ASSUME NEW m \in Messages, NEW n \in Given(m)
  PROVE  /\ n \in Names /\ m.content[n] \in Values
         /\ m.lockedArgs[n] # Absent =>
              /\ Resolve(m, n) = IF /\ m.content[n].sealed = "well" /\ m.content[n].key = m.lockedArgs[n]
                                    /\ m.content[n].key \in Known
                                 THEN m.content[n].type ELSE Sealed
         /\ m.lockedArgs[n] = Absent =>
              Resolve(m, n) = IF m.content[n].sealed = "no" THEN m.content[n].type ELSE "encrypted"
         /\ m.content[n].type \in {"string", "other", "cut", "bare"}
<1>1. n \in Names /\ m.content[n] \in Values
  BY DEF Messages, Given
<1>2. PICK v : v = m.content[n]
  OBVIOUS
<1>3. /\ v.type \in {"string", "other", "cut", "bare"} /\ v.sealed \in {"no", "well", "short", "nonce", "tampered"}
  BY <1>1, <1>2 DEF Values
<1> QED
  BY <1>1, <1>2, <1>3 DEF Resolve, Unlock, Decrypt, Form

\* What is resolved is a readable value or refuses the message.
LEMMA PartitionType ==
  ASSUME NEW m \in Messages, NEW S \in SUBSET Names, \A n \in Given(m) : Resolve(m, n) # Sealed
  PROVE  Partition(m, S) \in ParameterMaps
<1>1. \A n \in S \cap Given(m) : Resolve(m, n) \in Forms
  BY ResolveGiven DEF Forms
<1>2. PICK T : T = S \cap Given(m)
  OBVIOUS
<1>3. Partition(m, S) \in [T -> Forms]
  BY <1>1, <1>2 DEF Partition
<1>4. T \in SUBSET Names
  BY <1>2
<1> QED
  BY <1>3, <1>4 DEF ParameterMaps

\* A message is refused because of its form or of one of its parameters, and for no other reason.
LEMMA ParseRefuses ==
  ASSUME NEW m \in Messages
  PROVE  (ParseActivationMessage(m) = Absent) <=> (~m.wellFormed \/ \E n \in Given(m) : Resolve(m, n) = Sealed)
<1>1. ASSUME ~(~m.wellFormed \/ \E n \in Given(m) : Resolve(m, n) = Sealed)
      PROVE  ParseActivationMessage(m) # Absent
  <2>1. m.initArgs \in SUBSET Names /\ Names \ m.initArgs \in SUBSET Names /\ m.apiKey \in {"key", Absent}
    BY DEF Messages
  <2>2. Partition(m, m.initArgs) \in ParameterMaps /\ Partition(m, Names \ m.initArgs) \in ParameterMaps
    BY <1>1, <2>1, PartitionType
  <2>3. ParseActivationMessage(m) \in ActivationMessages
    BY <1>1, <2>1, <2>2 DEF ParseActivationMessage, ActivationMessages
  <2> QED
    BY <2>3, AbsentAssumption
<1> QED
  BY <1>1 DEF ParseActivationMessage

LEMMA PayloadInvInit == Init => PayloadInv
<1>1. PayloadIdle => PayloadInv
  BY DEF PayloadIdle, PayloadInv, Before, Parsed
<1>2. PayloadInit(Calls) => PayloadInv
  BY CallsAssumption DEF PayloadInit, PayloadInv, Before, Parsed
<1> QED
  BY <1>1, <1>2 DEF Init

\* A step of the conversions leaves what the payloads are made from.
LEMMA SameSources ==
  ASSUME UNCHANGED <<message, function, parsed>>
  PROVE  /\ ContainerInitPayload' = ContainerInitPayload /\ ContainerRunPayload' = ContainerRunPayload
         /\ ParseActivationMessage(message)' = ParseActivationMessage(message)
         /\ UnmarshalCode(function.code)' = UnmarshalCode(function.code)
         /\ Unwritable(parsed.initParameters, {"cut"})' = Unwritable(parsed.initParameters, {"cut"})
         /\ Unwritable(parsed.parameters, {"cut", "bare"})' = Unwritable(parsed.parameters, {"cut", "bare"})
<1>1. PassedAPIKey' = PassedAPIKey /\ Environment' = Environment
  BY DEF PassedAPIKey, Environment
<1> QED
  BY <1>1 DEF ContainerInitPayload, ContainerRunPayload, WithParameters

LEMMA PayloadInvStep == PayloadInv /\ [Next]_vars => PayloadInv'
<1> SUFFICES ASSUME PayloadInv, [Next]_vars PROVE PayloadInv'
  OBVIOUS
<1>1. CASE Parse
  BY <1>1 DEF Parse, PayloadInv, Before, Parsed
<1>2. CASE FetchCode
  <2>1. UNCHANGED <<message, function, parsed>>
    BY <1>2 DEF FetchCode
  <2> QED
    BY <1>2, <2>1, SameSources DEF FetchCode, PayloadInv, Before, Parsed, NoPayload
<1>3. CASE SendInit
  <2>1. UNCHANGED <<message, function, parsed>>
    BY <1>3 DEF SendInit
  <2>2. /\ stage = "fetched" /\ payloads = NoPayload /\ parsed = ParseActivationMessage(message) /\ parsed # Absent
        /\ message \in Messages /\ function \in Documents /\ UnmarshalCode(function.code) # Absent
    BY <1>3 DEF SendInit, PayloadInv, Before, Parsed
  <2>3. CASE Unsent /\ Unwritable(parsed.initParameters, {"cut"})
    BY <2>1, <2>2, <2>3, SameSources DEF Unsent, PayloadInv, Before, Parsed, NoPayload
  <2>4. CASE /\ ~Unwritable(parsed.initParameters, {"cut"})
             /\ payloads' = [payloads EXCEPT !.init = ContainerInitPayload] /\ stage' = "initialized"
    <3>1. payloads' = [init |-> ContainerInitPayload, run |-> Absent]
      BY <2>2, <2>4 DEF NoPayload
    <3> QED
      BY <2>1, <2>2, <2>4, <3>1, SameSources DEF PayloadInv, Before, Parsed
  <2> QED
    BY <1>3, <2>3, <2>4 DEF SendInit
<1>4. CASE SendRun
  <2>1. UNCHANGED <<message, function, parsed>>
    BY <1>4 DEF SendRun
  <2>2. /\ stage \in {"fetched", "initialized"} /\ parsed = ParseActivationMessage(message) /\ parsed # Absent
        /\ message \in Messages /\ function \in Documents /\ UnmarshalCode(function.code) # Absent
        /\ \/ payloads = [init |-> Absent, run |-> Absent]
           \/ payloads = [init |-> ContainerInitPayload, run |-> Absent] /\ ~Unwritable(parsed.initParameters, {"cut"})
    BY <1>4 DEF SendRun, PayloadInv, Before, Parsed, NoPayload
  <2>3. CASE Unsent /\ Unwritable(parsed.parameters, {"cut", "bare"})
    BY <2>1, <2>2, <2>3, SameSources DEF Unsent, PayloadInv, Before, Parsed
  <2>4. CASE /\ ~Unwritable(parsed.parameters, {"cut", "bare"})
             /\ payloads' = [payloads EXCEPT !.run = ContainerRunPayload] /\ stage' = "sent"
    <3>1. \/ payloads' = [init |-> Absent, run |-> ContainerRunPayload]
          \/ /\ payloads' = [init |-> ContainerInitPayload, run |-> ContainerRunPayload]
             /\ ~Unwritable(parsed.initParameters, {"cut"})
      BY <2>2, <2>4
    <3> QED
      BY <2>1, <2>2, <2>4, <3>1, SameSources DEF PayloadInv, Before, Parsed
  <2> QED
    BY <1>4, <2>3, <2>4 DEF SendRun
<1>5. CASE UNCHANGED payloadVars
  <2>1. UNCHANGED <<message, function, parsed>>
    BY <1>5 DEF payloadVars
  <2> QED
    BY <1>5, <2>1, SameSources DEF payloadVars, PayloadInv, Before, Parsed, NoPayload
<1> QED
  BY <1>1, <1>2, <1>3, <1>4, <1>5 DEF Next, PayloadNext, vars

\* Each way to store code, but one, comes out in the form a runtime reads.
LEMMA CodeReadable ==
  ASSUME NEW d \in Codes
  PROVE  /\ UnmarshalCode(d) = Absent => d.bytes = "garbled"
         /\ UnmarshalCode(d) # Absent => Readable(d, Resolved(d))
<1>1. /\ d.form \in {"inlined", "mem", "attachment", "null"} /\ d.octets \in BOOLEAN
      /\ d.form = "inlined" => d.bytes \in {"plain", "base64", "nothing"} /\ d.octets = FALSE
      /\ d.form = "mem" => d.bytes \in {"plain", "nothing", "binary", "garbled"} /\ (d.bytes = "binary" => d.octets = TRUE)
      /\ d.form = "null" => d.bytes = "nothing"
  BY DEF Codes
<1>2. \A r \in FunctionCodes : r # Absent
  BY AbsentAssumption
<1>3. CASE d.form = "inlined"
  <2>1. UnmarshalCode(d) = [resolved |-> d.bytes, attachment |-> FALSE]
    BY <1>3 DEF UnmarshalCode
  <2>2. UnmarshalCode(d) \in FunctionCodes
    BY <1>1, <1>3, <2>1 DEF FunctionCodes
  <2>3. Resolved(d) = d.bytes
    BY <2>1 DEF Resolved
  <2>4. Readable(d, d.bytes)
    BY <1>1, <1>3 DEF Readable
  <2> QED
    BY <1>2, <2>2, <2>3, <2>4
<1>4. CASE d.form = "mem"
  <2>1. d.bytes # "garbled" =>
          UnmarshalCode(d) = [resolved |-> IF d.bytes = "nothing" THEN "nothing" ELSE IF d.octets THEN "base64" ELSE d.bytes,
                              attachment |-> FALSE]
    BY <1>4 DEF UnmarshalCode
  <2>2. d.bytes # "garbled" => UnmarshalCode(d) \in FunctionCodes
    <3> SUFFICES ASSUME d.bytes # "garbled" PROVE UnmarshalCode(d) \in FunctionCodes
      OBVIOUS
    <3>1. PICK x : x = IF d.bytes = "nothing" THEN "nothing" ELSE IF d.octets THEN "base64" ELSE d.bytes
      OBVIOUS
    <3>2. d.octets \/ d.bytes \in {"plain", "nothing"}
      BY <1>1, <1>4
    <3>3. x \in {"plain", "base64", "nothing"}
      BY <3>1, <3>2
    <3>4. UnmarshalCode(d) = [resolved |-> x, attachment |-> FALSE]
      BY <2>1, <3>1
    <3> QED
      BY <3>3, <3>4 DEF FunctionCodes
  <2>3. d.bytes = "garbled" => UnmarshalCode(d) = Absent
    BY <1>4 DEF UnmarshalCode
  <2> QED
    BY <1>1, <1>2, <1>4, <2>1, <2>2, <2>3 DEF Readable, Resolved
<1>5. CASE d.form = "attachment"
  <2>1. UnmarshalCode(d) = [resolved |-> "nothing", attachment |-> TRUE]
    BY <1>5 DEF UnmarshalCode
  <2>2. UnmarshalCode(d) \in FunctionCodes
    BY <2>1 DEF FunctionCodes
  <2>3. Resolved(d) = IF d.octets /\ d.bytes # "nothing" THEN "base64" ELSE d.bytes
    BY <2>1 DEF Resolved
  <2>4. Readable(d, Resolved(d))
    BY <1>5, <2>3 DEF Readable
  <2> QED
    BY <1>2, <2>2, <2>4
<1>6. CASE d.form = "null"
  <2>1. UnmarshalCode(d) = [resolved |-> "nothing", attachment |-> FALSE]
    BY <1>6 DEF UnmarshalCode
  <2>2. UnmarshalCode(d) \in FunctionCodes
    BY <2>1 DEF FunctionCodes
  <2>3. Resolved(d) = "nothing"
    BY <2>1 DEF Resolved
  <2>4. Readable(d, Resolved(d))
    BY <1>6, <2>3 DEF Readable
  <2> QED
    BY <1>2, <2>2, <2>4
<1> QED
  BY <1>1, <1>3, <1>4, <1>5, <1>6

\* What a message that was not refused is parsed to.
LEMMA ParsedMessage ==
  ASSUME PayloadInv, stage \in Parsed
  PROVE  /\ message \in Messages /\ function \in Documents /\ function.code \in Codes
         /\ message.initArgs \subseteq Names
         /\ message.wellFormed /\ \A n \in Given(message) : Resolve(message, n) # Sealed
         /\ parsed.initParameters = Partition(message, message.initArgs)
         /\ parsed.parameters = Partition(message, Names \ message.initArgs)
         /\ parsed.apiKey = message.apiKey
<1>1. /\ message \in Messages /\ function \in Documents /\ parsed = ParseActivationMessage(message) /\ parsed # Absent
  BY DEF PayloadInv, Parsed
<1>2. message.initArgs \subseteq Names /\ function.code \in Codes
  BY <1>1 DEF Messages, Documents
<1>3. message.wellFormed /\ \A n \in Given(message) : Resolve(message, n) # Sealed
  BY <1>1, ParseRefuses
<1> QED
  BY <1>1, <1>2, <1>3 DEF ParseActivationMessage

\* A parameter that is no JSON was encrypted so.
LEMMA UnwritableGiven ==
  ASSUME NEW m \in Messages, NEW S \in SUBSET Names, \A n \in Given(m) : Resolve(m, n) # Sealed,
         Unwritable(Partition(m, S), {"cut", "bare"})
  PROVE  \E n \in Given(m) : m.content[n].type \in {"cut", "bare"}
<1>1. PICK n \in S \cap Given(m) : Resolve(m, n) \in {"cut", "bare"}
  BY DEF Unwritable, Partition
<1> QED
  BY <1>1, ResolveGiven

\* What was sent is what the message and the document say.
LEMMA PayloadInvExact == PayloadInv => PayloadExact
<1> SUFFICES ASSUME PayloadInv PROVE PayloadExact
  OBVIOUS
<1>1. ASSUME stage = "rejected" PROVE payloads = NoPayload /\ (~message.wellFormed \/ \E n \in Given(message) : ~Openable(n))
  <2>1. payloads = NoPayload /\ message \in Messages /\ ParseActivationMessage(message) = Absent
    BY <1>1 DEF PayloadInv, Before
  <2>2. ~message.wellFormed \/ \E n \in Given(message) : Resolve(message, n) = Sealed
    BY <2>1, ParseRefuses
  <2>3. \A n \in Given(message) : Resolve(message, n) = Sealed => ~Openable(n)
    BY <2>1, ResolveGiven DEF Openable, Sealed
  <2> QED
    BY <2>1, <2>2, <2>3
<1>2. ASSUME stage = "failed" PROVE payloads.run = Absent /\ Undeliverable
  <2>1. stage \in Parsed
    BY <1>2 DEF Parsed
  <2>2. /\ payloads.run = Absent
        /\ \/ UnmarshalCode(function.code) = Absent
           \/ Unwritable(parsed.initParameters, {"cut"}) \/ Unwritable(parsed.parameters, {"cut", "bare"})
    BY <1>2 DEF PayloadInv
  <2>3. CASE UnmarshalCode(function.code) = Absent
    BY <2>1, <2>2, <2>3, ParsedMessage, CodeReadable DEF Undeliverable
  <2>4. CASE Unwritable(parsed.initParameters, {"cut"})
    <3>1. Unwritable(Partition(message, message.initArgs), {"cut", "bare"})
      BY <2>1, <2>4, ParsedMessage DEF Unwritable
    <3> QED
      BY <2>1, <2>2, <3>1, ParsedMessage, UnwritableGiven DEF Undeliverable
  <2>5. CASE Unwritable(parsed.parameters, {"cut", "bare"})
    <3>1. Unwritable(Partition(message, Names \ message.initArgs), {"cut", "bare"})
      BY <2>1, <2>5, ParsedMessage
    <3> QED
      BY <2>1, <2>2, <3>1, ParsedMessage, UnwritableGiven DEF Undeliverable
  <2> QED
    BY <2>2, <2>3, <2>4, <2>5
<1>3. ASSUME stage = "sent"
      PROVE  /\ message.wellFormed
             /\ \A n \in Given(message) :
                  /\ Openable(n)
                  /\ message.lockedArgs[n] # Absent \/ message.content[n].sealed = "no" => Delivered(n)
             /\ DOMAIN payloads.run.value \subseteq Given(message)
             /\ payloads.run.apiKey # Absent =>
                  payloads.run.apiKey = message.apiKey
                    /\ function.provideAPIKey \in {Absent, "true", "1", "text", "list"}
  <2>0. stage \in Parsed
    BY <1>3 DEF Parsed
  <2>1. /\ message \in Messages /\ function \in Documents /\ message.wellFormed
        /\ \A n \in Given(message) : Resolve(message, n) # Sealed
    BY <2>0, ParsedMessage
  <2>2. /\ payloads.run = ContainerRunPayload /\ ~Unwritable(parsed.parameters, {"cut", "bare"})
        /\ payloads.init # Absent =>
             payloads.init = ContainerInitPayload /\ ~Unwritable(parsed.initParameters, {"cut"})
    BY <1>3 DEF PayloadInv
  <2>3. payloads.run.value = Partition(message, Names \ message.initArgs) /\ payloads.run.apiKey = PassedAPIKey
    BY <2>0, <2>2, ParsedMessage DEF ContainerRunPayload
  <2>4. /\ DOMAIN payloads.run.value = (Names \ message.initArgs) \cap Given(message)
        /\ \A n \in (Names \ message.initArgs) \cap Given(message) :
             payloads.run.value[n] = Resolve(message, n) /\ Resolve(message, n) \notin {"cut", "bare"}
    <3>1. PICK p : p = Partition(message, Names \ message.initArgs)
      OBVIOUS
    <3>2. /\ DOMAIN p = (Names \ message.initArgs) \cap Given(message)
          /\ \A n \in DOMAIN p : p[n] = Resolve(message, n)
      BY <3>1 DEF Partition
    <3>3. \A n \in DOMAIN p : p[n] \notin {"cut", "bare"}
      BY <2>0, <2>2, <3>1, ParsedMessage DEF Unwritable
    <3> QED
      BY <2>3, <3>1, <3>2, <3>3
  <2>5. payloads.init # Absent =>
          \A n \in message.initArgs \cap Given(message) :
            /\ n \in DOMAIN payloads.init.env /\ payloads.init.env[n] = EnvValue(Resolve(message, n))
            /\ Resolve(message, n) # "cut"
    <3>1. PICK p : p = Partition(message, message.initArgs)
      OBVIOUS
    <3>2. /\ DOMAIN p = message.initArgs \cap Given(message)
          /\ \A n \in DOMAIN p : p[n] = Resolve(message, n)
      BY <3>1 DEF Partition
    <3>3. payloads.init # Absent => payloads.init.env = WithParameters(p) /\ \A n \in DOMAIN p : p[n] # "cut"
      BY <2>0, <2>2, <3>1, ParsedMessage DEF ContainerInitPayload, Unwritable
    <3> QED
      BY <3>2, <3>3 DEF WithParameters
  <2>6. \A n \in Given(message) : Openable(n)
    BY <2>1, ResolveGiven DEF Openable
  <2>7. ASSUME NEW n \in Given(message), message.lockedArgs[n] # Absent \/ message.content[n].sealed = "no"
        PROVE  Delivered(n)
    <3>1. /\ n \in Names /\ Resolve(message, n) = message.content[n].type
          /\ message.content[n].type \in {"string", "other", "cut", "bare"}
      BY <2>1, <2>7, ResolveGiven
    <3>2. EnvValue(Resolve(message, n)) = IF message.content[n].type = "string" THEN "text" ELSE message.content[n].type
      BY <3>1 DEF EnvValue
    <3> QED
      BY <3>1, <3>2, <2>4, <2>5 DEF Delivered
  <2>8. PassedAPIKey # Absent =>
          PassedAPIKey = message.apiKey /\ function.provideAPIKey \in {Absent, "true", "1", "text", "list"}
    BY <2>0, ParsedMessage DEF PassedAPIKey, IsTruthy, Documents
  <2> QED
    BY <2>1, <2>3, <2>4, <2>6, <2>7, <2>8
<1>4. ASSUME stage = "sent", payloads.init # Absent,
             NEW own, own = OwnNames \cup {k \in {APIKeyName} : payloads.run.apiKey # Absent}
      PROVE  /\ Readable(function.code, payloads.init.code)
             /\ DOMAIN payloads.init.env = own \cup (Given(message) \cap message.initArgs)
             /\ \A v \in own : v \notin Given(message) \cap message.initArgs =>
                  payloads.init.env[v] = IF v = APIKeyName THEN payloads.run.apiKey ELSE "own"
  <2>0. stage \in Parsed
    BY <1>4 DEF Parsed
  <2>1. /\ payloads.run = ContainerRunPayload /\ payloads.init = ContainerInitPayload
        /\ UnmarshalCode(function.code) # Absent
    BY <1>4 DEF PayloadInv
  <2>2. PICK p : p = Partition(message, message.initArgs)
    OBVIOUS
  <2>3. DOMAIN p = Given(message) \cap message.initArgs
    BY <2>2 DEF Partition
  <2>4. /\ payloads.init.env = WithParameters(p) /\ payloads.init.code = Resolved(function.code)
        /\ payloads.run.apiKey = PassedAPIKey
    BY <2>0, <2>1, <2>2, ParsedMessage DEF ContainerInitPayload, ContainerRunPayload
  <2>5. Environment = [v \in own |-> IF v = APIKeyName THEN payloads.run.apiKey ELSE "own"]
    BY <1>4, <2>4 DEF Environment
  <2>6. /\ DOMAIN payloads.init.env = own \cup DOMAIN p
        /\ \A v \in own \ DOMAIN p : payloads.init.env[v] = Environment[v]
    BY <2>4, <2>5 DEF WithParameters
  <2>7. Readable(function.code, payloads.init.code)
    BY <2>0, <2>1, <2>4, ParsedMessage, CodeReadable
  <2> QED
    BY <2>3, <2>5, <2>6, <2>7
<1> QED
  BY <1>1, <1>2, <1>3, <1>4 DEF PayloadExact

\* Whatever the names, keys, messages and documents: a message is refused for a reason that is its own and
\* nothing of it is sent; of any other every parameter, the code and the API key arrive as they were meant
\* (ParseActivationMessage, FunctionCode.UnmarshalJSON, ContainerInitPayload and ContainerRunPayload).
THEOREM PayloadAlwaysExact == Spec => []PayloadExact
  BY PayloadInvInit, PayloadInvStep, PayloadInvExact, PTL DEF Spec

--------------------------------------------------------------------------------
(* The activation.                                                               *)

Working  == {"fetch", "get", "init", "run"}
Finished == {"logs", "marshal", "marshalled"}

Activations ==
  [ annotations : [AnnotationNames -> Notes \cup {None}], start : Int, end : Int, timeout : BOOLEAN, memory : Nat,
    initTime : Nat, waitTime : Nat, logs : {None, "complete", "missing"} \cup Errors, result : Results \cup {None},
    error : Errors \cup {None}, status : {"systemError", "applicationError", "developerError", "success"} ]
Ends == [error : Causes, body : Bodies, state : {"oom", "exited", "running", "", "failed"}]

RecordTypes ==
  /\ progress \in {"idle"} \cup Working \cup Finished
  /\ now \in Nat
  /\ saw \in [ fetch : Steps \cup {None}, get : Steps \cup {None}, errors : SUBSET Ends,
               answer : Answers \cup {None}, used : Nat ]
  /\ progress # "idle" => request \in AllRequests /\ activation \in Activations

\* What holds of an activation all the way.
Accounted ==
  /\ activation.annotations = Started(request)
  /\ request.cause => activation.waitTime = 0
  /\ activation.memory = IF saw.fetch = "found" THEN Memory ELSE 0
  /\ activation.end - activation.start = saw.used

\* Nothing went wrong so far, and nothing came back.
Pending ==
  /\ activation.error = None /\ activation.result = None /\ activation.timeout = FALSE /\ activation.logs = None
  /\ saw.errors = {} /\ saw.answer = None
  /\ saw.fetch = IF progress = "fetch" THEN None ELSE "found"
  /\ progress \in {"fetch", "get"} => saw.get = None
  /\ progress \in {"init", "run"} => saw.get \in {"new", "reused"}
  /\ saw.used = activation.initTime
  /\ progress # "run" => saw.used = 0

\* The outcome is in the activation, and is what was seen.
Judged ==
  /\ activation.status = "systemError" <=> SystemFault
  /\ SystemFault => saw.used = 0
  /\ (activation.error = None) # (activation.result = None)
  /\ activation.status = "success" => activation.error = None
  /\ activation.result # None => /\ saw.answer # None /\ saw.answer.ok /\ saw.answer.length = "within"
                                 /\ saw.answer.body \in {activation.result, "null"}
                                 /\ activation.result # "null"
  /\ activation.timeout <=> Overdue
  /\ Died => activation.error \in {"oom", "abnormalRun"}
  /\ activation.error # None => activation.logs \in {None, "complete", activation.error}

RecordInv ==
  /\ RecordTypes
  /\ progress # "idle" => Accounted
  /\ progress \in Working => Pending
  /\ progress \in Finished => Judged
  /\ document = IF progress = "marshalled" THEN MarshalJSON(activation) ELSE None

\* A request that ended well has a body; what failed has a cause.
LEMMA AnswersJudged ==
  /\ \A a \in Successes : a \in Answers /\ a.ok /\ a.cut = None /\ a.length # "above"
  /\ \A a \in Failures, i \in Inspections : Requested(a, i) \in Ends
  /\ \A a \in Answers : BodyOf(a) \in Bodies
<1>1. \A a \in Answers : /\ a.length \in {"within", "above", "unknown"} /\ a.ok \in BOOLEAN /\ a.body \in Bodies
                         /\ a.cut \in {None, "connecting", "body", "rest"} /\ a.why \in {"deadline", "connection"}
  BY DEF Answers
<1>2. \A c \in Causes : c # None
  BY NoneAssumption
<1>3. \A a \in Answers : ErrorOf(a) = None => a.ok /\ a.cut = None /\ a.length # "above"
  BY <1>1, <1>2 DEF ErrorOf, Causes
<1>4. \A a \in Answers : BodyOf(a) \in Bodies
  BY <1>1 DEF BodyOf, Bodies
<1>5. \A a \in Failures : ErrorOf(a) \in Causes /\ a \in Answers
  BY <1>1 DEF ErrorOf, Causes, Failures, Successes
<1>6. \A i \in Inspections : State(i) \in {"oom", "exited", "running", "", "failed"}
  BY DEF Inspections, State
<1>7. \A a \in Failures, i \in Inspections : Requested(a, i) \in Ends
  BY <1>4, <1>5, <1>6 DEF Requested, Ends
<1> QED
  BY <1>3, <1>4, <1>7 DEF Successes

LEMMA RecordInvInit == Init => RecordInv
<1>1. ASSUME RecordIdle PROVE RecordInv
  BY <1>1 DEF RecordIdle, RecordInv, RecordTypes, NothingSeen, Working, Finished
<1>2. ASSUME RecordInit(Requests) PROVE RecordInv
  <2>1. request \in AllRequests
    BY <1>2, RequestsAssumption DEF RecordInit
  <2>2. Started(request) \in [AnnotationNames -> Notes \cup {None}]
    BY DEF Started, Notes
  <2>3. activation \in Activations
    BY <1>2, <2>2 DEF RecordInit, Activations
  <2>4. RecordTypes
    BY <1>2, <2>1, <2>3 DEF RecordInit, RecordTypes, NothingSeen, Working
  <2>5. None # "found"
    BY NoneAssumption DEF Steps
  <2>6. Accounted
    BY <1>2, <2>5 DEF RecordInit, Accounted, NothingSeen
  <2>7. Pending
    BY <1>2 DEF RecordInit, Pending, NothingSeen
  <2> QED
    BY <1>2, <2>4, <2>6, <2>7 DEF RecordInit, RecordInv, Finished
<1> QED
  BY <1>1, <1>2 DEF Init

LEMMA GetFunctionStep == RecordInv /\ GetFunction => RecordInv'
<1> SUFFICES ASSUME RecordInv, GetFunction PROVE RecordInv'
  OBVIOUS
<1>1. /\ progress = "fetch" /\ request \in AllRequests /\ activation \in Activations /\ RecordTypes
      /\ Accounted /\ Pending /\ document = None
  BY DEF RecordInv, RecordTypes, Working, GetFunction
<1>2. request' = request /\ now' = now /\ document' = document /\ Started(request)' = Started(request)
  BY DEF GetFunction, Started
<1>3. None # "failed" /\ None # "unclear" /\ "notFound" # None /\ "fetch" # None /\ "found" # None
  BY NoneAssumption DEF Steps, Errors
<1>4. CASE saw' = [saw EXCEPT !.fetch = "found"] /\ activation' = [activation EXCEPT !.memory = Memory] /\ progress' = "get"
  <2>1. RecordTypes'
    BY <1>1, <1>2, <1>4, TimeAssumption DEF RecordTypes, Activations, Steps, Working
  <2>2. Accounted'
    BY <1>1, <1>2, <1>4 DEF Accounted, RecordTypes, Activations
  <2>3. Pending'
    BY <1>1, <1>4 DEF Pending, RecordTypes, Activations
  <2> QED
    BY <1>1, <1>2, <1>4, <2>1, <2>2, <2>3 DEF RecordInv, Finished
<1>5. ASSUME NEW status \in {"applicationError", "systemError"}, NEW error \in {"notFound", "fetch"}, NEW found \in {"notFound", "failed"},
             saw' = [saw EXCEPT !.fetch = found], activation' = Responded(status, error), progress' = "marshal",
             (status = "systemError") <=> (found = "failed")
      PROVE  RecordInv'
  <2>1. RecordTypes'
    BY <1>1, <1>2, <1>5 DEF RecordTypes, Activations, Steps, Finished, Responded, Errors
  <2>2. Accounted'
    BY <1>1, <1>2, <1>3, <1>5 DEF Accounted, RecordTypes, Activations, Responded, Pending
  <2>3. Judged'
    BY <1>1, <1>3, <1>5 DEF Judged, Pending, RecordTypes, Activations, Responded, SystemFault, Overdue, Died
  <2> QED
    BY <1>1, <1>2, <1>5, <2>1, <2>2, <2>3 DEF RecordInv, Working
<1> QED
  BY <1>4, <1>5 DEF GetFunction

LEMMA GetStep == RecordInv /\ Get => RecordInv'
<1> SUFFICES ASSUME RecordInv, Get PROVE RecordInv'
  OBVIOUS
<1>1. /\ progress = "get" /\ request \in AllRequests /\ activation \in Activations /\ RecordTypes
      /\ Accounted /\ Pending /\ document = None
  BY DEF RecordInv, RecordTypes, Working, Get
<1>2. request' = request /\ document' = document /\ Started(request)' = Started(request)
  BY DEF Get, Started
<1>3. "oom" # None /\ "abnormalRun" # None /\ "provision" # None
  BY NoneAssumption DEF Errors
<1>4. ASSUME NEW container \in {"new", "reused"}, NEW ticks \in 0..MaxTicks,
             saw' = [saw EXCEPT !.get = container], now' = now + ticks,
             activation' = [activation EXCEPT !.waitTime = IF request.cause THEN 0 ELSE now'],
             progress' = IF container = "new" THEN "init" ELSE "run"
      PROVE  RecordInv'
  <2>0. now' \in Nat
    BY <1>1, <1>4, TimeAssumption DEF RecordTypes
  <2>1. RecordTypes'
    BY <1>1, <1>2, <1>4, <2>0 DEF RecordTypes, Activations, Steps, Working
  <2>2. Accounted'
    BY <1>1, <1>2, <1>4 DEF Accounted, RecordTypes, Activations
  <2>3. Pending'
    BY <1>1, <1>4 DEF Pending, RecordTypes, Activations
  <2> QED
    BY <1>1, <1>2, <1>4, <2>1, <2>2, <2>3 DEF RecordInv, Finished
<1>5. ASSUME NEW broken \in {"oom", "exited", "unclear", "failed"}, NEW status \in {"developerError", "systemError"},
             NEW error \in {"oom", "abnormalRun", "provision"},
             saw' = [saw EXCEPT !.get = broken], activation' = Responded(status, error), progress' = "marshal",
             now' = now, (status = "systemError") <=> (broken \in {"unclear", "failed"})
      PROVE  RecordInv'
  <2>1. RecordTypes'
    BY <1>1, <1>2, <1>5 DEF RecordTypes, Activations, Steps, Finished, Responded, Errors
  <2>2. Accounted'
    BY <1>1, <1>2, <1>5 DEF Accounted, RecordTypes, Activations, Responded, Pending
  <2>3. Judged'
    BY <1>1, <1>3, <1>5 DEF Judged, Pending, RecordTypes, Activations, Responded, SystemFault, Overdue, Died
  <2> QED
    BY <1>1, <1>2, <1>5, <2>1, <2>2, <2>3 DEF RecordInv, Working
<1>6. ASSUME NEW broken \in {"oom", "exited", "unclear", "failed"},
             saw' = [saw EXCEPT !.get = broken], progress' = "marshal", now' = now,
             activation' = CASE broken = "oom"    -> Responded("developerError", "oom")
                             [] broken = "exited" -> Responded("developerError", "abnormalRun")
                             [] OTHER             -> Responded("systemError", "provision")
      PROVE  RecordInv'
  BY <1>5, <1>6
<1> QED
  BY <1>4, <1>6 DEF Get

\* The error that is reported fits what was seen: a timeout is overdue, and the dead have died.
LEMMA FailureFits ==
  ASSUME NEW e \in Ends, NEW timeout \in {"initTimeout", "timeout"}, NEW abnormal \in {"abnormalInit", "abnormalRun"}
  PROVE  /\ Failure(e, timeout, abnormal) \in Errors
         /\ (Failure(e, timeout, abnormal) \in {"initTimeout", "timeout"}) <=>
              (e.error = "deadline" /\ e.state \notin {"oom", "exited"})
         /\ (e.error # "tooLarge" /\ e.state \in {"oom", "exited"}) =>
              Failure(e, timeout, abnormal) \in {"oom", "abnormalRun"}
  BY DEF Failure, Ends, Errors

LEMMA FailedWithType ==
  ASSUME NEW timed \in Activations, NEW status \in {"applicationError", "developerError"}, NEW error \in Errors
  PROVE  /\ FailedWith(timed, status, error) \in Activations
         /\ FailedWith(timed, status, error).annotations = timed.annotations
         /\ FailedWith(timed, status, error).waitTime = timed.waitTime
         /\ FailedWith(timed, status, error).memory = timed.memory
         /\ FailedWith(timed, status, error).start = timed.start
         /\ FailedWith(timed, status, error).end = timed.end
<1>1. CASE error \in {"initTimeout", "timeout"}
  <2>1. FailedWith(timed, status, error) = [timed EXCEPT !.status = status, !.error = error, !.timeout = TRUE]
    BY <1>1 DEF FailedWith
  <2> QED
    BY <2>1 DEF Activations
<1>2. CASE error \notin {"initTimeout", "timeout"}
  <2>0. (error \in {"initTimeout", "timeout"}) = FALSE
    BY <1>2
  <2>1. FailedWith(timed, status, error) = [timed EXCEPT !.status = status, !.error = error, !.timeout = FALSE]
    BY <2>0, Zenon DEF FailedWith
  <2> QED
    BY <2>1 DEF Activations
<1> QED
  BY <1>1, <1>2

\* An invocation that fails in the container is judged by the one error it met.
LEMMA FailedJudged ==
  ASSUME RecordTypes, Pending, progress \in {"init", "run"}, activation \in Activations, NEW e \in Ends,
         NEW timeout \in {"initTimeout", "timeout"}, NEW abnormal \in {"abnormalInit", "abnormalRun"},
         NEW status \in {"applicationError", "developerError"}, NEW timed \in Activations,
         timed.result = None, timed.logs = None,
         activation' = FailedWith(timed, status, Failure(e, timeout, abnormal)),
         saw'.fetch = saw.fetch, saw'.get = saw.get, saw'.errors = {e}
  PROVE  Judged'
<1>1. PICK error \in Errors : error = Failure(e, timeout, abnormal)
  BY FailureFits
<1>2. /\ (error \in {"initTimeout", "timeout"}) <=> (e.error = "deadline" /\ e.state \notin {"oom", "exited"})
      /\ (e.error # "tooLarge" /\ e.state \in {"oom", "exited"}) => error \in {"oom", "abnormalRun"}
  BY <1>1, FailureFits
<1>3. /\ activation'.status = status /\ activation'.error = error /\ activation'.timeout = (error \in {"initTimeout", "timeout"})
      /\ activation'.result = None /\ activation'.logs = None
  BY <1>1 DEF FailedWith, Activations
<1>4. error # None
  BY <1>1, NoneAssumption
<1>5. ~SystemFault'
  BY DEF SystemFault, Pending
<1>6. activation'.timeout <=> Overdue'
  BY <1>2, <1>3 DEF Overdue
<1>7. Died' => activation'.error \in {"oom", "abnormalRun"}
  BY <1>2, <1>3 DEF Died
<1> QED
  BY <1>3, <1>4, <1>5, <1>6, <1>7 DEF Judged

LEMMA InitializeStep == RecordInv /\ Initialize => RecordInv'
<1> SUFFICES ASSUME RecordInv, Initialize PROVE RecordInv'
  OBVIOUS
<1>1. /\ progress = "init" /\ request \in AllRequests /\ activation \in Activations /\ RecordTypes
      /\ Accounted /\ Pending /\ document = None
  BY DEF RecordInv, RecordTypes, Working, Initialize
<1>2. request' = request /\ document' = document /\ Started(request)' = Started(request)
  BY DEF Initialize, Started
<1> DEFINE Timed(ticks) == [activation EXCEPT !.start = now, !.end = now + ticks, !.initTime = ticks]
<1>3. PICK ticks \in 0..MaxTicks :
        /\ now' = now + ticks
        /\ \/ activation' = Timed(ticks) /\ saw' = [saw EXCEPT !.used = ticks] /\ progress' = "run"
           \/ \E a \in Failures, inspected \in Inspections :
                /\ activation' = FailedWith(Timed(ticks), "developerError",
                                           Failure(Requested(a, inspected), "initTimeout", "abnormalInit"))
                /\ saw' = [saw EXCEPT !.errors = {Requested(a, inspected)}, !.used = ticks]
                /\ progress' = "logs"
  BY DEF Initialize
<1>4. PICK timed : timed = Timed(ticks)
  OBVIOUS
<1>5. ticks \in Nat /\ now \in Nat /\ now' \in Nat /\ now \in Int /\ now + ticks \in Int /\ (now + ticks) - now = ticks
  <2>1. now' = now + ticks /\ now \in Nat
    BY <1>1, <1>3 DEF RecordTypes
  <2>2. ticks \in Nat
    BY TimeAssumption
  <2> QED
    BY <2>1, <2>2
<1>6. /\ timed \in Activations /\ timed.end - timed.start = ticks /\ timed.initTime = ticks
      /\ timed.result = activation.result /\ timed.logs = activation.logs /\ timed.error = activation.error
      /\ timed.annotations = activation.annotations /\ timed.waitTime = activation.waitTime
      /\ timed.memory = activation.memory /\ timed.timeout = activation.timeout
  <2>1. PICK late \in Int : late = now + ticks
    BY <1>5
  <2>2. timed = [activation EXCEPT !.start = now, !.end = late, !.initTime = ticks]
    BY <1>4, <2>1
  <2>3. timed \in Activations
    BY <1>1, <1>5, <2>2 DEF Activations
  <2> QED
    BY <1>1, <1>5, <2>1, <2>2, <2>3 DEF Activations
<1>7. CASE activation' = timed /\ saw' = [saw EXCEPT !.used = ticks] /\ progress' = "run"
  <2>1. RecordTypes'
    BY <1>1, <1>2, <1>5, <1>6, <1>7 DEF RecordTypes, Working
  <2>2. Accounted'
    BY <1>1, <1>2, <1>6, <1>7 DEF Accounted, RecordTypes
  <2>3. Pending'
    BY <1>1, <1>6, <1>7 DEF Pending, RecordTypes
  <2> QED
    BY <1>1, <1>2, <1>7, <2>1, <2>2, <2>3 DEF RecordInv, Finished
<1>8. ASSUME NEW a \in Failures, NEW inspected \in Inspections,
             activation' = FailedWith(timed, "developerError", Failure(Requested(a, inspected), "initTimeout", "abnormalInit")),
             saw' = [saw EXCEPT !.errors = {Requested(a, inspected)}, !.used = ticks], progress' = "logs"
      PROVE  RecordInv'
  <2>1. PICK e \in Ends : e = Requested(a, inspected)
    BY AnswersJudged
  <2>2. PICK error \in Errors : error = Failure(e, "initTimeout", "abnormalInit")
    BY FailureFits
  <2>3. /\ activation' \in Activations /\ activation'.annotations = timed.annotations
        /\ activation'.waitTime = timed.waitTime /\ activation'.memory = timed.memory
        /\ activation'.end = timed.end /\ activation'.start = timed.start
    BY <1>6, <1>8, <2>1, <2>2, FailedWithType
  <2>4. /\ saw'.fetch = saw.fetch /\ saw'.get = saw.get /\ saw'.errors = {e} /\ saw'.used = ticks
    BY <1>1, <1>8, <2>1 DEF RecordTypes
  <2>5. RecordTypes'
    BY <1>1, <1>2, <1>5, <1>8, <2>1, <2>3 DEF RecordTypes, Finished
  <2>6. Accounted'
    BY <1>1, <1>2, <1>6, <2>3, <2>4 DEF Accounted
  <2>7. Judged'
    BY <1>1, <1>6, <1>8, <2>1, <2>4, FailedJudged DEF Pending
  <2> QED
    BY <1>1, <1>2, <1>8, <2>5, <2>6, <2>7 DEF RecordInv, Working
<1> QED
  BY <1>3, <1>4, <1>7, <1>8

\* An answer becomes a result only if it is an object that was sent in full, and is an error otherwise.
LEMMA SucceededFits ==
  ASSUME NEW a \in Successes, NEW timed \in Activations, timed.error = None, timed.result = None
  PROVE  /\ Succeeded(timed, BodyOf(a)) \in Activations
         /\ Succeeded(timed, BodyOf(a)).annotations = timed.annotations
         /\ Succeeded(timed, BodyOf(a)).waitTime = timed.waitTime
         /\ Succeeded(timed, BodyOf(a)).memory = timed.memory
         /\ Succeeded(timed, BodyOf(a)).start = timed.start /\ Succeeded(timed, BodyOf(a)).end = timed.end
         /\ Succeeded(timed, BodyOf(a)).timeout = timed.timeout /\ Succeeded(timed, BodyOf(a)).logs = timed.logs
         /\ \/ /\ Succeeded(timed, BodyOf(a)).status = "developerError"
               /\ Succeeded(timed, BodyOf(a)).error = "invalid" /\ Succeeded(timed, BodyOf(a)).result = None
            \/ /\ Succeeded(timed, BodyOf(a)).status \in {"applicationError", "success"}
               /\ Succeeded(timed, BodyOf(a)).error = None
               /\ Succeeded(timed, BodyOf(a)).result \in Results
               /\ a.ok /\ a.length = "within" /\ a.body \in {Succeeded(timed, BodyOf(a)).result, "null"}
<1>1. /\ a \in Answers /\ a.ok /\ a.cut = None /\ a.length # "above" /\ BodyOf(a) \in Bodies
  BY AnswersJudged
<1>2. a.length \in {"within", "above", "unknown"}
  BY <1>1 DEF Answers
<1>3. CASE a.length = "unknown" \/ a.cut = "body" \/ BodyOf(a) \in {"invalid", "empty"}
  <2>1. BodyOf(a) \in {"invalid", "empty"}
    BY <1>3 DEF BodyOf
  <2>2. Succeeded(timed, BodyOf(a)) = [timed EXCEPT !.status = "developerError", !.error = "invalid"]
    BY <2>1 DEF Succeeded
  <2> QED
    BY <2>2 DEF Activations, Errors
<1>4. CASE ~(a.length = "unknown" \/ a.cut = "body" \/ BodyOf(a) \in {"invalid", "empty"})
  <2>1. PICK body : body = BodyOf(a)
    OBVIOUS
  <2>2. a.length = "within" /\ a.body = body /\ body \in {"object", "errorObject", "errorValue", "null"}
    BY <1>1, <1>2, <1>4, <2>1 DEF BodyOf, Bodies
  <2>3. PICK status \in {"applicationError", "success"}, result \in Results :
          /\ Succeeded(timed, body) = [timed EXCEPT !.status = status, !.result = result]
          /\ body \in {result, "null"}
    BY <2>2 DEF Succeeded, Results
  <2>4. /\ Succeeded(timed, body) \in Activations /\ Succeeded(timed, body).result = result
        /\ Succeeded(timed, body).status = status /\ Succeeded(timed, body).error = None
    BY <2>3 DEF Activations
  <2>5. /\ Succeeded(timed, body).annotations = timed.annotations
        /\ Succeeded(timed, body).waitTime = timed.waitTime
        /\ Succeeded(timed, body).memory = timed.memory
        /\ Succeeded(timed, body).start = timed.start /\ Succeeded(timed, body).end = timed.end
        /\ Succeeded(timed, body).timeout = timed.timeout /\ Succeeded(timed, body).logs = timed.logs
    BY <2>3 DEF Activations
  <2> QED
    BY <1>1, <2>1, <2>2, <2>3, <2>4, <2>5
<1> QED
  BY <1>3, <1>4

LEMMA RunStep == RecordInv /\ Run => RecordInv'
<1> SUFFICES ASSUME RecordInv, Run PROVE RecordInv'
  OBVIOUS
<1>1. /\ progress = "run" /\ request \in AllRequests /\ activation \in Activations /\ RecordTypes
      /\ Accounted /\ Pending /\ document = None
  BY DEF RecordInv, RecordTypes, Working, Run
<1>2. request' = request /\ document' = document /\ Started(request)' = Started(request) /\ progress' = "logs"
  BY DEF Run, Started
<1> DEFINE Timed(start, ticks) == [activation EXCEPT !.start = StartOfRun(activation, start), !.end = start + ticks]
<1>3. PICK since \in 0..1, ticks \in 0..MaxTicks :
        /\ now' = (now + since) + ticks
        /\ \/ \E a \in Successes :
                /\ activation' = Succeeded(Timed(now + since, ticks), BodyOf(a))
                /\ saw' = [saw EXCEPT !.used = @ + ticks, !.answer = a]
           \/ \E a \in Failures, inspected \in Inspections :
                /\ activation' = FailedWith(Timed(now + since, ticks),
                                    IF Requested(a, inspected).error = "tooLarge" THEN "applicationError" ELSE "developerError",
                                    Failure(Requested(a, inspected), "timeout", "abnormalRun"))
                /\ saw' = [saw EXCEPT !.errors = {Requested(a, inspected)}, !.used = @ + ticks]
  BY DEF Run
<1>4. PICK timed : timed = Timed(now + since, ticks)
  OBVIOUS
<1>5. PICK used \in Nat : used = saw.used + ticks
  <2>1. saw.used \in Nat
    BY <1>1 DEF RecordTypes
  <2>2. ticks \in Nat
    BY TimeAssumption
  <2> QED
    BY <2>1, <2>2
<1>6. /\ timed \in Activations /\ timed.end - timed.start = used
      /\ timed.result = activation.result /\ timed.logs = activation.logs /\ timed.error = activation.error
      /\ timed.annotations = activation.annotations /\ timed.waitTime = activation.waitTime
      /\ timed.memory = activation.memory /\ timed.timeout = activation.timeout
      /\ now' \in Nat
  <2>1. now \in Nat /\ ticks \in Nat /\ since \in Nat
    BY <1>1, TimeAssumption DEF RecordTypes
  <2>2. activation.initTime \in Nat /\ saw.used = activation.initTime
    BY <1>1 DEF Activations, Pending
  <2>3. PICK first \in Int, last \in Int : /\ first = (now + since) - activation.initTime
                                            /\ last = (now + since) + ticks
    BY <2>1, <2>2
  <2>4. last - first = used
    BY <1>5, <2>1, <2>2, <2>3
  <2>5. timed = [activation EXCEPT !.start = first, !.end = last]
    BY <1>4, <2>3 DEF StartOfRun
  <2>6. timed \in Activations
    BY <1>1, <2>5 DEF Activations
  <2>7. now' = (now + since) + ticks
    BY <1>3
  <2> QED
    BY <1>1, <2>1, <2>4, <2>5, <2>6, <2>7 DEF Activations
<1>7. ASSUME NEW a \in Successes, activation' = Succeeded(timed, BodyOf(a)),
             saw' = [saw EXCEPT !.used = used, !.answer = a]
      PROVE  RecordInv'
  <2>1. timed.error = None /\ timed.result = None /\ timed.timeout = FALSE /\ timed.logs = None
    BY <1>1, <1>6 DEF Pending
  <2>2. /\ activation' \in Activations /\ activation'.annotations = timed.annotations
        /\ activation'.waitTime = timed.waitTime /\ activation'.memory = timed.memory
        /\ activation'.end = timed.end /\ activation'.start = timed.start
        /\ activation'.timeout = FALSE /\ activation'.logs = None
    BY <1>6, <1>7, <2>1, SucceededFits
  <2>3. \/ activation'.status = "developerError" /\ activation'.error = "invalid" /\ activation'.result = None
        \/ /\ activation'.status \in {"applicationError", "success"} /\ activation'.error = None
           /\ activation'.result \in Results
           /\ a.ok /\ a.length = "within" /\ a.body \in {activation'.result, "null"}
    BY <1>6, <1>7, <2>1, SucceededFits
  <2>4. a \in Answers /\ a # None /\ "invalid" # None /\ \A r \in Results : r # None /\ r # "null"
    BY NoneAssumption DEF Successes, Errors, Results
  <2>5. /\ saw'.fetch = saw.fetch /\ saw'.get = saw.get /\ saw'.errors = {} /\ saw'.answer = a /\ saw'.used = used
    BY <1>1, <1>7 DEF RecordTypes, Pending
  <2>6. RecordTypes'
    BY <1>1, <1>2, <1>5, <1>6, <1>7, <2>2, <2>4 DEF RecordTypes, Finished
  <2>7. Accounted'
    BY <1>1, <1>2, <1>6, <2>2, <2>5 DEF Accounted
  <2>8. Judged'
    <3>1. ~SystemFault'
      BY <1>1, <2>5 DEF SystemFault, Pending
    <3>2. ~Overdue' /\ ~Died'
      BY <2>5 DEF Overdue, Died
    <3> QED
      BY <2>2, <2>3, <2>4, <2>5, <3>1, <3>2 DEF Judged
  <2> QED
    BY <1>1, <1>2, <2>6, <2>7, <2>8 DEF RecordInv, Working
<1>8. ASSUME NEW a \in Failures, NEW inspected \in Inspections, NEW status \in {"applicationError", "developerError"},
             activation' = FailedWith(timed, status, Failure(Requested(a, inspected), "timeout", "abnormalRun")),
             saw' = [saw EXCEPT !.errors = {Requested(a, inspected)}, !.used = used]
      PROVE  RecordInv'
  <2>1. PICK e \in Ends : e = Requested(a, inspected)
    BY AnswersJudged
  <2>2. PICK error \in Errors : error = Failure(e, "timeout", "abnormalRun")
    BY FailureFits
  <2>3. /\ activation' \in Activations /\ activation'.annotations = timed.annotations
        /\ activation'.waitTime = timed.waitTime /\ activation'.memory = timed.memory
        /\ activation'.end = timed.end /\ activation'.start = timed.start
    BY <1>6, <1>8, <2>1, <2>2, FailedWithType
  <2>4. /\ saw'.fetch = saw.fetch /\ saw'.get = saw.get /\ saw'.errors = {e} /\ saw'.used = used
    BY <1>1, <1>8, <2>1 DEF RecordTypes
  <2>5. RecordTypes'
    BY <1>1, <1>2, <1>5, <1>6, <1>8, <2>1, <2>3 DEF RecordTypes, Finished
  <2>6. Accounted'
    BY <1>1, <1>2, <1>6, <2>3, <2>4 DEF Accounted
  <2>7. Judged'
    BY <1>1, <1>6, <1>8, <2>1, <2>4, FailedJudged DEF Pending
  <2> QED
    BY <1>1, <1>2, <2>5, <2>6, <2>7 DEF RecordInv, Working
<1>9. CASE \E a \in Successes :
             activation' = Succeeded(timed, BodyOf(a)) /\ saw' = [saw EXCEPT !.used = used, !.answer = a]
  BY <1>7, <1>9
<1>10. CASE \E a \in Failures, inspected \in Inspections :
             /\ activation' = FailedWith(timed,
                                 IF Requested(a, inspected).error = "tooLarge" THEN "applicationError" ELSE "developerError",
                                 Failure(Requested(a, inspected), "timeout", "abnormalRun"))
             /\ saw' = [saw EXCEPT !.errors = {Requested(a, inspected)}, !.used = used]
  BY <1>8, <1>10
<1> QED
  BY <1>3, <1>4, <1>5, <1>9, <1>10

LEMMA CollectLogsStep == RecordInv /\ CollectLogs => RecordInv'
<1> SUFFICES ASSUME RecordInv, CollectLogs PROVE RecordInv'
  OBVIOUS
<1>1. /\ progress = "logs" /\ request \in AllRequests /\ activation \in Activations /\ RecordTypes
      /\ Accounted /\ Judged /\ document = None
  BY DEF RecordInv, RecordTypes, Finished, CollectLogs
<1>2. /\ request' = request /\ now' = now /\ saw' = saw /\ document' = document /\ progress' = "marshal"
      /\ Started(request)' = Started(request)
  BY DEF CollectLogs, Started
<1>3. PICK logs \in {"complete", "missing"} \cup Errors :
        /\ activation' = [activation EXCEPT !.logs = logs]
        /\ activation.error # None => logs \in {"complete", activation.error}
  <2>1. activation.error \in Errors \cup {None}
    BY <1>1 DEF Activations
  <2> QED
    BY <2>1 DEF CollectLogs
<1>4. /\ activation' \in Activations /\ activation'.logs = logs
      /\ activation'.annotations = activation.annotations /\ activation'.waitTime = activation.waitTime
      /\ activation'.memory = activation.memory /\ activation'.start = activation.start /\ activation'.end = activation.end
      /\ activation'.status = activation.status /\ activation'.error = activation.error
      /\ activation'.result = activation.result /\ activation'.timeout = activation.timeout
  BY <1>1, <1>3 DEF Activations
<1>5. RecordTypes'
  BY <1>1, <1>2, <1>4 DEF RecordTypes, Finished
<1>6. Accounted'
  BY <1>1, <1>2, <1>4 DEF Accounted
<1>7. Judged'
  <2>1. (SystemFault' <=> SystemFault) /\ (Overdue' <=> Overdue) /\ (Died' <=> Died)
    BY <1>2 DEF SystemFault, Overdue, Died
  <2> QED
    BY <1>1, <1>2, <1>3, <1>4, <2>1 DEF Judged
<1> QED
  BY <1>1, <1>2, <1>5, <1>6, <1>7 DEF RecordInv, Working

LEMMA MarshalStep == RecordInv /\ Marshal => RecordInv'
<1> SUFFICES ASSUME RecordInv, Marshal PROVE RecordInv'
  OBVIOUS
<1>1. /\ progress = "marshal" /\ progress' = "marshalled" /\ RecordTypes /\ Accounted /\ Judged
      /\ request' = request /\ activation' = activation /\ now' = now /\ saw' = saw
      /\ document' = MarshalJSON(activation)
  BY DEF RecordInv, Finished, Marshal
<1>2. RecordTypes'
  BY <1>1 DEF RecordTypes, Finished
<1>3. Accounted'
  BY <1>1 DEF Accounted, Started
<1>4. Judged'
  BY <1>1 DEF Judged, SystemFault, Overdue, Died
<1>5. document' = MarshalJSON(activation)'
  BY <1>1 DEF MarshalJSON, SchemaOf, Charged
<1> QED
  BY <1>1, <1>2, <1>3, <1>4, <1>5 DEF RecordInv, Working

LEMMA RecordInvStep == RecordInv /\ [Next]_vars => RecordInv'
<1>1. RecordInv /\ UNCHANGED recordVars => RecordInv'
  <2> SUFFICES ASSUME RecordInv, UNCHANGED recordVars PROVE RecordInv'
    OBVIOUS
  <2>1. RecordTypes' <=> RecordTypes
    BY DEF recordVars, RecordTypes
  <2>2. Accounted' <=> Accounted
    BY DEF recordVars, Accounted, Started
  <2>3. Pending' <=> Pending
    BY DEF recordVars, Pending
  <2>4. Judged' <=> Judged
    BY DEF recordVars, Judged, SystemFault, Overdue, Died
  <2>5. MarshalJSON(activation)' = MarshalJSON(activation)
    BY DEF recordVars, MarshalJSON, SchemaOf, Charged
  <2> QED
    BY <2>1, <2>2, <2>3, <2>4, <2>5 DEF RecordInv, recordVars
<1> QED
  BY <1>1, GetFunctionStep, GetStep, InitializeStep, RunStep, CollectLogsStep, MarshalStep DEF Next, RecordNext, vars

\* The charge is that of the begun quanta: at least the time, and less than a quantum more.
LEMMA QuantaBegun ==
  ASSUME NEW memory \in Nat, NEW duration \in Nat
  PROVE  /\ GigabyteSeconds(memory, duration) * Quantum \in (memory * duration)..(memory * (duration + Quantum - 1))
         /\ (memory = 0 \/ duration = 0) => GigabyteSeconds(memory, duration) = 0
<1>1. PICK q \in Nat \ {0} : q = Quantum
  BY TimeAssumption
<1>2. PICK n \in Nat : n = duration + q - 1
  BY <1>1
<1>3. PICK k \in Nat : k = n \div q
  BY <1>1, <1>2
<1>4. q * k <= n /\ n < (q * k) + q
  <2>1. n = q * (n \div q) + (n % q)
    BY <1>1, <1>2
  <2>2. n % q \in 0..(q - 1)
    BY <1>1, <1>2
  <2> QED
    BY <1>3, <2>1, <2>2
<1>5. PICK c \in Nat : c = q * k
  OBVIOUS
<1>6. duration <= c /\ c <= n
  BY <1>2, <1>4, <1>5
<1>7. memory * duration <= memory * c /\ memory * c <= memory * n
  BY <1>6
<1>8. memory * c = (memory * k) * q
  BY <1>5
<1>9. GigabyteSeconds(memory, duration) = memory * k
  BY <1>1, <1>2, <1>3 DEF GigabyteSeconds
<1>10. memory * (duration + Quantum - 1) = memory * n
  BY <1>1, <1>2
<1>11. (memory = 0 \/ duration = 0) => memory * k = 0
  <2>1. duration = 0 => n < q
    BY <1>1, <1>2
  <2>2. n < q => k = 0
    BY <1>1, <1>2, <1>3
  <2> QED
    BY <2>1, <2>2
<1>12. memory * c \in Int /\ memory * duration \in Int /\ memory * n \in Int
  OBVIOUS
<1> QED
  BY <1>1, <1>7, <1>8, <1>9, <1>10, <1>11, <1>12

\* The document of a judged activation says what happened.
LEMMA RecordInvRendered == RecordInv => ActivationRendered
<1> SUFFICES ASSUME RecordInv, document # None PROVE ActivationRendered
  BY DEF ActivationRendered
<1>1. /\ progress = "marshalled" /\ document = MarshalJSON(activation) /\ Judged /\ Accounted
      /\ request \in AllRequests /\ activation \in Activations /\ saw.used \in Nat
  BY DEF RecordInv, Finished, RecordTypes
<1>2. /\ document.gbs = Charged(activation) /\ document.timeout = activation.timeout
      /\ document.duration = saw.used /\ document.status = activation.status
      /\ document.logs = IF activation.logs = None THEN "[]" ELSE activation.logs
      /\ \A n \in AnnotationNames :
           document.annotations[n] = IF n \in SchemaOf(activation) THEN "schema" ELSE activation.annotations[n]
  BY <1>1 DEF MarshalJSON, Accounted
<1>3. /\ request.builder \/ saw.fetch # "found" => document.gbs = 0
      /\ ~request.builder /\ saw.fetch = "found" =>
           document.gbs * Quantum \in (Memory * saw.used)..(Memory * (saw.used + Quantum - 1))
      /\ SystemFault => document.gbs = 0
  <2>1. document.gbs = IF request.builder THEN 0
                       ELSE GigabyteSeconds(IF saw.fetch = "found" THEN Memory ELSE 0, saw.used)
    BY <1>1, <1>2 DEF Charged, Accounted
  <2>2. GigabyteSeconds(0, saw.used) = 0
    BY <1>1, QuantaBegun
  <2>3. GigabyteSeconds(Memory, saw.used) * Quantum \in (Memory * saw.used)..(Memory * (saw.used + Quantum - 1))
    BY <1>1, QuantaBegun, TimeAssumption
  <2>4. saw.used = 0 => GigabyteSeconds(Memory, saw.used) = 0
    BY <1>1, QuantaBegun, TimeAssumption
  <2>5. SystemFault => saw.used = 0
    BY <1>1 DEF Judged
  <2> QED
    BY <2>1, <2>2, <2>3, <2>4, <2>5
<1>4. /\ document.annotations["path"] = "schema"
      /\ request.cause => document.annotations["causedBy"] = "schema" /\ document.annotations["waitTime"] # "schema"
      /\ request.binding => document.annotations["binding"] = "schema"
      /\ activation.initTime > 0 <=> document.annotations["initTime"] = "schema"
      /\ \A n \in request.annotations : document.annotations[n] # None
  <2>1. None # "schema" /\ None # "namespace"
    BY NoneAssumption DEF Notes
  <2>2. \A n \in {"waitTime", "initTime"} : Started(request)[n] # "schema"
    BY <2>1 DEF Started, AnnotationNames, Schema
  <2>3. \A n \in request.annotations : n \in AnnotationNames /\ Started(request)[n] = "namespace"
    BY <1>1 DEF Started, AllRequests
  <2>4. /\ "path" \in SchemaOf(activation)
        /\ request.cause => "causedBy" \in SchemaOf(activation)
        /\ request.binding => "binding" \in SchemaOf(activation)
    BY DEF SchemaOf
  <2>5. ("initTime" \in SchemaOf(activation)) <=> activation.initTime > 0
    BY DEF SchemaOf
  <2>6. request.cause => "waitTime" \notin SchemaOf(activation)
    BY <1>1 DEF SchemaOf, Accounted
  <2>7. {"path", "binding", "waitTime", "initTime", "causedBy"} \subseteq AnnotationNames
    BY DEF AnnotationNames, Schema
  <2>8. activation.annotations = Started(request)
    BY <1>1 DEF Accounted
  <2> QED
    BY <1>2, <2>1, <2>2, <2>3, <2>4, <2>5, <2>6, <2>7, <2>8
<1>5. activation.error # None => document.logs \in {"[]", "complete", activation.error}
  BY <1>1, <1>2 DEF Judged
<1> QED
  BY <1>1, <1>2, <1>3, <1>4, <1>5 DEF ActivationRendered, Judged

\* Whatever the request, the quantum, the memory limit and the times: the activation Runner.Invoke hands over
\* names the party at fault once, has an error or a whole result, lasts and is charged as long as the container
\* worked, and keeps the annotations of its schema (Runner.Invoke, Activation.MarshalJSON, GigabyteSeconds).
THEOREM ActivationAlwaysRendered == Spec => []ActivationRendered
  BY RecordInvInit, RecordInvStep, RecordInvRendered, PTL DEF Spec

--------------------------------------------------------------------------------
(* The runtimes.                                                                 *)

\* The families that are decoded, and the keys one version is to be found under.
Families      == DOMAIN runtimes \ left
ClaimOf(f, v) == {v.kind} \cup (IF v.default THEN {DefaultName(f)} ELSE {})
\* Of the versions s of family f: the last one with this key; a default whose alias is taken by itself or before it.
IsLast(f, s, k, i) == k \in ClaimOf(f, s[i]) /\ \A j \in DOMAIN s : j > i => k \notin ClaimOf(f, s[j])
Blocked(f, s, i)   == s[i].kind = DefaultName(f) \/ \E j \in 1..(i - 1) : DefaultName(f) \in ClaimOf(f, s[j])

\* The reasons to refuse the configuration c.
Unreadable(c) ==
  \E f \in DOMAIN c : \E i \in DOMAIN c[f] : \E j \in DOMAIN c[f][i].stemcells :
    ParseByteSize(c[f][i].stemcells[j].memory) = NoSize
AliasTaken(c) ==
  \E f \in DOMAIN c : \E i \in DOMAIN c[f] :
    /\ c[f][i].default
    /\ \/ Blocked(f, c[f], i)
       \/ \E g \in DOMAIN c \ {f} : \E j \in DOMAIN c[g] : DefaultName(f) \in ClaimOf(g, c[g][j])

\* The manifests m hold the families F of the configuration c, and nothing else.
Holds(c, F, m) ==
  /\ \A k : k \in DOMAIN m <=> \E f \in F : \E i \in DOMAIN c[f] : k \in ClaimOf(f, c[f][i])
  /\ \A k \in DOMAIN m : \E f \in F : \E i \in DOMAIN c[f] : IsLast(f, c[f], k, i) /\ m[k] = Decoded(c[f][i])
  /\ \A f \in F : \A i \in DOMAIN c[f] : c[f][i].default => ~Blocked(f, c[f], i)

RuntimesInv ==
  /\ decoding \in {"idle", "text", "families", "decoded", "refused"}
  /\ decoding # "idle" => IsConfiguration(runtimes)
  /\ decoding = "text" => left = DOMAIN runtimes
  /\ decoding \in {"text", "families", "decoded"} => Holds(runtimes, Families, manifests)
  /\ decoding \in {"families", "decoded"} => ~Unreadable(runtimes)
  /\ decoding = "decoded" => left = {}
  /\ decoding = "refused" => Unreadable(runtimes) \/ AliasTaken(runtimes)

\* A set of numbers with 0 and every successor holds all of them.
LEMMA SetInduction ==
  ASSUME NEW G, 0 \in G, \A n \in Nat : n \in G => n + 1 \in G
  PROVE  Nat \subseteq G
<1> SUFFICES ASSUME Nat \ G # {} PROVE FALSE
  OBVIOUS
<1>1. PICK R : R = OpToRel(<, Nat)
  OBVIOUS
<1>2. IsWellFoundedOn(R, Nat)
  BY <1>1, NatLessThanWellFounded
<1>3. PICK x \in Nat \ G : \A y \in Nat \ G : ~(<<y, x>> \in R)
  BY <1>2, WFMin
<1>4. \A y \in Nat : y < x => <<y, x>> \in R
  BY <1>1 DEF OpToRel
<1>5. x # 0 /\ x - 1 \in Nat /\ x - 1 < x
  BY <1>3
<1>6. x - 1 \in G
  BY <1>3, <1>4, <1>5
<1>7. (x - 1) + 1 \in G
  BY <1>5, <1>6
<1> QED
  BY <1>3, <1>7

\* Some of the first n positions have a last one among them.
LEMMA MaxOfPositions ==
  ASSUME NEW n \in Nat, NEW S \in SUBSET (1..n), S # {}
  PROVE  Max(S) \in S /\ \A y \in S : Max(S) >= y
<1> DEFINE G == {m \in Nat : \A T \in SUBSET (1..m) : T # {} => \E x \in T : \A y \in T : x >= y}
<1>1. 0 \in G
  <2>1. \A x : x \notin 1..0
    OBVIOUS
  <2> QED
    BY <2>1
<1>2. ASSUME NEW m \in Nat, m \in G PROVE m + 1 \in G
  <2>1. ASSUME NEW T \in SUBSET (1..(m + 1)), T # {} PROVE \E x \in T : \A y \in T : x >= y
    <3>1. CASE m + 1 \in T
      BY <3>1
    <3>2. CASE m + 1 \notin T
      <4>1. T \in SUBSET (1..m)
        BY <3>2
      <4> QED
        BY <1>2, <2>1, <4>1
    <3> QED
      BY <3>1, <3>2
  <2> QED
    BY <2>1
<1>3. Nat \subseteq G
  <2> HIDE DEF G
  <2> QED
    BY <1>1, <1>2, SetInduction
<1>4. \E x \in S : \A y \in S : x >= y
  BY <1>3
<1> QED
  BY <1>4, Zenon DEF Max

\* A size is a whole number of a unit if the unit divides it.
LEMMA WholeUnits ==
  ASSUME NEW a \in Nat, NEW q \in Nat \ {0}
  PROVE  /\ a \div q \in Nat /\ a \div q <= a /\ (a % q = 0 => (a \div q) * q = a)
         /\ \A k \in Nat : k <= (a \div q) - 1 => k * q < a
         /\ (a * q) \div q = a
<1>1. a = q * (a \div q) + (a % q) /\ a % q \in 0..(q - 1) /\ a \div q \in Nat
  OBVIOUS
<1>2. PICK d \in Nat, r \in Nat : d = a \div q /\ r = a % q /\ a = q * d + r
  BY <1>1
<1>3. d <= q * d
  OBVIOUS
<1>4. \A k \in Nat : k <= d - 1 => k * q < a
  <2> SUFFICES ASSUME NEW k \in Nat, k + 1 <= d PROVE k * q < a
    OBVIOUS
  <2>1. q * (k + 1) <= q * d
    OBVIOUS
  <2>2. q * (k + 1) = (k * q) + q
    OBVIOUS
  <2> QED
    BY <1>2, <2>1, <2>2
<1>5. (a * q) \div q = a
  <2>1. q * a = a * q
    OBVIOUS
  <2>2. (q * a) \div q = a
    OBVIOUS
  <2> QED
    BY <2>1, <2>2
<1>6. d <= a
  BY <1>2, <1>3
<1>7. r = 0 => d * q = a
  <2>1. q * d = d * q
    OBVIOUS
  <2> QED
    BY <1>2, <2>1
<1> QED
  BY <1>2, <1>4, <1>5, <1>6, <1>7

LEMMA BytesPositive ==
  /\ DOMAIN Bytes = {"B", "K", "M", "G"}
  /\ \A u \in {"B", "K", "M", "G"} : Bytes[u] \in Nat \ {0}
  /\ Bytes["B"] = 1
<1>1. PICK n \in Nat \ {0} : n = Factor
  BY SizeAssumption
<1>2. n * n \in Nat \ {0} /\ n * n * n \in Nat \ {0}
  OBVIOUS
<1>3. Bytes["B"] = 1 /\ Bytes["K"] = n /\ Bytes["M"] = n * n /\ Bytes["G"] = n * n * n
  BY <1>1 DEF Bytes
<1>4. DOMAIN Bytes = {"B", "K", "M", "G"}
  BY DEF Bytes
<1> QED
  BY <1>2, <1>3, <1>4

\* A size that was written is read as itself.
LEMMA SizesAreReadBack == SizesReadBack
<1>1. ASSUME NEW size \in 0..(Width - 1) PROVE ParseByteSize(ByteSizeString(size)) = size
  <2>1. size \in Nat /\ size < Width
    BY SizeAssumption
  <2>2. PICK S : S = {j \in 1..4 : size % Bytes[Units[j]] = 0}
    OBVIOUS
  <2>3. 1 \in S
    <3>1. size % 1 = 0
      BY <2>1
    <3>2. Bytes[Units[1]] = 1
      BY BytesPositive DEF Units
    <3> QED
      BY <2>2, <3>1, <3>2
  <2>4. S \in SUBSET (1..4)
    BY <2>2
  <2>5. PICK i \in S : i = Max(S)
    BY <2>3, <2>4, MaxOfPositions
  <2>6. i \in 1..4 /\ size % Bytes[Units[i]] = 0
    BY <2>2, <2>5
  <2>7. PICK u \in {"B", "K", "M", "G"} : u = Units[i]
    BY <2>6 DEF Units
  <2>8. PICK q \in Nat \ {0} : q = Bytes[u]
    BY BytesPositive
  <2>9. PICK n \in Nat : n = size \div q /\ n * q = size /\ n <= size
    BY <2>1, <2>6, <2>7, <2>8, WholeUnits
  <2>10. ByteSizeString(size) = [number |-> n, unit |-> u]
    BY <2>2, <2>5, <2>7, <2>8, <2>9 DEF ByteSizeString
  <2>11. ParseByteSize([number |-> n, unit |-> u]) = size % Width
    BY <2>1, <2>8, <2>9, BytesPositive, SizeAssumption DEF ParseByteSize
  <2>12. size % Width = size
    BY <2>1, SizeAssumption
  <2> QED
    BY <2>10, <2>11, <2>12
<1>2. ASSUME NEW mb \in Megabytes PROVE MarshalledMemory(LimitsMemory(mb)) = mb
  <2>1. PICK q \in Nat \ {0} : q = Bytes["M"]
    BY BytesPositive
  <2>2. mb \in Nat /\ mb <= (Width \div q) - 1
    BY <2>1, SizeAssumption DEF Megabytes
  <2>3. mb * q < Width /\ (mb * q) \div q = mb
    BY <2>2, WholeUnits, SizeAssumption
  <2>4. mb * q \in Nat
    BY <2>2
  <2>5. (mb * q) % Width = mb * q
    BY <2>3, <2>4, SizeAssumption
  <2> QED
    BY <2>1, <2>3, <2>5 DEF MarshalledMemory, LimitsMemory
<1> QED
  BY <1>1, <1>2 DEF SizesReadBack

\* A text of the configuration that is read stands for the size it says, and says so many megabytes if and only
\* if that is the memory a function with this limit has.
LEMMA ReadAsSaid ==
  ASSUME NEW text \in [number : Nat, unit : STRING], Fits(text)
  PROVE  /\ (ParseByteSize(text) = NoSize) <=> (text.unit \notin DOMAIN Bytes)
         /\ text.unit \in DOMAIN Bytes =>
              \A mb \in Megabytes : (ParseByteSize(text) = LimitsMemory(mb)) <=> Says(text, mb)
<1>1. CASE text.unit \notin DOMAIN Bytes
  BY <1>1 DEF ParseByteSize
<1>2. CASE text.unit \in DOMAIN Bytes
  <2>1. PICK q \in Nat \ {0} : q = Bytes[text.unit]
    BY <1>2, BytesPositive
  <2>2. PICK n \in Nat : n = text.number
    OBVIOUS
  <2>3. n * q < Width /\ n * q \in Nat
    BY <1>2, <2>1, <2>2 DEF Fits
  <2>4. n <= n * q
    OBVIOUS
  <2>5. n \in 0..(Width - 1)
    BY <2>3, <2>4, SizeAssumption
  <2>6. (n * q) % Width = n * q
    BY <2>3, SizeAssumption
  <2>7. ParseByteSize(text) = n * q
    BY <1>2, <2>1, <2>2, <2>5, <2>6 DEF ParseByteSize
  <2>8. ASSUME NEW mb \in Megabytes PROVE LimitsMemory(mb) = mb * Bytes["M"]
    <3>1. PICK p \in Nat \ {0} : p = Bytes["M"]
      BY BytesPositive
    <3>2. mb \in Nat /\ mb <= (Width \div p) - 1
      BY <3>1, SizeAssumption DEF Megabytes
    <3>3. mb * p < Width /\ mb * p \in Nat
      BY <3>2, WholeUnits, SizeAssumption
    <3>4. (mb * p) % Width = mb * p
      BY <3>3, SizeAssumption
    <3> QED
      BY <3>1, <3>4 DEF LimitsMemory
  <2>9. n * q # NoSize
    BY <2>3 DEF NoSize
  <2> QED
    BY <1>2, <2>1, <2>2, <2>7, <2>8, <2>9 DEF Says
<1> QED
  BY <1>1, <1>2

IsWalk(g, f, m, s, n) ==
  g = [i \in 0..n |-> IF i = 0 THEN [manifests |-> m, failed |-> FALSE] ELSE AddVersion(f, g[i - 1], s[i])]

\* The inner loop of Decode has a result for every number of versions.
LEMMA WalkExists ==
  ASSUME NEW f, NEW m, NEW s
  PROVE  \A n \in Nat : \E g : IsWalk(g, f, m, s, n)
<1> DEFINE G == {n \in Nat : \E g : IsWalk(g, f, m, s, n)}
<1>1. 0 \in G
  <2>1. IsWalk([i \in 0..0 |-> [manifests |-> m, failed |-> FALSE]], f, m, s, 0)
    BY DEF IsWalk
  <2> QED
    BY <2>1
<1>2. ASSUME NEW n \in Nat, n \in G PROVE n + 1 \in G
  <2>1. PICK g : IsWalk(g, f, m, s, n)
    BY <1>2
  <2>2. PICK h : h = [i \in 0..(n + 1) |-> IF i <= n THEN g[i] ELSE AddVersion(f, g[n], s[n + 1])]
    OBVIOUS
  <2>3. \A i \in 0..n : g[i] = IF i = 0 THEN [manifests |-> m, failed |-> FALSE] ELSE AddVersion(f, g[i - 1], s[i])
    BY <2>1 DEF IsWalk
  <2>4. ASSUME NEW i \in 0..(n + 1)
        PROVE  h[i] = IF i = 0 THEN [manifests |-> m, failed |-> FALSE] ELSE AddVersion(f, h[i - 1], s[i])
    <3>1. CASE i = 0
      <4>1. h[0] = g[0]
        BY <2>2
      <4>2. g[0] = [manifests |-> m, failed |-> FALSE]
        <5>1. 0 \in 0..n
          OBVIOUS
        <5> QED
          BY <2>3, <5>1, Zenon
      <4> QED
        BY <3>1, <4>1, <4>2
    <3>2. CASE i \in 1..n
      <4>1. i - 1 \in 0..(n + 1) /\ i - 1 <= n /\ i <= n /\ i \in 0..n /\ i # 0
        BY <3>2
      <4>2. h[i - 1] = g[i - 1] /\ h[i] = g[i]
        BY <2>2, <4>1
      <4>3. g[i] = AddVersion(f, g[i - 1], s[i])
        BY <2>3, <4>1
      <4> QED
        BY <4>1, <4>2, <4>3
    <3>3. CASE i = n + 1
      <4>1. h[n] = g[n] /\ h[n + 1] = AddVersion(f, g[n], s[n + 1])
        BY <2>2
      <4>2. i - 1 = n /\ i # 0
        BY <3>3
      <4> QED
        BY <3>3, <4>1, <4>2
    <3> QED
      BY <3>1, <3>2, <3>3
  <2>5. IsWalk(h, f, m, s, n + 1)
    BY <2>2, <2>4 DEF IsWalk
  <2> QED
    BY <2>5
<1>3. Nat \subseteq G
  <2> HIDE DEF G
  <2> QED
    BY <1>1, <1>2, SetInduction
<1> QED
  BY <1>3

\* AddVersions, unfolded once: what there was, and one version more.
LEMMA WalkUnfolds ==
  ASSUME NEW f, NEW m, NEW s, Len(s) \in Nat
  PROVE  \E g : /\ g = AddVersions(f, m, s) /\ g[0] = [manifests |-> m, failed |-> FALSE]
                /\ \A i \in 1..Len(s) : g[i] = AddVersion(f, g[i - 1], s[i])
<1>1. \E g : IsWalk(g, f, m, s, Len(s))
  BY WalkExists
<1>2. IsWalk(AddVersions(f, m, s), f, m, s, Len(s))
  BY <1>1, Zenon DEF AddVersions, IsWalk
<1>3. PICK g : g = AddVersions(f, m, s)
  OBVIOUS
<1>4. \A i \in 0..Len(s) : g[i] = IF i = 0 THEN [manifests |-> m, failed |-> FALSE] ELSE AddVersion(f, g[i - 1], s[i])
  BY <1>2, <1>3 DEF IsWalk
<1>5. 0 \in 0..Len(s) /\ \A i \in 1..Len(s) : i \in 0..Len(s) /\ i # 0
  OBVIOUS
<1>6. g[0] = [manifests |-> m, failed |-> FALSE]
  BY <1>4, <1>5
<1>7. \A i \in 1..Len(s) : g[i] = AddVersion(f, g[i - 1], s[i])
  BY <1>4, <1>5
<1> QED
  BY <1>3, <1>6, <1>7

\* Every version says whether it is the default.
DefaultsSaid(s) == \A i \in 1..Len(s) : s[i].default \in BOOLEAN

\* What there is after n versions: a default whose alias was taken; or beside what there was each version under
\* its kind, and a default under the alias, the later one in place of the earlier.
Walked(f, m, s, n, w) ==
  /\ w.failed \in BOOLEAN
  /\ w.failed => \E i \in 1..n : s[i].default /\ (Blocked(f, s, i) \/ DefaultName(f) \in DOMAIN m)
  /\ ~w.failed =>
       /\ \A k : k \in DOMAIN w.manifests <=> (k \in DOMAIN m \/ \E i \in 1..n : k \in ClaimOf(f, s[i]))
       /\ \A k \in DOMAIN m : (\A i \in 1..n : k \notin ClaimOf(f, s[i])) => w.manifests[k] = m[k]
       /\ \A i \in 1..n : \A k \in ClaimOf(f, s[i]) :
            (\A j \in 1..n : j > i => k \notin ClaimOf(f, s[j])) => w.manifests[k] = Decoded(s[i])
       /\ \A i \in 1..n : s[i].default => ~Blocked(f, s, i)

\* One version more.
LEMMA WalkStep ==
  ASSUME NEW f, NEW m, NEW s, Len(s) \in Nat, DefaultsSaid(s),
         NEW n \in Nat, n + 1 <= Len(s), NEW w, Walked(f, m, s, n, w)
  PROVE  Walked(f, m, s, n + 1, AddVersion(f, w, s[n + 1]))
<1>1. PICK v : v = s[n + 1]
  OBVIOUS
<1>2. PICK d : d = DefaultName(f)
  OBVIOUS
<1>3. PICK C : C = [i \in 1..(n + 1) |-> ClaimOf(f, s[i])]
  OBVIOUS
<1>4. PICK V : V = [i \in 1..(n + 1) |-> Decoded(s[i])]
  OBVIOUS
<1>5. \A i \in 1..(n + 1) : C[i] = ClaimOf(f, s[i]) /\ V[i] = Decoded(s[i])
  BY <1>3, <1>4
<1>6. /\ n + 1 \in 1..(n + 1) /\ \A i \in 1..n : i \in 1..(n + 1) /\ n + 1 > i /\ i # n + 1
      /\ \A i \in 1..(n + 1) : i \in 1..Len(s) /\ (i \in 1..n \/ i = n + 1) /\ ~(i > n + 1)
  OBVIOUS
<1>7. v.default \in BOOLEAN /\ C[n + 1] = {v.kind} \cup (IF v.default THEN {d} ELSE {})
  BY <1>1, <1>2, <1>5, <1>6 DEF ClaimOf, DefaultsSaid
<1>8. PICK known : known = Entry(w.manifests, v.kind, V[n + 1])
  OBVIOUS
<1>9. AddVersion(f, w, s[n + 1]) =
        IF w.failed THEN w
        ELSE IF ~v.default THEN [manifests |-> known, failed |-> FALSE]
        ELSE IF d \in DOMAIN known THEN [manifests |-> known, failed |-> TRUE]
        ELSE [manifests |-> Entry(known, d, V[n + 1]), failed |-> FALSE]
  BY <1>1, <1>2, <1>5, <1>6, <1>8 DEF AddVersion
<1>10. /\ DOMAIN known = DOMAIN w.manifests \cup {v.kind} /\ known[v.kind] = V[n + 1]
       /\ \A k \in DOMAIN w.manifests : k # v.kind => known[k] = w.manifests[k]
  BY <1>8 DEF Entry
<1>11. Blocked(f, s, n + 1) <=> (v.kind = d \/ \E j \in 1..n : d \in C[j])
  <2>1. 1..((n + 1) - 1) = 1..n /\ \A j \in 1..n : C[j] = ClaimOf(f, s[j])
    BY <1>5, <1>6
  <2> QED
    BY <1>1, <1>2, <2>1 DEF Blocked
<1>12. CASE w.failed
  <2>1. \E i \in 1..(n + 1) : s[i].default /\ (Blocked(f, s, i) \/ d \in DOMAIN m)
    BY <1>2, <1>6, <1>12 DEF Walked
  <2>2. AddVersion(f, w, s[n + 1]) = w
    BY <1>9, <1>12
  <2> QED
    BY <1>2, <1>12, <2>1, <2>2 DEF Walked
<1>13. ASSUME ~w.failed
       PROVE  /\ \A k : k \in DOMAIN w.manifests <=> (k \in DOMAIN m \/ \E i \in 1..n : k \in C[i])
              /\ \A k \in DOMAIN m : (\A i \in 1..n : k \notin C[i]) => w.manifests[k] = m[k]
              /\ \A i \in 1..n : \A k \in C[i] : (\A j \in 1..n : j > i => k \notin C[j]) => w.manifests[k] = V[i]
              /\ \A i \in 1..n : s[i].default => ~Blocked(f, s, i)
  <2>1. \A i \in 1..n : C[i] = ClaimOf(f, s[i]) /\ V[i] = Decoded(s[i])
    BY <1>5, <1>6
  <2> QED
    BY <1>13, <2>1 DEF Walked
<1>14. ASSUME ~w.failed, NEW u, u.failed = FALSE, DOMAIN u.manifests = DOMAIN w.manifests \cup C[n + 1],
              \A k \in C[n + 1] : u.manifests[k] = V[n + 1],
              \A k \in DOMAIN w.manifests : k \notin C[n + 1] => u.manifests[k] = w.manifests[k],
              v.default => ~Blocked(f, s, n + 1)
       PROVE  Walked(f, m, s, n + 1, u)
  <2>1. \A k : k \in DOMAIN u.manifests <=> (k \in DOMAIN m \/ \E i \in 1..(n + 1) : k \in C[i])
    BY <1>6, <1>13, <1>14
  <2>2. \A k \in DOMAIN m : (\A i \in 1..(n + 1) : k \notin C[i]) => u.manifests[k] = m[k]
    BY <1>6, <1>13, <1>14
  <2>3. ASSUME NEW i \in 1..(n + 1), NEW k \in C[i], \A j \in 1..(n + 1) : j > i => k \notin C[j]
        PROVE  u.manifests[k] = V[i]
    <3>1. CASE i = n + 1
      BY <1>14, <3>1
    <3>2. CASE i \in 1..n
      <4>1. k \notin C[n + 1]
        BY <1>6, <2>3, <3>2
      <4>2. w.manifests[k] = V[i] /\ k \in DOMAIN w.manifests
        BY <1>6, <1>13, <1>14, <2>3, <3>2
      <4> QED
        BY <1>14, <4>1, <4>2
    <3> QED
      BY <1>6, <3>1, <3>2
  <2>4. \A i \in 1..(n + 1) : s[i].default => ~Blocked(f, s, i)
    BY <1>1, <1>6, <1>13, <1>14
  <2>5. \A k : k \in DOMAIN u.manifests <=> (k \in DOMAIN m \/ \E i \in 1..(n + 1) : k \in ClaimOf(f, s[i]))
    BY <1>5, <2>1
  <2>6. \A k \in DOMAIN m : (\A i \in 1..(n + 1) : k \notin ClaimOf(f, s[i])) => u.manifests[k] = m[k]
    BY <1>5, <2>2
  <2>7. \A i \in 1..(n + 1) : \A k \in ClaimOf(f, s[i]) :
          (\A j \in 1..(n + 1) : j > i => k \notin ClaimOf(f, s[j])) => u.manifests[k] = Decoded(s[i])
    BY <1>5, <2>3
  <2> QED
    BY <1>14, <2>4, <2>5, <2>6, <2>7 DEF Walked
<1>15. CASE ~w.failed /\ ~v.default
  <2>1. PICK u : u = [manifests |-> known, failed |-> FALSE]
    OBVIOUS
  <2>2. u.failed = FALSE /\ u.manifests = known /\ AddVersion(f, w, s[n + 1]) = u /\ C[n + 1] = {v.kind}
    BY <1>7, <1>9, <1>15, <2>1
  <2>3. Walked(f, m, s, n + 1, u)
    BY <1>10, <1>14, <1>15, <2>2
  <2> QED
    BY <2>2, <2>3
<1>16. CASE ~w.failed /\ v.default /\ d \in DOMAIN known
  <2>1. d \in DOMAIN m \/ Blocked(f, s, n + 1)
    BY <1>10, <1>11, <1>13, <1>16
  <2>2. \E i \in 1..(n + 1) : s[i].default /\ (Blocked(f, s, i) \/ DefaultName(f) \in DOMAIN m)
    BY <1>1, <1>2, <1>6, <1>16, <2>1
  <2>3. AddVersion(f, w, s[n + 1]) = [manifests |-> known, failed |-> TRUE]
    BY <1>9, <1>16
  <2> QED
    BY <2>2, <2>3 DEF Walked
<1>17. CASE ~w.failed /\ v.default /\ d \notin DOMAIN known
  <2>1. PICK u : u = [manifests |-> Entry(known, d, V[n + 1]), failed |-> FALSE]
    OBVIOUS
  <2>2. AddVersion(f, w, s[n + 1]) = u /\ C[n + 1] = {v.kind, d}
    BY <1>7, <1>9, <1>17, <2>1
  <2>3. /\ u.failed = FALSE /\ DOMAIN u.manifests = DOMAIN known \cup {d} /\ u.manifests[d] = V[n + 1]
        /\ \A k \in DOMAIN known : u.manifests[k] = known[k]
    BY <1>17, <2>1 DEF Entry
  <2>4. ~Blocked(f, s, n + 1)
    BY <1>10, <1>11, <1>13, <1>17
  <2>5. DOMAIN u.manifests = DOMAIN w.manifests \cup C[n + 1]
    BY <1>10, <2>2, <2>3
  <2>6. \A k \in C[n + 1] : u.manifests[k] = V[n + 1]
    BY <1>10, <2>2, <2>3
  <2>7. \A k \in DOMAIN w.manifests : k \notin C[n + 1] => u.manifests[k] = w.manifests[k]
    BY <1>10, <2>2, <2>3
  <2>8. Walked(f, m, s, n + 1, u)
    BY <1>14, <1>17, <2>3, <2>4, <2>5, <2>6, <2>7
  <2> QED
    BY <2>2, <2>8
<1> QED
  BY <1>7, <1>12, <1>15, <1>16, <1>17

\* The inner loop, whatever the families before have left.
LEMMA WalkResult ==
  ASSUME NEW f, NEW m, NEW s, Len(s) \in Nat, DefaultsSaid(s)
  PROVE  Walked(f, m, s, Len(s), AddVersions(f, m, s)[Len(s)])
<1>1. PICK g : /\ g = AddVersions(f, m, s) /\ g[0] = [manifests |-> m, failed |-> FALSE]
               /\ \A i \in 1..Len(s) : g[i] = AddVersion(f, g[i - 1], s[i])
  BY WalkUnfolds, SMTT(60)
<1>2. g[0] = [manifests |-> m, failed |-> FALSE] /\ \A i \in 1..Len(s) : g[i] = AddVersion(f, g[i - 1], s[i])
  BY <1>1
<1> DEFINE G == {n \in Nat : n <= Len(s) => Walked(f, m, s, n, g[n])}
<1>3. 0 \in G
  <2>1. \A i : i \notin 1..0
    OBVIOUS
  <2>2. g[0].failed = FALSE /\ g[0].manifests = m
    BY <1>2
  <2>3. Walked(f, m, s, 0, g[0])
    BY <2>1, <2>2 DEF Walked
  <2> QED
    BY <2>3
<1>4. ASSUME NEW n \in Nat, n \in G PROVE n + 1 \in G
  <2> SUFFICES ASSUME n + 1 <= Len(s) PROVE Walked(f, m, s, n + 1, g[n + 1])
    OBVIOUS
  <2>1. Walked(f, m, s, n, g[n])
    BY <1>4
  <2>2. g[n + 1] = AddVersion(f, g[n], s[n + 1])
    <3>1. n + 1 \in 1..Len(s) /\ (n + 1) - 1 = n
      OBVIOUS
    <3> QED
      BY <1>2, <3>1
  <2>3. PICK w : w = g[n]
    OBVIOUS
  <2>4. Walked(f, m, s, n + 1, AddVersion(f, w, s[n + 1]))
    <3> HIDE DEF G
    <3> QED
      BY <2>1, <2>3, WalkStep
  <2> QED
    BY <2>2, <2>3, <2>4
<1>5. Nat \subseteq G
  <2> HIDE DEF G
  <2> QED
    BY <1>3, <1>4, SetInduction
<1>6. Walked(f, m, s, Len(s), g[Len(s)])
  BY <1>5
<1> QED
  BY <1>1, <1>6

\* What the assumption on the configuration says of one family.
LEMMA FamilyOK ==
  ASSUME NEW c, IsConfiguration(c), NEW f \in DOMAIN c
  PROVE  /\ c[f] \in Seq(Versions) /\ Len(c[f]) \in Nat /\ DOMAIN c[f] = 1..Len(c[f])
         /\ \A i \in DOMAIN c[f] :
              /\ c[f][i].default \in BOOLEAN
              /\ c[f][i].stemcells \in Seq([count : Int, memory : [number : Nat, unit : STRING]])
              /\ \A j \in DOMAIN c[f][i].stemcells :
                   Fits(c[f][i].stemcells[j].memory) /\ c[f][i].stemcells[j].memory \in [number : Nat, unit : STRING]
<1>1. PICK s : s = c[f]
  OBVIOUS
<1>2. s \in Seq(Versions) /\ \A i \in DOMAIN s : \A j \in DOMAIN s[i].stemcells : Fits(s[i].stemcells[j].memory)
  BY <1>1 DEF IsConfiguration
<1>3. Len(s) \in Nat /\ DOMAIN s = 1..Len(s) /\ \A i \in DOMAIN s : s[i] \in Versions
  BY <1>2
<1>4. ASSUME NEW i \in DOMAIN s
      PROVE  /\ s[i].default \in BOOLEAN /\ s[i].stemcells \in Seq([count : Int, memory : [number : Nat, unit : STRING]])
             /\ \A j \in DOMAIN s[i].stemcells : s[i].stemcells[j].memory \in [number : Nat, unit : STRING]
  <2>1. s[i].default \in BOOLEAN /\ s[i].stemcells \in Seq([count : Int, memory : [number : Nat, unit : STRING]])
    BY <1>3 DEF Versions
  <2>2. PICK cells : cells = s[i].stemcells
    OBVIOUS
  <2>3. PICK Cells : Cells = [count : Int, memory : [number : Nat, unit : STRING]]
    OBVIOUS
  <2>4. cells \in Seq(Cells)
    BY <2>1, <2>2, <2>3
  <2>5. \A j \in DOMAIN cells : cells[j] \in Cells
    BY <2>4
  <2>6. \A x \in Cells : x.memory \in [number : Nat, unit : STRING]
    BY <2>3
  <2> QED
    BY <2>1, <2>2, <2>5, <2>6
<1> QED
  BY <1>1, <1>2, <1>3, <1>4

LEMMA RuntimesInvInit == Init => RuntimesInv
<1>1. RuntimesIdle => RuntimesInv
  BY DEF RuntimesIdle, RuntimesInv
<1>2. ASSUME RuntimesInit(Configurations) PROVE RuntimesInv
  <2>1. IsConfiguration(runtimes) /\ left = DOMAIN runtimes /\ manifests = <<>> /\ decoding = "text"
    BY <1>2, ConfigurationsAssumption DEF RuntimesInit
  <2>2. Families = {} /\ DOMAIN manifests = {}
    BY <2>1 DEF Families
  <2>3. Holds(runtimes, Families, manifests)
    BY <2>2 DEF Holds
  <2> QED
    BY <2>1, <2>3 DEF RuntimesInv
<1> QED
  BY <1>1, <1>2 DEF Init

LEMMA UnmarshalStep == RuntimesInv /\ Unmarshal => RuntimesInv'
<1> SUFFICES ASSUME RuntimesInv, Unmarshal PROVE RuntimesInv'
  OBVIOUS
<1>1. /\ decoding = "text" /\ runtimes' = runtimes /\ left' = left /\ manifests' = manifests
      /\ IsConfiguration(runtimes) /\ Holds(runtimes, Families, manifests)
  BY DEF RuntimesInv, Unmarshal
<1>2. Families' = Families
  BY <1>1 DEF Families
<1>3. decoding' = IF Unreadable(runtimes) THEN "refused" ELSE IF left = {} THEN "decoded" ELSE "families"
  BY DEF Unmarshal, Unreadable
<1> QED
  BY <1>1, <1>2, <1>3 DEF RuntimesInv

\* Some of the versions of a family have a key: one of them is the last.
LEMMA LastVersion ==
  ASSUME NEW f, NEW s, Len(s) \in Nat, DOMAIN s = 1..Len(s), NEW k, NEW j \in DOMAIN s, k \in ClaimOf(f, s[j])
  PROVE  \E i \in DOMAIN s : IsLast(f, s, k, i)
<1>1. PICK S : S = {i \in DOMAIN s : k \in ClaimOf(f, s[i])}
  OBVIOUS
<1>2. S \in SUBSET (1..Len(s)) /\ S # {}
  BY <1>1
<1>3. PICK i \in S : \A l \in S : i >= l
  BY <1>2, MaxOfPositions
<1>4. i \in DOMAIN s /\ k \in ClaimOf(f, s[i])
  BY <1>1
<1>5. ASSUME NEW l \in DOMAIN s, l > i PROVE k \notin ClaimOf(f, s[l])
  BY <1>1, <1>3, <1>4, <1>5
<1> QED
  BY <1>4, <1>5 DEF IsLast

\* One family more: what it claims is its own, all else stays.
LEMMA FamilyHeld ==
  ASSUME NEW c, NEW F, NEW m, Holds(c, F, m), NEW f, Len(c[f]) \in Nat, DOMAIN c[f] = 1..Len(c[f]),
         NEW w, Walked(f, m, c[f], Len(c[f]), w), ~w.failed
  PROVE  Holds(c, F \cup {f}, w.manifests)
<1>1. PICK s : s = c[f]
  OBVIOUS
<1>2. Len(s) \in Nat /\ DOMAIN s = 1..Len(s)
  BY <1>1
<1>3. /\ \A k : k \in DOMAIN w.manifests <=> (k \in DOMAIN m \/ \E i \in DOMAIN s : k \in ClaimOf(f, s[i]))
      /\ \A k \in DOMAIN m : (\A i \in DOMAIN s : k \notin ClaimOf(f, s[i])) => w.manifests[k] = m[k]
      /\ \A i \in DOMAIN s : \A k \in ClaimOf(f, s[i]) :
           (\A j \in DOMAIN s : j > i => k \notin ClaimOf(f, s[j])) => w.manifests[k] = Decoded(s[i])
      /\ \A i \in DOMAIN s : s[i].default => ~Blocked(f, s, i)
  BY <1>1, <1>2 DEF Walked
<1>4. \A k : k \in DOMAIN w.manifests <=> \E g \in F \cup {f} : \E i \in DOMAIN c[g] : k \in ClaimOf(g, c[g][i])
  BY <1>1, <1>3 DEF Holds
<1>5. ASSUME NEW k \in DOMAIN w.manifests
      PROVE  \E g \in F \cup {f} : \E i \in DOMAIN c[g] : IsLast(g, c[g], k, i) /\ w.manifests[k] = Decoded(c[g][i])
  <2>1. CASE \E i \in DOMAIN s : k \in ClaimOf(f, s[i])
    <3>1. PICK i \in DOMAIN s : IsLast(f, s, k, i)
      BY <1>2, <2>1, LastVersion
    <3>2. w.manifests[k] = Decoded(s[i])
      BY <1>3, <3>1 DEF IsLast
    <3> QED
      BY <1>1, <3>1, <3>2
  <2>2. CASE \A i \in DOMAIN s : k \notin ClaimOf(f, s[i])
    <3>1. k \in DOMAIN m /\ w.manifests[k] = m[k]
      BY <1>3, <1>5, <2>2
    <3>2. PICK g \in F : \E i \in DOMAIN c[g] : IsLast(g, c[g], k, i) /\ m[k] = Decoded(c[g][i])
      BY <3>1 DEF Holds
    <3> QED
      BY <3>1, <3>2
  <2> QED
    BY <2>1, <2>2
<1>6. \A g \in F \cup {f} : \A i \in DOMAIN c[g] : c[g][i].default => ~Blocked(g, c[g], i)
  BY <1>1, <1>3 DEF Holds
<1> QED
  BY <1>4, <1>5, <1>6 DEF Holds

LEMMA DecodeFamilyStep == ASSUME RuntimesInv, NEW f \in DOMAIN runtimes, DecodeFamily(f) PROVE RuntimesInv'
<1>1. /\ decoding = "families" /\ f \in left /\ left' = left \ {f} /\ runtimes' = runtimes
      /\ IsConfiguration(runtimes) /\ Holds(runtimes, Families, manifests) /\ ~Unreadable(runtimes)
  BY DEF RuntimesInv, DecodeFamily
<1>2. PICK s : s = runtimes[f]
  OBVIOUS
<1>3. PICK w : w = AddVersions(f, manifests, s)[Len(s)]
  OBVIOUS
<1>4. /\ manifests' = w.manifests
      /\ decoding' = IF w.failed THEN "refused" ELSE IF left' = {} THEN "decoded" ELSE "families"
  BY <1>2, <1>3 DEF DecodeFamily
<1>5. Len(s) \in Nat /\ DOMAIN s = 1..Len(s) /\ DefaultsSaid(s)
  BY <1>1, <1>2, FamilyOK DEF DefaultsSaid
<1>6. Walked(f, manifests, s, Len(s), w)
  BY <1>3, <1>5, WalkResult
<1>7. CASE w.failed
  <2>1. PICK i \in DOMAIN s : s[i].default /\ (Blocked(f, s, i) \/ DefaultName(f) \in DOMAIN manifests)
    BY <1>5, <1>6, <1>7 DEF Walked
  <2>2. ASSUME Blocked(f, s, i) PROVE AliasTaken(runtimes)
    BY <1>2, <2>1, <2>2 DEF AliasTaken
  <2>3. ASSUME DefaultName(f) \in DOMAIN manifests PROVE AliasTaken(runtimes)
    <3>1. PICK g \in Families : \E j \in DOMAIN runtimes[g] : DefaultName(f) \in ClaimOf(g, runtimes[g][j])
      BY <1>1, <2>3 DEF Holds
    <3>2. g \in DOMAIN runtimes \ {f}
      BY <1>1 DEF Families
    <3> QED
      BY <1>2, <2>1, <3>1, <3>2 DEF AliasTaken
  <2>4. AliasTaken(runtimes)
    BY <2>1, <2>2, <2>3
  <2> QED
    BY <1>1, <1>4, <1>7, <2>4 DEF RuntimesInv
<1>8. CASE ~w.failed
  <2>1. Holds(runtimes, Families \cup {f}, w.manifests)
    BY <1>1, <1>2, <1>5, <1>6, <1>8, FamilyHeld
  <2>2. Families' = Families \cup {f}
    BY <1>1 DEF Families
  <2>3. Holds(runtimes, Families, manifests)'
    BY <1>1, <1>4, <2>1, <2>2
  <2> QED
    BY <1>1, <1>4, <1>8, <2>3 DEF RuntimesInv
<1>9. w.failed \in BOOLEAN
  BY <1>6 DEF Walked
<1> QED
  BY <1>7, <1>8, <1>9

LEMMA RuntimesInvStep == RuntimesInv /\ [Next]_vars => RuntimesInv'
<1> SUFFICES ASSUME RuntimesInv, [Next]_vars PROVE RuntimesInv'
  OBVIOUS
<1>1. CASE UNCHANGED runtimeVars
  BY <1>1 DEF runtimeVars, RuntimesInv, Families
<1> QED
  BY <1>1, UnmarshalStep, DecodeFamilyStep DEF Next, RuntimesNext, vars

\* The keys of the configuration, and what is under them, in the words of the invariant.
LEMMA ClaimsOfVersions ==
  ASSUME IsConfiguration(runtimes), NEW f \in DOMAIN runtimes
  PROVE  /\ \A i \in DOMAIN runtimes[f] : Claim(f, i) = ClaimOf(f, runtimes[f][i])
         /\ \A i \in DOMAIN runtimes[f] : Taken(f, i) <=> Blocked(f, runtimes[f], i)
         /\ \A k : \A i \in DOMAIN runtimes[f] : IsLast(f, runtimes[f], k, i) => LastClaim(f, k) = runtimes[f][i]
<1>1. PICK s : s = runtimes[f]
  OBVIOUS
<1>2. Len(s) \in Nat /\ DOMAIN s = 1..Len(s)
  BY <1>1, FamilyOK
<1>3. \A i \in DOMAIN s : Claim(f, i) = ClaimOf(f, s[i])
  BY <1>1 DEF Claim, ClaimOf, Defaults
<1>4. \A k : Claims(f, k) = {i \in DOMAIN s : k \in ClaimOf(f, s[i])}
  BY <1>1, <1>3 DEF Claims
<1>5. ASSUME NEW i \in DOMAIN s PROVE Taken(f, i) <=> Blocked(f, s, i)
  <2>1. \A j : (j \in DOMAIN s /\ j < i) <=> j \in 1..(i - 1)
    BY <1>2
  <2>2. (\E j \in Claims(f, DefaultName(f)) : j < i) <=> \E j \in 1..(i - 1) : DefaultName(f) \in ClaimOf(f, s[j])
    BY <1>4, <2>1
  <2> QED
    BY <1>1, <2>2 DEF Taken, Blocked
<1>6. ASSUME NEW k, NEW i \in DOMAIN s, IsLast(f, s, k, i) PROVE LastClaim(f, k) = s[i]
  <2>1. PICK S : S = Claims(f, k)
    OBVIOUS
  <2>2. S \in SUBSET (1..Len(s)) /\ i \in S
    BY <1>2, <1>4, <1>6, <2>1 DEF IsLast
  <2>3. PICK x \in S : x = Max(S) /\ x >= i
    BY <1>2, <2>2, MaxOfPositions
  <2>4. x \in DOMAIN s /\ k \in ClaimOf(f, s[x])
    BY <1>4, <2>1
  <2>5. ~(x > i)
    BY <1>6, <2>4 DEF IsLast
  <2>6. x = i
    BY <1>2, <2>3, <2>4, <2>5
  <2> QED
    BY <1>1, <2>1, <2>3, <2>6 DEF LastClaim
<1> QED
  BY <1>1, <1>3, <1>5, <1>6

\* The stemcells of a version, in the pool's terms and in those of the configuration.
LEMMA CellsAsSaid ==
  ASSUME IsConfiguration(runtimes), ~Unreadable(runtimes), NEW f \in DOMAIN runtimes, NEW i \in DOMAIN runtimes[f],
         NEW mb \in Megabytes, NEW made, made = Decoded(runtimes[f][i]).stemcells,
         NEW same, same = {j \in DOMAIN made : made[j].memory = LimitsMemory(mb)}
  PROVE  Configured(runtimes[f][i], mb) = IF same = {} THEN {} ELSE {made[Max(same)].count}
<1>1. PICK v : v = runtimes[f][i]
  OBVIOUS
<1>2. PICK cells : cells = v.stemcells
  OBVIOUS
<1>3. made = [j \in DOMAIN cells |-> [count |-> cells[j].count, memory |-> ParseByteSize(cells[j].memory)]]
  <2>1. made = Decoded(v).stemcells
    BY <1>1
  <2>2. Decoded(v).stemcells =
          [j \in DOMAIN v.stemcells |-> [count |-> v.stemcells[j].count, memory |-> ParseByteSize(v.stemcells[j].memory)]]
    BY DEF Decoded
  <2> QED
    BY <1>2, <2>1, <2>2
<1>4. DOMAIN made = DOMAIN cells /\ \A j \in DOMAIN cells : made[j].count = cells[j].count /\ made[j].memory = ParseByteSize(cells[j].memory)
  BY <1>3
<1>5. same = {j \in DOMAIN cells : Says(cells[j].memory, mb)}
  <2>1. ASSUME NEW j \in DOMAIN cells PROVE (made[j].memory = LimitsMemory(mb)) <=> Says(cells[j].memory, mb)
    <3>1. cells[j].memory \in [number : Nat, unit : STRING] /\ Fits(cells[j].memory)
      BY <1>1, <1>2, FamilyOK
    <3>2. ParseByteSize(cells[j].memory) # NoSize
      BY <1>1, <1>2 DEF Unreadable
    <3>3. cells[j].memory.unit \in DOMAIN Bytes
      BY <3>1, <3>2, ReadAsSaid
    <3> QED
      BY <1>4, <3>1, <3>3, ReadAsSaid
  <2> QED
    BY <1>4, <2>1
<1>6. Configured(v, mb) = IF same = {} THEN {} ELSE {cells[Max(same)].count}
  BY <1>2, <1>5 DEF Configured
<1>7. same # {} => Max(same) \in DOMAIN cells
  <2>1. cells \in Seq([count : Int, memory : [number : Nat, unit : STRING]])
    BY <1>1, <1>2, FamilyOK
  <2>2. Len(cells) \in Nat /\ DOMAIN cells = 1..Len(cells)
    BY <2>1
  <2>3. same \in SUBSET (1..Len(cells)) /\ same \subseteq DOMAIN cells
    BY <1>5, <2>2
  <2> QED
    BY <2>2, <2>3, MaxOfPositions
<1> QED
  BY <1>1, <1>4, <1>6, <1>7

\* The pool prewarms as many containers of a kind as the version found under it is configured with, and none under
\* the name of an alias: what is found under any other key is of that kind.
LEMMA CreationsAsConfigured ==
  ASSUME RuntimesInv, decoding = "decoded", NEW f \in DOMAIN runtimes, NEW i \in DOMAIN runtimes[f],
         NEW k \in DOMAIN manifests, manifests[k] = Decoded(runtimes[f][i]), NEW mb \in Megabytes
  PROVE  NecessaryCreations(k, LimitsMemory(mb)) = IF k[2] = "default" THEN {} ELSE Configured(runtimes[f][i], mb)
<1>1. /\ IsConfiguration(runtimes) /\ Holds(runtimes, Families, manifests) /\ ~Unreadable(runtimes)
      /\ Families = DOMAIN runtimes
  BY DEF RuntimesInv, Families
<1>2. ASSUME NEW x \in ExplicitKinds PROVE manifests[x].kind = x
  <2>1. x \in DOMAIN manifests /\ x[2] # "default"
    BY DEF ExplicitKinds
  <2>2. PICK g \in DOMAIN runtimes : \E j \in DOMAIN runtimes[g] :
          IsLast(g, runtimes[g], x, j) /\ manifests[x] = Decoded(runtimes[g][j])
    BY <1>1, <2>1 DEF Holds
  <2>3. PICK v : x \in ClaimOf(g, v) /\ manifests[x] = Decoded(v)
    BY <2>2 DEF IsLast
  <2>4. x # DefaultName(g)
    BY <2>1 DEF DefaultName
  <2>5. x = v.kind
    BY <2>3, <2>4 DEF ClaimOf
  <2> QED
    BY <2>3, <2>5 DEF Decoded
<1>3. k \in ExplicitKinds <=> k[2] # "default"
  BY DEF ExplicitKinds
<1>4. PICK made : made = manifests[k].stemcells
  OBVIOUS
<1>5. PICK same : same = {j \in DOMAIN made : made[j].memory = LimitsMemory(mb)}
  OBVIOUS
<1>6. Configured(runtimes[f][i], mb) = IF same = {} THEN {} ELSE {made[Max(same)].count}
  <2>1. made = Decoded(runtimes[f][i]).stemcells
    BY <1>4
  <2> QED
    BY <1>1, <1>5, <2>1, CellsAsSaid
<1> DEFINE cs(x) == manifests[x].stemcells
           sm(x) == {j \in DOMAIN cs(x) : cs(x)[j].memory = LimitsMemory(mb)}
           ks    == {x \in ExplicitKinds : manifests[x].kind = k /\ sm(x) # {}}
<1>7. NecessaryCreations(k, LimitsMemory(mb)) = {cs(x)[Max(sm(x))].count : x \in ks}
  BY DEF NecessaryCreations
<1>8. sm(k) = same /\ cs(k) = made
  BY <1>4, <1>5
<1>9. ks = IF k[2] = "default" \/ same = {} THEN {} ELSE {k}
  <2> HIDE DEF sm
  <2> QED
    BY <1>2, <1>3, <1>8
<1>10. CASE k[2] = "default" \/ same = {}
  <2>1. ks = {}
    BY <1>9, <1>10
  <2> HIDE DEF ks, sm, cs
  <2> QED
    BY <1>6, <1>7, <1>10, <2>1
<1>11. CASE ~(k[2] = "default" \/ same = {})
  <2>1. ks = {k}
    BY <1>9, <1>11
  <2> HIDE DEF ks, sm, cs
  <2>2. NecessaryCreations(k, LimitsMemory(mb)) = {cs(k)[Max(sm(k))].count}
    BY <1>7, <2>1
  <2> QED
    BY <1>6, <1>8, <1>11, <2>2
<1> QED
  BY <1>10, <1>11

\* The manifests that are decoded mean what the configuration says.
LEMMA RuntimesInvAsConfigured == RuntimesInv => ManifestsAsConfigured
<1> SUFFICES ASSUME RuntimesInv PROVE ManifestsAsConfigured
  OBVIOUS
<1>1. ASSUME decoding = "decoded"
      PROVE  /\ \A f \in DOMAIN runtimes : \A i \in Defaults(f) : ~Taken(f, i)
             /\ DOMAIN manifests = UNION {KeysOf(f) : f \in DOMAIN runtimes}
             /\ \A k \in DOMAIN manifests : \E f \in Claimants(k) :
                  /\ manifests[k] = Decoded(LastClaim(f, k))
                  /\ \A mb \in Megabytes :
                       NecessaryCreations(k, LimitsMemory(mb)) =
                         IF k[2] = "default" THEN {} ELSE Configured(LastClaim(f, k), mb)
  <2>1. IsConfiguration(runtimes) /\ Holds(runtimes, DOMAIN runtimes, manifests)
    BY <1>1 DEF RuntimesInv, Families
  <2>2. ASSUME NEW f \in DOMAIN runtimes, NEW i \in Defaults(f) PROVE ~Taken(f, i)
    <3>1. i \in DOMAIN runtimes[f] /\ runtimes[f][i].default
      BY DEF Defaults
    <3> QED
      BY <2>1, <3>1, ClaimsOfVersions DEF Holds
  <2>3. DOMAIN manifests = UNION {KeysOf(f) : f \in DOMAIN runtimes}
    <3>1. \A f \in DOMAIN runtimes : \A k : k \in KeysOf(f) <=> \E i \in DOMAIN runtimes[f] : k \in ClaimOf(f, runtimes[f][i])
      <4> SUFFICES ASSUME NEW f \in DOMAIN runtimes, NEW k
                   PROVE  k \in KeysOf(f) <=> \E i \in DOMAIN runtimes[f] : k \in ClaimOf(f, runtimes[f][i])
        OBVIOUS
      <4>1. \A i \in DOMAIN runtimes[f] : Claim(f, i) = ClaimOf(f, runtimes[f][i])
        BY <2>1, ClaimsOfVersions
      <4> QED
        BY <4>1 DEF KeysOf
    <3>2. \A k : k \in UNION {KeysOf(f) : f \in DOMAIN runtimes} <=> \E f \in DOMAIN runtimes : k \in KeysOf(f)
      OBVIOUS
    <3>3. \A k : k \in DOMAIN manifests <=> \E f \in DOMAIN runtimes : k \in KeysOf(f)
      BY <2>1, <3>1 DEF Holds
    <3> QED
      BY <3>2, <3>3
  <2>4. ASSUME NEW k \in DOMAIN manifests
        PROVE  \E f \in Claimants(k) :
                 /\ manifests[k] = Decoded(LastClaim(f, k))
                 /\ \A mb \in Megabytes :
                      NecessaryCreations(k, LimitsMemory(mb)) =
                        IF k[2] = "default" THEN {} ELSE Configured(LastClaim(f, k), mb)
    <3>1. PICK f \in DOMAIN runtimes : \E i \in DOMAIN runtimes[f] :
            IsLast(f, runtimes[f], k, i) /\ manifests[k] = Decoded(runtimes[f][i])
      BY <2>1 DEF Holds
    <3>2. PICK i \in DOMAIN runtimes[f] : IsLast(f, runtimes[f], k, i) /\ manifests[k] = Decoded(runtimes[f][i])
      BY <3>1
    <3>3. LastClaim(f, k) = runtimes[f][i] /\ k \in Claim(f, i)
      BY <2>1, <3>2, ClaimsOfVersions DEF IsLast
    <3>4. f \in Claimants(k)
      BY <3>3 DEF Claimants, Claims
    <3>5. \A mb \in Megabytes : NecessaryCreations(k, LimitsMemory(mb)) =
                                  IF k[2] = "default" THEN {} ELSE Configured(runtimes[f][i], mb)
      BY <1>1, <3>2, CreationsAsConfigured
    <3> QED
      BY <3>2, <3>3, <3>4, <3>5
  <2> QED
    BY <2>2, <2>3, <2>4
<1>2. ASSUME decoding = "refused"
      PROVE  \/ \E f \in DOMAIN runtimes : \E i \in Defaults(f) : Taken(f, i) \/ Claimants(DefaultName(f)) # {f}
             \/ \E f \in DOMAIN runtimes : \E i \in DOMAIN runtimes[f] :
                  \E j \in DOMAIN runtimes[f][i].stemcells :
                    runtimes[f][i].stemcells[j].memory.unit \notin DOMAIN Bytes
  <2>1. IsConfiguration(runtimes) /\ (Unreadable(runtimes) \/ AliasTaken(runtimes))
    BY <1>2 DEF RuntimesInv
  <2>2. CASE AliasTaken(runtimes)
    <3>0. PICK f \in DOMAIN runtimes : \E i \in DOMAIN runtimes[f] :
            /\ runtimes[f][i].default
            /\ \/ Blocked(f, runtimes[f], i)
               \/ \E g \in DOMAIN runtimes \ {f} : \E j \in DOMAIN runtimes[g] : DefaultName(f) \in ClaimOf(g, runtimes[g][j])
      BY <2>2 DEF AliasTaken
    <3>1. PICK i \in DOMAIN runtimes[f] :
            /\ runtimes[f][i].default
            /\ \/ Blocked(f, runtimes[f], i)
               \/ \E g \in DOMAIN runtimes \ {f} : \E j \in DOMAIN runtimes[g] : DefaultName(f) \in ClaimOf(g, runtimes[g][j])
      BY <3>0
    <3>2. i \in Defaults(f)
      BY <3>1 DEF Defaults
    <3>3. CASE Blocked(f, runtimes[f], i)
      BY <2>1, <3>2, <3>3, ClaimsOfVersions
    <3>4. ASSUME NEW g \in DOMAIN runtimes \ {f}, NEW j \in DOMAIN runtimes[g],
                 DefaultName(f) \in ClaimOf(g, runtimes[g][j])
          PROVE  Claimants(DefaultName(f)) # {f}
      <4>1. DefaultName(f) \in Claim(g, j)
        BY <2>1, <3>4, ClaimsOfVersions
      <4>2. g \in Claimants(DefaultName(f))
        BY <4>1 DEF Claimants, Claims
      <4> QED
        BY <4>2
    <3> QED
      BY <3>1, <3>2, <3>3, <3>4
  <2>3. CASE Unreadable(runtimes)
    <3>1. PICK f \in DOMAIN runtimes : \E i \in DOMAIN runtimes[f] : \E j \in DOMAIN runtimes[f][i].stemcells :
            ParseByteSize(runtimes[f][i].stemcells[j].memory) = NoSize
      BY <2>3 DEF Unreadable
    <3>2. PICK i \in DOMAIN runtimes[f] : \E j \in DOMAIN runtimes[f][i].stemcells :
            ParseByteSize(runtimes[f][i].stemcells[j].memory) = NoSize
      BY <3>1
    <3>3. PICK j \in DOMAIN runtimes[f][i].stemcells : ParseByteSize(runtimes[f][i].stemcells[j].memory) = NoSize
      BY <3>2
    <3>4. PICK text : text = runtimes[f][i].stemcells[j].memory
      OBVIOUS
    <3>5. text \in [number : Nat, unit : STRING] /\ Fits(text)
      BY <2>1, <3>4, FamilyOK
    <3>6. text.unit \notin DOMAIN Bytes
      BY <3>3, <3>4, <3>5, ReadAsSaid
    <3> QED
      BY <3>4, <3>6
  <2> QED
    BY <2>1, <2>2, <2>3
<1> QED
  BY <1>1, <1>2, SizesAreReadBack DEF ManifestsAsConfigured

\* Whatever the families, kinds and sizes of the configuration, kinds that two families have or that are another's
\* alias included, and in whatever order Go walks over its maps: it is refused for a reason of its own, or gives the
\* runtimes, aliases and prewarm containers it says (RuntimeManifests.Decode, ByteSize, reconcilePrewarm).
THEOREM ManifestsAlwaysAsConfigured == Spec => []ManifestsAsConfigured
  BY RuntimesInvInit, RuntimesInvStep, RuntimesInvAsConfigured, PTL DEF Spec

================================================================================
