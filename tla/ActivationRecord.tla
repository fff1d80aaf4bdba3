---------------------------- MODULE ActivationRecord ---------------------------
(******************************************************************************)
(* The activation Runner.Invoke fills in (pkg/runner/runner.go) and the document *)
(* it becomes (MarshalJSON of pkg/entities/activation.go): what is made of an    *)
(* answer of the runtime (request of pkg/exec/docker/container.go), which of the *)
(* things that can go wrong is reported and to whose account, which times are    *)
(* reported and charged (GigabyteSeconds of pkg/units/units.go), which           *)
(* annotations win.                                                              *)
(* Invocations has the same handler with its concurrency; here one invocation    *)
(* runs alone, with all the answers the code tells apart.                        *)
(*                                                                              *)
(* The annotation "path" stands for all that are always set: path, kind, entry,  *)
(* limits, timeout and gbs.                                                      *)
(******************************************************************************)
EXTENDS Integers

CONSTANTS
  Quantum,     \* ticks of the clock that are charged as one
  MaxTicks,    \* bound: ticks one step of the invocation takes
  Memory,      \* the memory limit of the function
  None         \* what is not set

Schema           == {"path", "binding", "waitTime", "initTime", "causedBy"}
AnnotationNames  == Schema \cup {"custom"}

\* The errors an activation can have, what its result can be, and the values of its annotations and logs.
Errors  == {"notFound", "fetch", "provision", "oom", "abnormalInit", "abnormalRun", "initTimeout", "timeout",
            "truncated", "runtime", "invalid"}
Results == {"object", "errorObject", "errorValue", "{}"}
Notes   == {"schema", "namespace", "complete", "missing"}
\* What a message says of an activation.
AllRequests == [cause : BOOLEAN, binding : BOOLEAN, builder : BOOLEAN, annotations : SUBSET AnnotationNames]

VARIABLES
  request,     \* what the message says: whether it has a cause, a binding, is for a builder function,
               \* and the annotations of the namespace
  activation,  \* entities.Activation
  now,         \* the clock
  saw,         \* history: the answers so far, and the time the container worked
  document,    \* what the activation was marshalled to
  progress     \* where Invoke is

recordVars == <<request, activation, now, saw, document, progress>>

--------------------------------------------------------------------------------
(* A request to the runtime in the container (pkg/exec/docker/container.go).    *)

\* What a body is: an object without an error, with an error message, with another error property; the
\* JSON null; anything else; nothing.
Bodies == {"object", "errorObject", "errorValue", "null", "invalid", "empty"}
\* The runtime's answers.  Its length is declared within ResponseLimit, above it, or not at all; body is what
\* the bytes up to the limit are.  Where a transfer ends early it is by the deadline or a lost connection.
Answers ==
  {a \in [ length : {"within", "above", "unknown"}, ok : BOOLEAN, body : Bodies,
           cut : {None, "connecting", "body", "rest"}, why : {"deadline", "connection"} ] :
     /\ a.cut = "rest" => a.length = "above"
     /\ a.cut = None => a.why = "connection"
     /\ a.cut = "connecting" => a.length = "unknown"
     /\ a.length = "above" => a.body # "empty"}
\* How a request can fail, and how far the invocation came with the function and a container.
Causes == {"deadline", "connection", "tooLarge", "status"}
Steps  == {"found", "notFound", "new", "reused", "oom", "exited", "unclear", "failed"}

ASSUME TimeAssumption == Quantum \in Nat \ {0} /\ MaxTicks \in Nat /\ Memory \in Nat
\* What is not set is told apart from what is.
ASSUME NoneAssumption == None \notin Errors \cup Results \cup Notes \cup Causes \cup Steps /\ None \notin Answers

\* What docker says of a container.
Inspections == {"oom", "exited", "running", "absent", "failed"}

\* The body is read up to the limit, and not at all without a length; a buffer that was not filled is no JSON.
BodyOf(a) ==
  IF a.length = "unknown" THEN "empty" ELSE IF a.cut = "body" THEN "invalid" ELSE a.body
\* The part above the limit is read too, to free the connection, before the limit is reported.
ErrorOf(a) ==
  IF a.cut # None THEN a.why
  ELSE IF a.length = "above" THEN "tooLarge"
  ELSE IF ~a.ok THEN "status" ELSE None
\* Container.State: without an answer nothing is known, without a state it is the zero value.
State(inspected) == IF inspected = "absent" THEN "" ELSE inspected

\* Error and body of a request, with the state of the container, which is asked for after errors only.
Requested(a, inspected) == [error |-> ErrorOf(a), body |-> BodyOf(a), state |-> State(inspected)]
Successes == {a \in Answers : ErrorOf(a) = None}
Failures  == Answers \ Successes

--------------------------------------------------------------------------------
(* Invoke.                                                                      *)

\* The annotations an activation starts with.
Started(r) ==
  [a \in AnnotationNames |-> IF a \in r.annotations THEN "namespace"
                             ELSE IF a = "causedBy" /\ r.cause THEN "schema" ELSE None]

Responded(status, error) == [activation EXCEPT !.status = status, !.error = error]

GetFunction ==
  /\ progress = "fetch"
  /\ \/ /\ saw' = [saw EXCEPT !.fetch = "found"]
        /\ activation' = [activation EXCEPT !.memory = Memory]
        /\ progress' = "get"
     \/ /\ saw' = [saw EXCEPT !.fetch = "notFound"]
        /\ activation' = Responded("applicationError", "notFound")
        /\ progress' = "marshal"
     \/ /\ saw' = [saw EXCEPT !.fetch = "failed"]
        /\ activation' = Responded("systemError", "fetch")
        /\ progress' = "marshal"
  /\ UNCHANGED <<request, now, document>>

\* Pool.Get.  A container that was to be reused and is found broken is the developer's fault only if
\* its state says why.
Get ==
  /\ progress = "get"
  /\ \/ \E container \in {"new", "reused"}, ticks \in 0..MaxTicks :
          /\ saw' = [saw EXCEPT !.get = container]
          /\ now' = now + ticks
          /\ activation' = [activation EXCEPT !.waitTime = IF request.cause THEN 0 ELSE now']
          /\ progress' = IF container = "new" THEN "init" ELSE "run"
     \/ \E broken \in {"oom", "exited", "unclear", "failed"} :
          /\ saw' = [saw EXCEPT !.get = broken]
          /\ activation' = CASE broken = "oom"    -> Responded("developerError", "oom")
                             [] broken = "exited" -> Responded("developerError", "abnormalRun")
                             [] OTHER             -> Responded("systemError", "provision")
          /\ progress' = "marshal"
          /\ UNCHANGED now
  /\ UNCHANGED <<request, document>>

\* parseErrorFromResponse finds a message.
HasError(response) == response = "errorObject"

\* The error that is reported: what happened to the container goes before what the request ended with.
Failure(e, timeout, abnormal) ==
  IF e.error = "tooLarge" THEN "truncated"
  ELSE IF e.state = "oom" THEN "oom"
  ELSE IF e.state = "exited" THEN "abnormalRun"
  ELSE IF e.error = "deadline" THEN timeout
  ELSE IF HasError(e.body) THEN "runtime" ELSE abnormal

FailedWith(a, status, error) ==
  [a EXCEPT !.status = status, !.error = error, !.timeout = error \in {"initTimeout", "timeout"}]

Initialize ==
  /\ progress = "init"
  /\ \E ticks \in 0..MaxTicks :
       LET timed == [activation EXCEPT !.start = now, !.end = now + ticks, !.initTime = ticks] IN
       /\ now' = now + ticks
       /\ \/ /\ activation' = timed
             /\ saw' = [saw EXCEPT !.used = ticks]
             /\ progress' = "run"
          \/ \E a \in Failures, inspected \in Inspections :
               LET e == Requested(a, inspected) IN
               /\ activation' = FailedWith(timed, "developerError", Failure(e, "initTimeout", "abnormalInit"))
               /\ saw' = [saw EXCEPT !.errors = {e}, !.used = ticks]
               /\ progress' = "logs"
  /\ UNCHANGED <<request, document>>

\* Mutation: the time of the initialization is forgotten.
StartOfRunOnly(a, runStart) == runStart
\* The activation starts when the run does, less the time of the initialization.
StartOfRun(a, runStart) == runStart - a.initTime

Succeeded(a, response) ==
  CASE response \in {"invalid", "empty"} -> [a EXCEPT !.status = "developerError", !.error = "invalid"]
    [] response \in {"errorObject", "errorValue"} -> [a EXCEPT !.status = "applicationError", !.result = response]
    [] response = "object" -> [a EXCEPT !.status = "success", !.result = "object"]
    [] response = "null"   -> [a EXCEPT !.status = "success", !.result = "{}"]

Run ==
  /\ progress = "run"
  /\ \E since \in 0..1, ticks \in 0..MaxTicks :
       LET runStart == now + since
           timed == [activation EXCEPT !.start = StartOfRun(activation, runStart), !.end = runStart + ticks] IN
       /\ now' = runStart + ticks
       /\ \/ \E a \in Successes :
               /\ activation' = Succeeded(timed, BodyOf(a))
               /\ saw' = [saw EXCEPT !.used = @ + ticks, !.answer = a]
          \/ \E a \in Failures, inspected \in Inspections :
               LET e == Requested(a, inspected) IN
               /\ activation' = FailedWith(timed, IF e.error = "tooLarge" THEN "applicationError" ELSE "developerError",
                                       Failure(e, "timeout", "abnormalRun"))
               /\ saw' = [saw EXCEPT !.errors = {e}, !.used = @ + ticks]
  /\ progress' = "logs"
  /\ UNCHANGED <<request, document>>

\* The deferred log collection: all lines, or what there is and a line that says so, and says what
\* went wrong if something did.
CollectLogs ==
  /\ progress = "logs"
  /\ \/ activation' = [activation EXCEPT !.logs = "complete"]
     \/ activation' = [activation EXCEPT !.logs = IF activation.error # None THEN activation.error ELSE "missing"]
  /\ progress' = "marshal"
  /\ UNCHANGED <<request, now, saw, document>>

--------------------------------------------------------------------------------
(* MarshalJSON.                                                                 *)

GigabyteSeconds(memory, duration) == memory * ((duration + Quantum - 1) \div Quantum)
\* Functions of fnsystem/builder are not charged.
Charged(a) == IF request.builder THEN 0 ELSE GigabyteSeconds(a.memory, a.end - a.start)

\* The annotations of the schema this activation has.
SchemaOf(a) ==
  {"path"} \cup {n \in {"binding"} : request.binding} \cup {n \in {"waitTime"} : a.waitTime > 0}
    \cup {n \in {"initTime"} : a.initTime > 0} \cup {n \in {"causedBy"} : request.cause}

MarshalJSON(a) ==
  [ annotations |-> [n \in AnnotationNames |-> IF n \in SchemaOf(a) THEN "schema" ELSE a.annotations[n]],
    gbs      |-> Charged(a),
    timeout  |-> a.timeout,
    duration |-> a.end - a.start,
    logs     |-> IF a.logs = None THEN "[]" ELSE a.logs,
    result   |-> IF a.error # None THEN [error |-> a.error] ELSE [value |-> a.result],
    status   |-> a.status ]

\* The batcher is given the activation.
Marshal ==
  /\ progress = "marshal"
  /\ document' = MarshalJSON(activation)
  /\ progress' = "marshalled"
  /\ UNCHANGED <<request, activation, now, saw>>

NothingSeen == [fetch |-> None, get |-> None, errors |-> {}, answer |-> None, used |-> 0]
RecordInit(requests) ==
  /\ request \in requests
  /\ activation = [ annotations |-> Started(request), start |-> 0, end |-> 0, timeout |-> FALSE, memory |-> 0,
                    initTime |-> 0, waitTime |-> 0, logs |-> None, result |-> None, error |-> None,
                    status |-> "systemError" ]
  /\ now = 0 /\ saw = NothingSeen /\ document = None /\ progress = "fetch"
RecordIdle ==
  /\ request = None /\ activation = None /\ now = 0 /\ saw = NothingSeen /\ document = None
  /\ progress = "idle"
RecordNext == GetFunction \/ Get \/ Initialize \/ Run \/ CollectLogs \/ Marshal

--------------------------------------------------------------------------------
(* What a reader of the activation relies on.                                   *)

\* The invoker, or what it depends on, could not do its part.
SystemFault == saw.fetch = "failed" \/ saw.get \in {"unclear", "failed"}
\* The container was killed or has ended by itself.
Died    == \E e \in saw.errors : e.error # "tooLarge" /\ e.state \in {"oom", "exited"}
Overdue == \E e \in saw.errors : e.error = "deadline" /\ e.state \notin {"oom", "exited"}

\* Whatever fails on the way, the activation says so once and to the right account: it is a system error
\* exactly if the invoker could not get the function or a container (pkg/runner/runner.go:129-177), a timeout
\* exactly if the deadline passed and the container did not die of something else (:300-318, :371-389), it has
\* either an error or a result (pkg/entities/activation.go:77), and lines that are missing in its logs are
\* explained by that error (runner.go:222-229).  It lasts, and is charged for, the time of initialization and run
\* in begun quanta (units.go:93-112), nothing if the invoker is at fault, and no annotation of the namespace
\* takes the place of one of the schema (activation.go:98-119, :153-156).  Its result is an object the runtime
\* has sent in full and with status 200 (pkg/exec/docker/container.go:421-450).
ActivationRendered ==
  document # None =>
    /\ document.status = "systemError" <=> SystemFault
    /\ (activation.error = None) # (activation.result = None)
    /\ document.status = "success" => activation.error = None
    /\ activation.result # None => /\ saw.answer # None /\ saw.answer.ok /\ saw.answer.length = "within"
                                   /\ saw.answer.body \in {activation.result, "null"}
                                   /\ activation.result # "null"
    /\ document.timeout <=> Overdue
    /\ Died => activation.error \in {"oom", "abnormalRun"}
    /\ activation.error # None => document.logs \in {"[]", "complete", activation.error}
    /\ document.duration = saw.used
    /\ request.builder \/ saw.fetch # "found" => document.gbs = 0
    /\ ~request.builder /\ saw.fetch = "found" =>
         document.gbs * Quantum \in (Memory * saw.used)..(Memory * (saw.used + Quantum - 1))
    /\ SystemFault => document.gbs = 0
    /\ document.annotations["path"] = "schema"
    /\ request.cause => document.annotations["causedBy"] = "schema" /\ document.annotations["waitTime"] # "schema"
    /\ request.binding => document.annotations["binding"] = "schema"
    /\ activation.initTime > 0 <=> document.annotations["initTime"] = "schema"
    /\ \A n \in request.annotations : document.annotations[n] # None

================================================================================
