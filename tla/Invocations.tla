------------------------------ MODULE Invocations ------------------------------
(******************************************************************************)
(* Activation messages through the invoker: the Kafka workers of                *)
(* cmd/invoker/main.go and the HTTP handlers of pkg/http/runner.go, the checks  *)
(* and acknowledgements of pkg/kafka/runner.go, Runner.Invoke                   *)
(* (pkg/runner/runner.go) with its deferred log collection, return of the       *)
(* container and database write, the refresh of the blocked namespaces, and     *)
(* what a shutdown or a crash does to messages under way.                       *)
(*                                                                              *)
(* The container pool, the database and Kafka answer in every way the code      *)
(* tells apart.  Of an activation the status, the logs and how its run ended    *)
(* are kept.  ReadMessage of the Kafka library is two steps, since the workers  *)
(* share one reader: it fetches the next message, then commits its offset.      *)
(******************************************************************************)
EXTENDS Integers, Sequences, FiniteSets

CONSTANTS
  Workers,      \* goroutines of main that read from Kafka
  Handlers,     \* goroutines of the HTTP server
  Topic,        \* sequence of the messages on the invoker's topic
  Requests,     \* the messages that arrive at /invoke
  Blocking,     \* messages that are blocking invocations
  Stored,       \* messages whose identity stores activations
  Namespace,    \* the namespace of each message
  Namespaces,   \* the namespaces that an operator may block
  Malformed,    \* messages that cannot be parsed
  Oversize,     \* messages whose function needs more memory than the invoker has
  MaxCrashes    \* bound: crashes of the process

Messages == {Topic[i] : i \in DOMAIN Topic} \cup Requests
Procs    == Workers \cup Handlers

NoMsg == "no message"

ASSUME TopicAssumption == Topic \in Seq({Topic[i] : i \in DOMAIN Topic}) /\ NoMsg \notin Messages
ASSUME InvocationsAssumption ==
  /\ Workers \cap Handlers = {}
  /\ \A i, j \in DOMAIN Topic : Topic[i] = Topic[j] => i = j
  /\ Requests \cap {Topic[i] : i \in DOMAIN Topic} = {}
  /\ Blocking \cup Stored \cup Malformed \cup Oversize \subseteq Messages
  /\ MaxCrashes \in Nat

VARIABLES
  fetched,      \* the position of the reader, which the workers share
  committed,    \* the offset of the consumer group in Kafka, 0 when there is none
  rewound,      \* history: messages that an older commit has put behind the offset again
  dropped,      \* history: messages fetched by a ReadMessage that failed
  arrived,      \* requests the HTTP server has received
  lastOffset,   \* the highest offset seen
  current,      \* what a worker loaded from lastOffset
  at, msg,      \* where each goroutine is, and with which message
  activation,   \* the activation it fills in
  broken,       \* containerBroken
  blocked,      \* Runner.BlockedNamespaces
  blockedInDB,  \* the namespaces blocked in the database
  lent,         \* history: messages that hold a container of the pool
  executed,     \* history: how often the function of a message was run
  records,      \* activations written to the database, by message
  acks,         \* answers to the controller, by message
  phase, crashes

vars == <<fetched, committed, rewound, dropped, arrived, lastOffset, current, at, msg, activation, broken, blocked, blockedInDB,
          lent, executed, records, acks, phase, crashes>>
offsets  == <<fetched, committed, rewound, dropped>>
readVars == <<offsets, arrived, lastOffset, current>>
envVars  == <<blocked, blockedInDB, phase, crashes>>
history  == <<lent, executed, records, acks>>

Statuses == {"success", "applicationError", "developerError", "systemError"}
Fresh    == [status |-> "systemError", logs |-> "none", run |-> "none"]
\* The run got a response, too large or invalid ones included, or failed.
Activation == [status : Statuses, logs : {"none", "complete", "incomplete"},
               run : {"none", "response", "failure"}]
\* A blocking invocation is answered with its activation, any other with an identifier
\* and whether there was a system error; skipped ones with an identifier.
NoAnswer   == [kind |-> "none", of |-> Fresh]
Answer     == [kind : {"none", "skipped", "lost", "mini", "full"}, of : Activation]

ReaderType ==
  /\ fetched \in 0..Len(Topic) /\ committed \in 0..Len(Topic)
  /\ rewound \subseteq Messages /\ dropped \subseteq Messages /\ arrived \subseteq Requests
  /\ lastOffset \in 0..Len(Topic) /\ current \in [Workers -> 0..Len(Topic)]
ProcType ==
  /\ at \in [Procs -> {"read", "commit", "load", "swap", "parse", "check", "fetch", "get", "init",
                       "run", "logs", "return", "write", "ack", "stopped"}]
  /\ msg \in [Procs -> Messages \cup {NoMsg}]
  /\ activation \in [Procs -> Activation] /\ broken \in [Procs -> BOOLEAN]
HistoryType ==
  /\ lent \subseteq Messages /\ executed \in [Messages -> Nat]
  /\ records \in [Messages -> {<<>>} \cup {<<a>> : a \in Activation}]
  /\ acks \in [Messages -> Answer]
EnvType ==
  /\ blocked \subseteq Namespaces /\ blockedInDB \subseteq Namespaces
  /\ phase \in {"up", "cancelled", "stopped"} /\ crashes \in 0..MaxCrashes
TypeOK == ReaderType /\ ProcType /\ HistoryType /\ EnvType

Init ==
  /\ fetched = 0 /\ committed = 0 /\ rewound = {} /\ dropped = {}
  /\ arrived = {} /\ lastOffset = 0
  /\ current = [w \in Workers |-> 0]
  /\ at = [p \in Procs |-> "read"] /\ msg = [p \in Procs |-> NoMsg]
  /\ activation = [p \in Procs |-> Fresh] /\ broken = [p \in Procs |-> FALSE]
  /\ blocked = {} /\ blockedInDB = {}
  /\ lent = {} /\ executed = [m \in Messages |-> 0]
  /\ records = [m \in Messages |-> <<>>] /\ acks = [m \in Messages |-> NoAnswer]
  /\ phase = "up" /\ crashes = 0

Goto(p, l) == at' = [at EXCEPT ![p] = l]
\* The goroutine is done with its message and starts over.
Finish(p) ==
  /\ Goto(p, "read")
  /\ msg' = [msg EXCEPT ![p] = NoMsg]
  /\ activation' = [activation EXCEPT ![p] = Fresh]
  /\ broken' = [broken EXCEPT ![p] = FALSE]

--------------------------------------------------------------------------------
(* Where messages come from.                                                  *)

\* ReadMessage first fetches the next message from the reader, ...
FetchMessage(w) ==
  /\ at[w] = "read" /\ phase # "stopped" /\ fetched < Len(Topic)
  /\ fetched' = fetched + 1
  /\ msg' = [msg EXCEPT ![w] = Topic[fetched']]
  /\ Goto(w, "commit")
  /\ UNCHANGED <<committed, rewound, dropped, arrived, lastOffset, current, activation, broken, history,
                 envVars>>

\* Mutation: the loop goes on after context.Canceled.
StopWorkerNever(w) == FALSE /\ UNCHANGED vars
\* ... or returns the error of the cancelled context.
StopWorker(w) ==
  /\ at[w] = "read" /\ phase = "cancelled"
  /\ Goto(w, "stopped")
  /\ UNCHANGED <<readVars, msg, activation, broken, history, envVars>>

\* The offset after the message, msg.Offset + 1.
Offset(w) == CHOOSE i \in DOMAIN Topic : Topic[i] = msg[w]

\* Kafka takes every offset as the new one of the group, an older one too.
SetOffset(w) ==
  /\ committed' = Offset(w)
  /\ rewound' = rewound \cup {Topic[i] : i \in Offset(w) + 1..committed}

\* ... and then commits it.
CommitMessage(w) ==
  /\ at[w] = "commit"
  /\ SetOffset(w)
  /\ Goto(w, "load")
  /\ UNCHANGED <<fetched, dropped, arrived, lastOffset, current, msg, activation, broken, history, envVars>>

\* Mutation: the message is invoked although ReadMessage returned an error.
CommitFailureIgnored(w) ==
  /\ at[w] = "commit"
  /\ Goto(w, "load")
  /\ UNCHANGED <<readVars, msg, activation, broken, history, envVars>>
\* ReadMessage returns an error because the commit failed or was cancelled, whether or not it
\* has reached Kafka.  The loop logs it, or ends, and the message is gone.
CommitFailed(w) ==
  /\ at[w] = "commit"
  /\ SetOffset(w) \/ UNCHANGED <<committed, rewound>>
  /\ dropped' = dropped \cup {msg[w]}
  /\ Goto(w, "read") \/ (phase = "cancelled" /\ Goto(w, "stopped"))
  /\ msg' = [msg EXCEPT ![w] = NoMsg]
  /\ UNCHANGED <<fetched, arrived, lastOffset, current, activation, broken, history, envVars>>

\* The loop that keeps the maximum in lastOffset: Load ...
LoadOffset(w) ==
  /\ at[w] = "load"
  /\ current' = [current EXCEPT ![w] = lastOffset]
  /\ Goto(w, IF Offset(w) <= lastOffset THEN "parse" ELSE "swap")
  /\ UNCHANGED <<offsets, arrived, lastOffset, msg, activation, broken, history, envVars>>

\* Mutation: the loop is not repeated.
SwapOnce(w) ==
  /\ at[w] = "swap"
  /\ lastOffset' = IF lastOffset = current[w] THEN Offset(w) ELSE lastOffset
  /\ Goto(w, "parse")
  /\ UNCHANGED <<offsets, arrived, current, msg, activation, broken, history, envVars>>
\* ... and CompareAndSwap, which fails when another worker was faster.
SwapOffset(w) ==
  /\ at[w] = "swap"
  /\ \/ /\ lastOffset = current[w]
        /\ lastOffset' = Offset(w)
        /\ Goto(w, "parse")
     \/ /\ lastOffset # current[w]
        /\ Goto(w, "load")
        /\ UNCHANGED lastOffset
  /\ UNCHANGED <<offsets, arrived, current, msg, activation, broken, history, envVars>>

\* A request reaches ServeHTTP; a server that shuts down accepts none.
Receive(h) ==
  /\ at[h] = "read" /\ phase = "up"
  /\ \E m \in Requests \ arrived :
       /\ arrived' = arrived \cup {m}
       /\ msg' = [msg EXCEPT ![h] = m]
  /\ Goto(h, "parse")
  /\ UNCHANGED <<offsets, lastOffset, current, activation, broken, history, envVars>>

\* ParseActivationMessage.  A message that cannot be parsed is dropped, a request answered.
Parse(p) ==
  /\ at[p] = "parse"
  /\ \/ /\ msg[p] \in Malformed
        /\ Finish(p)
     \/ /\ msg[p] \notin Malformed
        /\ Goto(p, IF p \in Workers THEN "check" ELSE "fetch")
        /\ UNCHANGED <<msg, activation, broken>>
  /\ UNCHANGED <<readVars, history, envVars>>

--------------------------------------------------------------------------------
(* Runner.Invoke of pkg/kafka: blocked namespaces and old blocking messages.  *)

\* Mutation: what was skipped is not answered.
AckedUnlessSkipped(p, kind) ==
  acks' = IF kind = "skipped" THEN acks
          ELSE [acks EXCEPT ![msg[p]] = [kind |-> kind, of |-> activation[p]]]
\* Mutation: only blocking invocations are answered.
AckedOnlyFull(p, kind) ==
  acks' = IF kind = "mini" THEN acks
          ELSE [acks EXCEPT ![msg[p]] = [kind |-> kind, of |-> activation[p]]]
\* A write to Kafka, or to the HTTP response, that may fail and is then only logged.
Acked(p, kind) ==
  \E k \in {kind, "lost"} : acks' = [acks EXCEPT ![msg[p]] = [kind |-> k, of |-> activation[p]]]

Check(p) ==
  /\ at[p] = "check"
  /\ \/ /\ Namespace[msg[p]] \in blocked \/ msg[p] \in Blocking
        /\ Acked(p, "skipped")
        /\ Finish(p)
     \/ /\ Namespace[msg[p]] \notin blocked
        /\ Goto(p, "fetch")
        /\ UNCHANGED <<msg, activation, broken, acks>>
  /\ UNCHANGED <<readVars, lent, executed, records, envVars>>

--------------------------------------------------------------------------------
(* Runner.Invoke of pkg/runner.                                               *)

Respond(p, status) == activation' = [activation EXCEPT ![p].status = status]
\* What Run returned, and the status of the activation.
Ran(p, run, status) == activation' = [activation EXCEPT ![p].status = status, ![p].run = run]

\* 1. Fetch the function: found, deleted concurrently, or the database failed.
FetchFunction(p) ==
  /\ at[p] = "fetch"
  /\ \/ Goto(p, "get") /\ UNCHANGED activation
     \/ Respond(p, "applicationError") /\ Goto(p, "write")
     \/ Respond(p, "systemError") /\ Goto(p, "write")
  /\ UNCHANGED <<readVars, msg, broken, history, envVars>>

\* 2. Get a container: a fresh one, a reused one, one the user broke, or an error.  No context
\* ends a Get that needs more memory than there is: it waits in Acquire for ever.
GetContainer(p) ==
  /\ at[p] = "get" /\ msg[p] \notin Oversize
  /\ \/ /\ Goto(p, "init") \/ Goto(p, "run")
        /\ lent' = lent \cup {msg[p]}
        /\ UNCHANGED activation
     \/ Respond(p, "developerError") /\ Goto(p, "write") /\ UNCHANGED lent
     \/ Respond(p, "systemError") /\ Goto(p, "write") /\ UNCHANGED lent
  /\ UNCHANGED <<readVars, msg, broken, executed, records, acks, envVars>>

Breaks(p) == broken' = [broken EXCEPT ![p] = TRUE]

\* 3. Initialize: any failure is a developer error and breaks the container.
Initialize(p) ==
  /\ at[p] = "init"
  /\ \/ Goto(p, "run") /\ UNCHANGED <<activation, broken>>
     \/ Respond(p, "developerError") /\ Breaks(p) /\ Goto(p, "logs")
  /\ UNCHANGED <<readVars, msg, history, envVars>>

\* Mutation: a response that is not an object leaves the default status.
InvalidLeft(p) == activation' = [activation EXCEPT ![p].run = "response"]
\* The response is not a JSON object.
Invalid(p) == Ran(p, "response", "developerError")

\* Mutation: the container of a run that failed is kept.
FailedKept(p) == Ran(p, "failure", "developerError") /\ UNCHANGED broken
\* Run failed or its deadline has passed.
Failed(p) == Ran(p, "failure", "developerError") /\ Breaks(p)

\* 4. Run: a result, an invalid one, one that is too large, or a failure that breaks
\* the container.
Run(p) ==
  /\ at[p] = "run"
  /\ executed' = [executed EXCEPT ![msg[p]] = @ + 1]
  /\ \/ /\ \E s \in {"success", "applicationError"} : Ran(p, "response", s)
        /\ UNCHANGED broken
     \/ Invalid(p) /\ UNCHANGED broken
     \/ Failed(p)
  /\ Goto(p, "logs")
  /\ UNCHANGED <<readVars, msg, lent, records, acks, envVars>>

\* Mutation: nobody waits for the logs.
LogsNotAwaited(p) ==
  /\ at[p] = "logs" /\ Goto(p, "return")
  /\ UNCHANGED <<readVars, msg, activation, broken, history, envVars>>
\* The deferred functions, in the order they run: first the logs are collected, ...
CollectLogs(p) ==
  /\ at[p] = "logs"
  /\ \/ /\ activation' = [activation EXCEPT ![p].logs = "complete"]
        /\ UNCHANGED broken
     \/ \* The timeout puts the container in an unknown state.
        /\ activation' = [activation EXCEPT ![p].logs = "incomplete"]
        /\ Breaks(p)
  /\ Goto(p, "return")
  /\ UNCHANGED <<readVars, msg, history, envVars>>

\* ... then the container goes back, with Put or PutToDestroy, ...
ReturnContainer(p) ==
  /\ at[p] = "return"
  /\ lent' = lent \ {msg[p]}
  /\ Goto(p, "write")
  /\ UNCHANGED <<readVars, msg, activation, broken, executed, records, acks, envVars>>

\* Only non-blocking invocations of identities that store activations are written.
WritesRecord(p) == msg[p] \notin Blocking /\ msg[p] \in Stored

\* ... and the activation is written last.  A write that fails is only logged.
WriteActivation(p) ==
  /\ at[p] = "write"
  /\ \/ WritesRecord(p) /\ records' = [records EXCEPT ![msg[p]] = <<activation[p]>>]
     \/ UNCHANGED records
  /\ Goto(p, "ack")
  /\ UNCHANGED <<readVars, msg, activation, broken, lent, executed, acks, envVars>>

\* A blocking invocation is answered with its activation; one that cannot be marshalled is replaced by
\* its identifier.
Completion(p) == IF msg[p] \in Blocking THEN {"full", "mini"} ELSE {"mini"}
\* The completion message to the controller, through Kafka or as HTTP response.
Ack(p) ==
  /\ at[p] = "ack"
  /\ \E kind \in Completion(p) : Acked(p, kind)
  /\ Finish(p)
  /\ UNCHANGED <<readVars, lent, executed, records, envVars>>

--------------------------------------------------------------------------------
(* The periodic refresh of the blocked namespaces.                            *)

BlockInDB ==
  /\ blockedInDB' \in (SUBSET Namespaces) \ {blockedInDB}
  /\ UNCHANGED <<readVars, at, msg, activation, broken, history, blocked, phase, crashes>>

\* The rows of the view, and nil beside an error.
GetBlockedNamespaces == {blockedInDB, {}}

\* What comes with an error is stored as well, at a tick during the shutdown too.
Refresh ==
  /\ phase # "stopped"
  /\ blocked' \in GetBlockedNamespaces
  /\ UNCHANGED <<readVars, at, msg, activation, broken, history, blockedInDB, phase, crashes>>

--------------------------------------------------------------------------------
(* The end of the process.                                                    *)

\* SIGTERM: cancelInnerWork and server.Shutdown.
Cancel ==
  /\ phase = "up"
  /\ phase' = "cancelled"
  /\ UNCHANGED <<readVars, at, msg, activation, broken, history, blocked, blockedInDB, crashes>>

\* Mutation: the HTTP handlers are not waited for.
WaitForWorkers ==
  /\ phase = "cancelled" /\ \A w \in Workers : at[w] = "stopped"
  /\ phase' = "stopped"
  /\ UNCHANGED <<readVars, at, msg, activation, broken, history, blocked, blockedInDB, crashes>>
\* server.Shutdown and grp.Wait have returned: "no invocations are in-flight anymore".
Stopped ==
  /\ phase = "cancelled"
  /\ \A w \in Workers : at[w] = "stopped"
  /\ \A h \in Handlers : at[h] = "read"
  /\ phase' = "stopped"
  /\ UNCHANGED <<readVars, at, msg, activation, broken, history, blocked, blockedInDB, crashes>>

\* A new reader starts behind the offset of the group, or at the end of the topic (StartOffset).
Resume == IF committed # 0 THEN {committed} ELSE fetched..Len(Topic)

\* The process dies and starts again.
Crash ==
  /\ phase = "up" /\ crashes < MaxCrashes
  /\ crashes' = crashes + 1
  /\ fetched' \in Resume
  /\ lastOffset' = 0
  /\ current' = [w \in Workers |-> 0]
  /\ at' = [p \in Procs |-> "read"] /\ msg' = [p \in Procs |-> NoMsg]
  /\ activation' = [p \in Procs |-> Fresh] /\ broken' = [p \in Procs |-> FALSE]
  /\ lent' = {} /\ blocked' = {}
  /\ UNCHANGED <<committed, rewound, dropped, arrived, executed, records, acks, blockedInDB, phase>>

--------------------------------------------------------------------------------
Invoke(p) ==
  \/ Parse(p) \/ FetchFunction(p) \/ GetContainer(p) \/ Initialize(p) \/ Run(p) \/ CollectLogs(p)
  \/ ReturnContainer(p) \/ WriteActivation(p) \/ Ack(p)
ReadMessage(w) == FetchMessage(w) \/ CommitMessage(w) \/ CommitFailed(w)
KafkaWorker(w) == LoadOffset(w) \/ SwapOffset(w) \/ Check(w) \/ Invoke(w)

Next ==
  \/ \E w \in Workers : ReadMessage(w) \/ StopWorker(w) \/ KafkaWorker(w)
  \/ \E h \in Handlers : Receive(h) \/ Invoke(h)
  \/ BlockInDB \/ Refresh \/ Cancel \/ Stopped \/ Crash

Spec == Init /\ [][Next]_vars

\* A worker or handler with a message goes on: the calls to the database, to a container and to
\* Kafka have deadlines, retries that end or time limits of their own, the pool serves a Get that
\* fits once others have returned their containers, and the controller reads its response.
\* Nothing is assumed of a Get that does not fit.  A commit may wait for Kafka until the context is
\* cancelled; then, and in a fetch, the select finds the context done sooner or later.
FairSpec ==
  /\ Spec
  /\ \A w \in Workers :
       /\ WF_vars(KafkaWorker(w)) /\ SF_vars(StopWorker(w))
       /\ WF_vars(phase = "cancelled" /\ (CommitMessage(w) \/ CommitFailed(w)))
  /\ \A h \in Handlers : WF_vars(Invoke(h))
  /\ WF_vars(Stopped)

--------------------------------------------------------------------------------
(* Properties.                                                                *)

InFlight == {msg[p] : p \in Procs} \ {NoMsg}
Answered(m) == acks[m].kind # "none"
\* Messages that were fetched from Kafka or received over HTTP.
Taken == {Topic[i] : i \in 1..fetched} \cup arrived
\* Messages that a crash may have delivered again although they were invoked before.
Repeatable == IF crashes = 0 THEN {} ELSE rewound
\* The offsets of the messages that ReadMessage has returned.
Returned ==
  {i \in 1..fetched : Topic[i] \notin dropped /\ \A w \in Workers : at[w] = "commit" => msg[w] # Topic[i]}
\* The goroutine waits in Acquire for more memory than there is.
WaitsForever(p) == at[p] = "get" /\ msg[p] \in Oversize

(* As long as the process did not crash ("data-loss"), every message taken is     *)
(* under way, answered or was malformed, unless its commit failed: then it was    *)
(* not run and nobody is told.                                                    *)
NoMessageForgotten ==
  /\ TypeOK
  /\ crashes = 0 => \A m \in Taken :
       \/ m \in Malformed \ dropped
       \/ m \in dropped /\ m \notin InFlight /\ ~Answered(m) /\ executed[m] = 0
       \/ m \notin dropped /\ (m \in InFlight <=> ~Answered(m))

(* "Once we reach here, we know that no invocations are in-flight anymore" (main, *)
(* after grp.Wait): the containers are all back when the pool is shut down.       *)
NothingInFlight == phase = "stopped" => InFlight = {} /\ lent = {}

(* What StartOffset and the commit before the invocation achieve of "a safety     *)
(* measure to avoid double execution of functions" (kafka.go): a crash runs again *)
(* only what one worker had committed and another then put back behind the offset *)
(* with an older commit, and each crash at most once; never a message whose own   *)
(* commit failed.                                                                 *)
RerunOnlyIfRewound ==
  \A m \in Messages : executed[m] <= 1 + crashes /\ (executed[m] > 1 => m \in rewound)

(* The controller is told of a system error only when the function was not run,   *)
(* and an answer is given only after the container went back to the pool.         *)
AnswerHonest ==
  \A m \in Messages \ Repeatable : Answered(m) =>
    /\ m \notin lent
    /\ acks[m].of.status = "systemError" => executed[m] = 0

(* The record in the database is the activation the controller is answered with,  *)
(* with how its run ended and its logs: nothing changes it after it was written.  *)
RecordFinal ==
  \A m \in Messages \ Repeatable : records[m] # <<>> =>
    /\ m \in Stored \ Blocking
    /\ Answered(m) => acks[m].of = records[m][1]
    /\ executed[m] = 1 => records[m][1].run # "none" /\ records[m][1].logs # "none"

(* A container is only kept when Run got a response from it, no failure and no    *)
(* timeout, and the log sentinels were seen.                                      *)
KeptContainersSound ==
  \A p \in Procs : at[p] \in {"return", "write"} /\ ~broken[p] /\ activation[p].logs # "none" =>
    activation[p].run = "response" /\ activation[p].logs = "complete"

(* lastOffset is the highest offset ReadMessage returned once no worker has one   *)
(* to report: a worker that was overtaken neither loses its own nor puts an older *)
(* one back.                                                                      *)
OffsetCurrent ==
  crashes = 0 /\ (\A w \in Workers : at[w] \notin {"load", "swap"}) =>
    lastOffset \in Returned \cup {0} /\ \A i \in Returned : i <= lastOffset

(* What the refresh and the check promise together ("The namespace is blocked     *)
(* ... so we don't do any work"): a namespace the invoker knows to be blocked      *)
(* stays blocked for it as long as the database says so.                          *)
StaysBlocked ==
  [][\A n \in Namespaces :
       n \in blocked /\ n \in blockedInDB /\ crashes' = crashes => n \in blocked']_vars

(* Every well-formed message ReadMessage has returned or a handler has received   *)
(* is answered in the end, or the process crashed, or it waits for a container    *)
(* that is too large.                                                             *)
EventuallyAnswered ==
  \A m \in Messages \ Malformed :
    (\E p \in Procs : msg[p] = m /\ at[p] # "commit") ~>
      \/ Answered(m) \/ crashes > 0
      \/ \E p \in Procs : msg[p] = m /\ WaitsForever(p)

(* A shutdown ends once it was asked for, with every worker blocked on Kafka and  *)
(* every invocation, unless some goroutine waits for a container that is too      *)
(* large.                                                                         *)
ShutdownEnds == phase = "cancelled" ~> (phase = "stopped" \/ \E p \in Procs : WaitsForever(p))

================================================================================
