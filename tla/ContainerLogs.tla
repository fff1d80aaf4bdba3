----------------------------- MODULE ContainerLogs -----------------------------
(******************************************************************************)
(* The log lines of one container on their way to the activations: the runtime  *)
(* writes lines and, when an invocation ends, a sentinel on both streams; two    *)
(* consumeStream goroutines forward them into the unbuffered Logs channel        *)
(* (pkg/exec/docker/container.go); collectLogs of the invocation receives them   *)
(* until both sentinels were seen or its timeout has passed, after which the     *)
(* container is destroyed (pkg/runner/runner.go); Remove drains what is left     *)
(* and waits for the goroutines.                                                 *)
(******************************************************************************)
EXTENDS Integers, Sequences, Functions

CONSTANTS
  MaxActivations,   \* bound: invocations of the container
  MaxLines,         \* bound: lines written on one stream per invocation
  Limit             \* the log limit of the function, in lines

ASSUME LogsAssumption ==
  MaxActivations \in Nat \ {0} /\ MaxLines \in Nat /\ Limit \in Nat

Streams == {"stdout", "stderr"}

VARIABLES
  activation,   \* number of the current or last invocation
  invocation,   \* where the invocation is
  written,      \* lines the current invocation has written on each stream
  ended,        \* streams on which the sentinel of the current invocation was written
  pipe,         \* what is written and not yet read by consumeStream
  held,         \* the line a consumeStream goroutine blocks on, or None
  consumer,     \* whether the goroutines of logsGrp run
  collector,    \* collectLogs: "off", "on", "done"
  found,        \* streams whose sentinel collectLogs has seen
  logs,         \* the lines collected for the current invocation
  truncated,    \* logsExceeded
  conn,         \* the attach connection
  channel       \* the Logs channel: "open" or "closed"

logsVars == <<activation, invocation, written, ended, pipe, held, consumer, collector, found, logs,
              truncated, conn, channel>>
runtimeVars == <<written, ended>>
collectVars == <<collector, found, logs, truncated>>

None  == [of |-> 0, kind |-> "none"]
\* A line written after its invocation's sentinel is the user's own background output.
Entry == [of : 1..MaxActivations, kind : {"line", "late", "sentinel"}]

LogsTypeOK ==
  /\ activation \in 0..MaxActivations
  /\ invocation \in {"idle", "invoking", "collecting", "cancelled", "broken", "draining", "closing",
                     "removed", "removeFailed", "leaked"}
  /\ written \in [Streams -> 0..MaxLines] /\ ended \subseteq Streams
  /\ pipe \in [Streams -> Seq(Entry)]
  /\ held \in [Streams -> Entry \cup {None}]
  /\ consumer \in [Streams -> {"running", "done"}]
  /\ collector \in {"off", "on", "done"} /\ found \subseteq Streams
  /\ logs \in Seq(Entry) /\ Len(logs) <= Limit /\ truncated \in BOOLEAN
  /\ conn \in {"open", "closed"} /\ channel \in {"open", "closed"}

LogsInit ==
  /\ activation = 0 /\ invocation = "idle"
  /\ written = [s \in Streams |-> 0] /\ ended = Streams
  /\ pipe = [s \in Streams |-> <<>>]
  /\ held = [s \in Streams |-> None]
  /\ consumer = [s \in Streams |-> "running"]
  /\ collector = "off" /\ found = {} /\ logs = <<>> /\ truncated = FALSE
  /\ conn = "open" /\ channel = "open"

--------------------------------------------------------------------------------
(* The runtime inside the container.                                          *)

\* Docker kills the container before anything else is taken down.
Removing == {"draining", "closing", "removed", "removeFailed"}
Alive == activation > 0 /\ invocation \notin Removing

\* A line, possibly after the invocation it belongs to has ended.
WriteLine(s) ==
  /\ Alive /\ written[s] < MaxLines
  /\ written' = [written EXCEPT ![s] = @ + 1]
  /\ pipe' = [pipe EXCEPT ![s] = Append(@, [of |-> activation,
                                            kind |-> IF s \in ended THEN "late" ELSE "line"])]
  /\ UNCHANGED <<activation, invocation, ended, held, consumer, collectVars, conn, channel>>

\* The sentinel; a runtime that hangs or was killed never gets here.
WriteSentinel(s) ==
  /\ Alive /\ s \notin ended
  /\ ended' = ended \cup {s}
  /\ pipe' = [pipe EXCEPT ![s] = Append(@, [of |-> activation, kind |-> "sentinel"])]
  /\ UNCHANGED <<activation, invocation, written, held, consumer, collectVars, conn, channel>>

--------------------------------------------------------------------------------
(* consumeStream: read a line, send it on the unbuffered channel.             *)

ReadLine(s) ==
  /\ consumer[s] = "running" /\ held[s] = None
  /\ \/ /\ pipe[s] # <<>>
        /\ held' = [held EXCEPT ![s] = Head(pipe[s])]
        /\ pipe' = [pipe EXCEPT ![s] = Tail(@)]
        /\ UNCHANGED consumer
     \/ \* The stream has ended and the demultiplexer has closed the pipes.
        /\ invocation \in Removing
        /\ consumer' = [consumer EXCEPT ![s] = "done"]
        /\ UNCHANGED <<held, pipe>>
  /\ UNCHANGED <<activation, invocation, runtimeVars, collectVars, conn, channel>>

\* collectLogs ends with the sentinels of both streams.
AllSentinels(seen) == seen = Streams

\* The next line still fits the log limit.
WithinLimit == Len(logs) < Limit

\* collectLogs receives what a consumeStream goroutine sends.
Collect(s) ==
  /\ collector = "on" /\ held[s] # None
  /\ held' = [held EXCEPT ![s] = None]
  /\ IF held[s].kind = "sentinel"
       THEN /\ found' = found \cup {s}
            /\ collector' = IF AllSentinels(found') THEN "done" ELSE "on"
            /\ UNCHANGED <<logs, truncated>>
       ELSE /\ IF ~truncated /\ WithinLimit
                 THEN logs' = Append(logs, held[s]) /\ UNCHANGED truncated
                 ELSE truncated' = TRUE /\ UNCHANGED logs
            /\ UNCHANGED <<found, collector>>
  /\ UNCHANGED <<activation, invocation, runtimeVars, pipe, consumer, conn, channel>>

--------------------------------------------------------------------------------
(* Runner.Invoke on this container.                                           *)

\* The container was obtained and log collection starts before it is used.
Invoke ==
  /\ invocation = "idle" /\ activation < MaxActivations
  /\ activation' = activation + 1
  /\ invocation' = "invoking"
  /\ written' = [s \in Streams |-> 0] /\ ended' = {}
  /\ collector' = "on" /\ found' = {} /\ logs' = <<>> /\ truncated' = FALSE
  /\ UNCHANGED <<pipe, held, consumer, conn, channel>>

\* Init and run have returned, successfully or with an error that breaks the container.
Returned ==
  /\ invocation = "invoking"
  /\ invocation' = "collecting"
  /\ UNCHANGED <<activation, runtimeVars, pipe, held, consumer, collectVars, conn, channel>>

\* The logs arrived in time; the container is put back or destroyed for another reason.
Collected ==
  /\ invocation = "collecting" /\ collector = "done"
  /\ invocation' \in {"idle", "broken"}
  /\ collector' = "off"
  /\ UNCHANGED <<activation, runtimeVars, pipe, held, consumer, found, logs, truncated, conn,
                 channel>>

\* logCollectionTimeout has passed, perhaps just when the logs arrive.
Timeout ==
  /\ invocation = "collecting"
  /\ invocation' = "cancelled"
  /\ UNCHANGED <<activation, runtimeVars, pipe, held, consumer, collectVars, conn, channel>>

\* Mutation: the container is put back although its sentinels are still to come.
CancelledReused ==
  /\ invocation = "cancelled"
  /\ collector' = "off"
  /\ invocation' = "idle"
  /\ UNCHANGED <<activation, runtimeVars, pipe, held, consumer, found, logs, truncated, conn,
                 channel>>
\* collectLogs has returned what it had, and the container is in an unknown state.
Cancelled ==
  /\ invocation = "cancelled"
  /\ collector' = "off"
  /\ invocation' = "broken"
  /\ UNCHANGED <<activation, runtimeVars, pipe, held, consumer, found, logs, truncated, conn,
                 channel>>

--------------------------------------------------------------------------------
(* Remove, of a broken container or of an idle one.                           *)

\* Docker removes the container, and the goroutine that drains the channel starts;
\* or docker fails, and Remove gives up at once.
RemoveContainer ==
  /\ invocation \in {"broken", "idle"} /\ activation > 0
  /\ invocation' \in {"draining", "leaked"}
  /\ UNCHANGED <<activation, runtimeVars, pipe, held, consumer, collectVars, conn, channel>>

\* Mutation: nobody reads the channel while Remove waits.
DrainNothing(s) == FALSE /\ UNCHANGED logsVars
Drain(s) ==
  /\ invocation \in {"draining", "closing", "removeFailed"} /\ held[s] # None
  /\ held' = [held EXCEPT ![s] = None]
  /\ UNCHANGED <<activation, invocation, runtimeVars, pipe, consumer, collectVars, conn, channel>>

\* logsResp.Conn.Close, which may fail and ends Remove early.
CloseConn ==
  /\ invocation = "draining"
  /\ \/ conn' = "closed" /\ invocation' = "closing"
     \/ invocation' = "removeFailed" /\ UNCHANGED conn
  /\ UNCHANGED <<activation, runtimeVars, pipe, held, consumer, collectVars, channel>>

\* Mutation: the channel is closed without waiting for the goroutines.
CloseLogsEarly ==
  /\ invocation = "closing"
  /\ channel' = "closed"
  /\ invocation' = "removed"
  /\ UNCHANGED <<activation, runtimeVars, pipe, held, consumer, collectVars, conn>>
\* logsGrp.Wait, then close(c.logs), which also ends the draining goroutine.
CloseLogs ==
  /\ invocation = "closing" /\ \A s \in Streams : consumer[s] = "done"
  /\ channel' = "closed"
  /\ invocation' = "removed"
  /\ UNCHANGED <<activation, runtimeVars, pipe, held, consumer, collectVars, conn>>

LogsNext ==
  \/ \E s \in Streams : WriteLine(s) \/ WriteSentinel(s) \/ ReadLine(s) \/ Collect(s) \/ Drain(s)
  \/ Invoke \/ Returned \/ Collected \/ Timeout \/ Cancelled
  \/ RemoveContainer \/ CloseConn \/ CloseLogs

LogsSpec == LogsInit /\ [][LogsNext]_logsVars

\* Goroutines run, init and run end at their deadline, and the timer fires.  The
\* runtime owes nothing: it may hang for ever.
LogsFairness ==
  /\ \A s \in Streams : WF_logsVars(ReadLine(s)) /\ WF_logsVars(Drain(s)) /\ SF_logsVars(Collect(s))
  /\ WF_logsVars(Returned) /\ WF_logsVars(Collected \/ Timeout) /\ WF_logsVars(Cancelled)
  /\ WF_logsVars(CloseConn) /\ WF_logsVars(CloseLogs)

--------------------------------------------------------------------------------
(* The logs of an activation hold no line of an earlier invocation of the same   *)
(* container, except what that one wrote after its own sentinel; and when log    *)
(* collection ended by itself, they hold everything the function wrote before    *)
(* its sentinels, up to the log limit.                                           *)
LogsExact ==
  /\ LogsTypeOK
  /\ \A i \in DOMAIN logs : logs[i].of = activation \/ logs[i].kind = "late"
  /\ collector = "done" /\ ~truncated =>
       \A s \in Streams : \A e \in Range(pipe[s]) \cup {held[s]} : e.kind = "line" => e.of # activation

(* When the Logs channel is closed nobody is left who sends on it: the           *)
(* goroutines of logsGrp have ended.                                             *)
NoSendOnClosed == channel = "closed" => \A s \in Streams : consumer[s] = "done" /\ held[s] = None

(* Whatever the runtime does, an invocation is not held up by its logs for ever, *)
(* and Remove returns although the goroutines block on a channel nobody collects *)
(* from any more.                                                                *)
NeverStuck ==
  /\ invocation = "invoking" ~> invocation \in {"idle", "broken"}
  /\ invocation = "draining" ~> invocation \in {"removed", "removeFailed"}

================================================================================
