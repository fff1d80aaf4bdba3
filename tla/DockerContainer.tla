---------------------------- MODULE DockerContainer ----------------------------
(******************************************************************************)
(* One docker container per IP (pkg/exec/docker/container.go): CreateContainer  *)
(* step by step, the handshake between PauseEventually's goroutine and          *)
(* UnpauseIfNeeded over the unbuffered channels pauseStops and pauseResponses,   *)
(* the retries of Pause and Unpause, and Remove.  The owner of the container    *)
(* (ContainerPool) is sequential; the goroutine, the docker daemon and the user *)
(* code inside the container are not.                                           *)
(******************************************************************************)
EXTENDS Naturals

CONSTANTS
  IPs,            \* UsableIPs at startup
  PauseRetries    \* pauseUnpauseRetries

ASSUME RetriesAssumption == PauseRetries \in Nat

VARIABLES
  usableIPs,
  owner,    \* where the owner of the container with this IP is
  docker,   \* what the docker daemon knows of it
  pauser,   \* where the goroutine of PauseEventually is
  tries     \* retries of the Pause or Unpause under way

vars == <<usableIPs, owner, docker, pauser, tries>>

\* "grace" to "failed" wait for pauseStops; the answers wait for pauseResponses.
Answers == {"answerAborted", "answerPaused", "answerFailed"}

TypeOK ==
  /\ usableIPs \subseteq IPs
  /\ owner \in [IPs -> {"none", "create", "attach", "start", "poll", "use", "pooled", "stopping",
                        "waiting", "unpausing", "cleanup", "leaked"}]
  /\ docker \in [IPs -> {"absent", "created", "running", "paused", "exited"}]
  /\ pauser \in [IPs -> {"none", "grace", "pausing", "paused", "failed"} \cup Answers]
  /\ tries \in [IPs -> 0..PauseRetries]

Init ==
  /\ usableIPs = IPs
  /\ owner = [c \in IPs |-> "none"]
  /\ docker = [c \in IPs |-> "absent"]
  /\ pauser = [c \in IPs |-> "none"]
  /\ tries = [c \in IPs |-> 0]

Goto(c, l) == owner' = [owner EXCEPT ![c] = l]
Docker(c, s) == docker' = [docker EXCEPT ![c] = s]

--------------------------------------------------------------------------------
(* CreateContainer.                                                           *)

AcquireIP(c) ==
  /\ owner[c] = "none" /\ c \in usableIPs
  /\ usableIPs' = usableIPs \ {c}
  /\ Goto(c, "create")
  /\ UNCHANGED <<docker, pauser, tries>>

\* A create that fails leaves at most a container that was never started, which
\* occupies no address: the IP is free again.
ContainerCreate(c) ==
  /\ owner[c] = "create"
  /\ \/ Docker(c, "created") /\ Goto(c, "attach") /\ UNCHANGED usableIPs
     \/ usableIPs' = usableIPs \cup {c} /\ Goto(c, "none") /\ UNCHANGED docker
  /\ UNCHANGED <<pauser, tries>>

ContainerAttach(c) ==
  /\ owner[c] = "attach"
  /\ Goto(c, "start") \/ Goto(c, "cleanup")
  /\ UNCHANGED <<usableIPs, docker, pauser, tries>>

\* A start that fails, or times out, may still have started the container.
ContainerStart(c) ==
  /\ owner[c] = "start"
  /\ \/ Docker(c, "running") /\ Goto(c, "poll")
     \/ (Docker(c, "running") \/ UNCHANGED docker) /\ Goto(c, "cleanup")
  /\ UNCHANGED <<usableIPs, pauser, tries>>

\* pollUntilResponding: an answer from a running container, or the deadline.
Poll(c) ==
  /\ owner[c] = "poll"
  /\ \/ docker[c] = "running" /\ Goto(c, "use")
     \/ Goto(c, "cleanup")
  /\ UNCHANGED <<usableIPs, docker, pauser, tries>>

\* The user's process exits or is killed for its memory.
Exit(c) ==
  /\ docker[c] = "running"
  /\ Docker(c, "exited")
  /\ UNCHANGED <<usableIPs, owner, pauser, tries>>

--------------------------------------------------------------------------------
(* PauseEventually and its goroutine.                                         *)

PauseEventually(c) ==
  /\ owner[c] = "use"
  /\ pauser' = [pauser EXCEPT ![c] = "grace"]
  /\ Goto(c, "pooled")
  /\ UNCHANGED <<usableIPs, docker, tries>>

\* The timer wins the select, also against a stop that has just been offered.
GraceOver(c) ==
  /\ pauser[c] = "grace"
  /\ pauser' = [pauser EXCEPT ![c] = "pausing"]
  /\ tries' = [tries EXCEPT ![c] = 0]
  /\ UNCHANGED <<usableIPs, owner, docker>>

\* Docker may still be asked again.
RetriesLeft(c) == tries[c] < PauseRetries

\* Mutation: the goroutine answers without having been stopped.
PauseUnread(c) ==
  /\ pauser[c] = "pausing"
  /\ docker[c] = "running" /\ Docker(c, "paused")
  /\ pauser' = [pauser EXCEPT ![c] = "answerPaused"]
  /\ UNCHANGED <<usableIPs, owner, tries>>
\* One ContainerPause call of Pause: done, "is already paused" and tried again, or
\* an error, possibly of a call that took effect.
ContainerPause(c) ==
  /\ pauser[c] = "pausing"
  /\ \/ /\ docker[c] = "running" /\ Docker(c, "paused")
        /\ pauser' = [pauser EXCEPT ![c] = "paused"]
        /\ UNCHANGED tries
     \/ /\ RetriesLeft(c)
        /\ tries' = [tries EXCEPT ![c] = @ + 1]
        /\ UNCHANGED <<docker, pauser>>
     \/ /\ UNCHANGED docker \/ (docker[c] = "running" /\ Docker(c, "paused"))
        /\ pauser' = [pauser EXCEPT ![c] = "failed"]
        /\ UNCHANGED tries
  /\ UNCHANGED <<usableIPs, owner>>

--------------------------------------------------------------------------------
(* UnpauseIfNeeded.                                                           *)

UnpauseIfNeeded(c) ==
  /\ owner[c] = "pooled"
  /\ Goto(c, "stopping")
  /\ UNCHANGED <<usableIPs, docker, pauser, tries>>

\* Mutation: the error of the pause is not reported.
AnswerHidingError(s) == IF s = "paused" THEN "answerPaused" ELSE "answerAborted"
\* The pauseResponse the goroutine sends for the state it was stopped in.
Answer(s) == CASE s = "grace"  -> "answerAborted"
               [] s = "paused" -> "answerPaused"
               [] s = "failed" -> "answerFailed"

\* Mutation: once the timer has fired the goroutine does not read pauseStops.
StopOnlyInGrace(c) ==
  /\ owner[c] = "stopping" /\ pauser[c] = "grace"
  /\ pauser' = [pauser EXCEPT ![c] = "answerAborted"]
  /\ Goto(c, "waiting")
  /\ UNCHANGED <<usableIPs, docker, tries>>
\* The rendezvous on pauseStops: the goroutine receives in its select or after Pause.
Stop(c) ==
  /\ owner[c] = "stopping" /\ pauser[c] \in {"grace", "paused", "failed"}
  /\ pauser' = [pauser EXCEPT ![c] = Answer(@)]
  /\ Goto(c, "waiting")
  /\ UNCHANGED <<usableIPs, docker, tries>>

\* The rendezvous on pauseResponses, with which the goroutine ends.
Respond(c) ==
  /\ owner[c] = "waiting" /\ pauser[c] \in Answers
  /\ Goto(c, CASE pauser[c] = "answerAborted" -> "use"
               [] pauser[c] = "answerPaused"  -> "unpausing"
               [] pauser[c] = "answerFailed"  -> "cleanup")
  /\ pauser' = [pauser EXCEPT ![c] = "none"]
  /\ tries' = [tries EXCEPT ![c] = 0]
  /\ UNCHANGED <<usableIPs, docker>>

\* One ContainerUnpause call of Unpause, as in ContainerPause ("not paused").
ContainerUnpause(c) ==
  /\ owner[c] = "unpausing"
  /\ \/ docker[c] = "paused" /\ Docker(c, "running") /\ Goto(c, "use") /\ UNCHANGED tries
     \/ /\ RetriesLeft(c)
        /\ tries' = [tries EXCEPT ![c] = @ + 1]
        /\ UNCHANGED <<docker, owner>>
     \/ /\ UNCHANGED docker \/ (docker[c] = "paused" /\ Docker(c, "running"))
        /\ Goto(c, "cleanup")
        /\ UNCHANGED tries
  /\ UNCHANGED <<usableIPs, pauser>>

--------------------------------------------------------------------------------
\* Mutation: the IP is freed before docker has confirmed the removal.
RemoveFreesEarly(c) ==
  /\ owner[c] \in {"use", "cleanup"}
  /\ usableIPs' = usableIPs \cup {c}
  /\ Docker(c, "absent") \/ UNCHANGED docker
  /\ Goto(c, "none")
  /\ UNCHANGED <<pauser, tries>>
\* Remove, of a container in use (PutToDestroy) or one that failed.  The IP is freed
\* once docker has removed the container; a failure blocks it for good.
Remove(c) ==
  /\ owner[c] \in {"use", "cleanup"}
  /\ \/ Docker(c, "absent") /\ usableIPs' = usableIPs \cup {c} /\ Goto(c, "none")
     \/ (Docker(c, "absent") \/ UNCHANGED docker) /\ Goto(c, "leaked") /\ UNCHANGED usableIPs
  /\ UNCHANGED <<pauser, tries>>

CreateContainer(c) == AcquireIP(c) \/ ContainerCreate(c) \/ ContainerAttach(c) \/ ContainerStart(c) \/ Poll(c)
Unpausing(c)       == Stop(c) \/ Respond(c) \/ ContainerUnpause(c)
Pausing(c)         == GraceOver(c) \/ ContainerPause(c)

Next == \E c \in IPs :
          \/ CreateContainer(c) \/ Exit(c) \/ PauseEventually(c) \/ Pausing(c)
          \/ UnpauseIfNeeded(c) \/ Unpausing(c) \/ Remove(c)

Spec == Init /\ [][Next]_vars

\* Every docker call is bounded by lifecycleHangTimeout and its retries are counted.
Fairness == \A c \in IPs : WF_vars(Pausing(c)) /\ WF_vars(Unpausing(c))

--------------------------------------------------------------------------------
(* A container is never paused, and no goroutine is left that could pause it,    *)
(* while an invocation uses it: an UnpauseIfNeeded that returned without error   *)
(* has undone or prevented the pause it raced with.                              *)
NotPausedInUse ==
  \A c \in IPs : owner[c] = "use" => docker[c] \in {"running", "exited"} /\ pauser[c] = "none"

(* "Guarantees reusability of the channel": both ends of the handshake are used  *)
(* in pairs, so that an answer always finds the call it belongs to.              *)
HandshakePaired ==
  \A c \in IPs : /\ pauser[c] \in Answers <=> owner[c] = "waiting"
                 /\ pauser[c] # "none" <=> owner[c] \in {"pooled", "stopping", "waiting"}

(* "Once the container was successfully deleted, we can free its IP": while      *)
(* docker still has a container its IP is not handed out again.                  *)
IPNotReused ==
  \A c \in IPs : docker[c] # "absent" \/ owner[c] = "leaked" => c \notin usableIPs

(* UnpauseIfNeeded returns, whenever it is called relative to the grace period.  *)
UnpauseReturns == \A c \in IPs : owner[c] = "stopping" ~> owner[c] \in {"use", "cleanup"}

================================================================================
