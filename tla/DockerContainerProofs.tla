------------------------- MODULE DockerContainerProofs -------------------------
(******************************************************************************)
(* The safety invariants of DockerContainer hold for any number of containers  *)
(* and retries.  Containers share only usableIPs, so that the inductive        *)
(* invariant is a conjunction of facts about one container; the arguments that *)
(* matter are what the goroutine of PauseEventually is allowed to do in each   *)
(* phase of its owner, and what docker knows in each of them.                  *)
(******************************************************************************)
EXTENDS DockerContainer, TLAPS

\* The docker daemon has no container until ContainerCreate and none while the IP is free.
Absent(c) == owner[c] \in {"none", "create"} => docker[c] = "absent"
\* Only the goroutine pauses, and it is not heard again once it has reported an error.
PausedOnlyBy(c) ==
  docker[c] = "paused" =>
    \/ pauser[c] \in {"paused", "failed", "answerPaused", "answerFailed"}
    \/ owner[c] \in {"unpausing", "cleanup", "leaked"}
\* The container exists between CreateContainer and Remove.
Present(c) ==
  owner[c] \in {"use", "pooled", "stopping", "waiting"} => docker[c] \in {"running", "paused", "exited"}
\* The goroutine lives from PauseEventually to the answer it owes.
Paired(c) ==
  /\ pauser[c] \in Answers <=> owner[c] = "waiting"
  /\ pauser[c] # "none" <=> owner[c] \in {"pooled", "stopping", "waiting"}
\* The IP is free exactly while the container has no owner.
Free(c) == c \in usableIPs <=> owner[c] = "none"

\* The invariant of one container ...
Sound(c) == Absent(c) /\ PausedOnlyBy(c) /\ Present(c) /\ Paired(c) /\ Free(c)
\* ... and the inductive invariant of the module.
IInv == TypeOK /\ \A c \in IPs : Sound(c)

(* The initial state: nothing is created and every IP is free.                  *)
LEMMA InitIInv == Init => IInv
  BY RetriesAssumption DEF Init, IInv, Sound, TypeOK, Absent, PausedOnlyBy, Present, Paired, Free, Answers

(* A step of one container keeps the types of all.  The retries stay within     *)
(* pauseUnpauseRetries because both loops check before they count.              *)
LEMMA TypeStep == TypeOK /\ [Next]_vars => TypeOK'
<1> SUFFICES ASSUME TypeOK, [Next]_vars PROVE TypeOK'
  OBVIOUS
<1> USE RetriesAssumption DEF TypeOK, Goto, Docker, Answers
<1>1. CASE UNCHANGED vars
  BY <1>1 DEF vars
<1>2. ASSUME NEW c \in IPs, CreateContainer(c) \/ Exit(c) \/ Remove(c) PROVE TypeOK'
  BY <1>2 DEF CreateContainer, AcquireIP, ContainerCreate, ContainerAttach, ContainerStart, Poll,
              Exit, Remove
<1>3. ASSUME NEW c \in IPs, PauseEventually(c) \/ Pausing(c) PROVE TypeOK'
  BY <1>3 DEF PauseEventually, Pausing, GraceOver, ContainerPause, RetriesLeft
<1>4. ASSUME NEW c \in IPs, UnpauseIfNeeded(c) \/ Unpausing(c) PROVE TypeOK'
  BY <1>4 DEF UnpauseIfNeeded, Unpausing, Stop, Answer, Respond, ContainerUnpause, RetriesLeft
<1> QED
  BY <1>1, <1>2, <1>3, <1>4 DEF Next

(* A step of a container leaves the state of every other one as it is.          *)
LEMMA Local ==
  ASSUME TypeOK, NEW c \in IPs, NEW d \in IPs, c # d,
         \/ CreateContainer(c) \/ Exit(c) \/ PauseEventually(c) \/ Pausing(c)
         \/ UnpauseIfNeeded(c) \/ Unpausing(c) \/ Remove(c)
  PROVE  /\ owner'[d] = owner[d] /\ docker'[d] = docker[d] /\ pauser'[d] = pauser[d]
         /\ d \in usableIPs' <=> d \in usableIPs
<1> USE DEF TypeOK, Goto, Docker
<1>1. CASE CreateContainer(c) \/ Exit(c) \/ Remove(c)
  BY <1>1 DEF CreateContainer, AcquireIP, ContainerCreate, ContainerAttach, ContainerStart, Poll,
              Exit, Remove
<1>2. CASE PauseEventually(c) \/ Pausing(c)
  BY <1>2 DEF PauseEventually, Pausing, GraceOver, ContainerPause
<1>3. CASE UnpauseIfNeeded(c) \/ Unpausing(c)
  BY <1>3 DEF UnpauseIfNeeded, Unpausing, Stop, Respond, ContainerUnpause
<1> QED
  BY <1>1, <1>2, <1>3

(* A step of the container itself keeps its invariant.                          *)
LEMMA OwnStep ==
  ASSUME TypeOK, NEW c \in IPs, Sound(c),
         \/ CreateContainer(c) \/ Exit(c) \/ PauseEventually(c) \/ Pausing(c)
         \/ UnpauseIfNeeded(c) \/ Unpausing(c) \/ Remove(c)
  PROVE  Sound(c)'
<1> USE DEF TypeOK, Goto, Docker, Answers, Sound, Absent, PausedOnlyBy, Present, Paired, Free
<1>1. CASE AcquireIP(c)
  BY <1>1 DEF AcquireIP
<1>2. CASE ContainerCreate(c)
  BY <1>2 DEF ContainerCreate
<1>3. CASE ContainerAttach(c)
  BY <1>3 DEF ContainerAttach
<1>4. CASE ContainerStart(c)
  BY <1>4 DEF ContainerStart
<1>5. CASE Poll(c)
  BY <1>5 DEF Poll
<1>6. CASE Exit(c)
  BY <1>6 DEF Exit
<1>7. CASE PauseEventually(c)
  BY <1>7 DEF PauseEventually
<1>8. CASE GraceOver(c)
  BY <1>8 DEF GraceOver
<1>9. CASE ContainerPause(c)
  BY <1>9 DEF ContainerPause, RetriesLeft
<1>10. CASE UnpauseIfNeeded(c)
  BY <1>10 DEF UnpauseIfNeeded
<1>11. CASE Stop(c)
  BY <1>11 DEF Stop, Answer
<1>12. CASE Respond(c)
  BY <1>12 DEF Respond
<1>13. CASE ContainerUnpause(c)
  BY <1>13 DEF ContainerUnpause, RetriesLeft
<1>14. CASE Remove(c)
  BY <1>14 DEF Remove
<1> QED
  BY <1>1, <1>2, <1>3, <1>4, <1>5, <1>6, <1>7, <1>8, <1>9, <1>10, <1>11, <1>12, <1>13, <1>14
     DEF CreateContainer, Pausing, Unpausing

(* The invariant of every container is kept by every step.                      *)
LEMMA StepIInv == IInv /\ [Next]_vars => IInv'
<1> SUFFICES ASSUME IInv, [Next]_vars PROVE IInv'
  OBVIOUS
<1>1. TypeOK'
  BY TypeStep DEF IInv
<1>2. ASSUME NEW d \in IPs PROVE Sound(d)'
  <2>1. Sound(d) /\ TypeOK
    BY DEF IInv
  <2>2. CASE UNCHANGED vars
    BY <2>1, <2>2 DEF vars, Sound, Absent, PausedOnlyBy, Present, Paired, Free
  <2>3. CASE Next
    <3>1. PICK c \in IPs : \/ CreateContainer(c) \/ Exit(c) \/ PauseEventually(c) \/ Pausing(c)
                          \/ UnpauseIfNeeded(c) \/ Unpausing(c) \/ Remove(c)
      BY <2>3 DEF Next
    <3>2. CASE c = d
      BY <2>1, <3>1, <3>2, OwnStep
    <3>3. CASE c # d
      <4>1. /\ owner'[d] = owner[d] /\ docker'[d] = docker[d] /\ pauser'[d] = pauser[d]
            /\ d \in usableIPs' <=> d \in usableIPs
        BY <2>1, <3>1, <3>3, Local
      <4> QED
        BY <2>1, <4>1 DEF Sound, Absent, PausedOnlyBy, Present, Paired, Free
    <3> QED
      BY <3>2, <3>3
  <2> QED
    BY <2>2, <2>3
<1> QED
  BY <1>1, <1>2 DEF IInv

(* The inductive invariant holds in every reachable state.                      *)
THEOREM Invariance == Spec => []IInv
<1> QED
  BY InitIInv, StepIInv, PTL DEF Spec

(* The state of every container is one the code distinguishes, and Pause and    *)
(* Unpause give up after pauseUnpauseRetries.                                   *)
THEOREM TypeCorrect == Spec => []TypeOK
<1>1. IInv => TypeOK
  BY DEF IInv
<1> QED
  BY <1>1, Invariance, PTL

(* A container in use is not paused and will not be: UnpauseIfNeeded undoes or  *)
(* prevents the pause it races with, for every order of the timer and the call. *)
THEOREM NeverPausedInUse == Spec => []NotPausedInUse
<1>1. IInv => NotPausedInUse
  BY DEF IInv, Sound, NotPausedInUse, TypeOK, PausedOnlyBy, Present, Paired, Answers
<1> QED
  BY <1>1, Invariance, PTL

(* Every answer on pauseResponses finds the UnpauseIfNeeded it belongs to.      *)
THEOREM HandshakeSound == Spec => []HandshakePaired
<1>1. IInv => HandshakePaired
  BY DEF IInv, Sound, HandshakePaired, Paired
<1> QED
  BY <1>1, Invariance, PTL

(* An IP is handed out only after docker has removed the container it belonged  *)
(* to, whichever step of CreateContainer, Pause, Unpause or Remove failed.      *)
THEOREM IPExclusive == Spec => []IPNotReused
<1>1. IInv => IPNotReused
  BY DEF IInv, Sound, IPNotReused, Absent, Free
<1> QED
  BY <1>1, Invariance, PTL

================================================================================
