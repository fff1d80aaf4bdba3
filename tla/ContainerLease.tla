---------------------------- MODULE ContainerLease ----------------------------
(******************************************************************************)
(* What the container pool promises an invocation (the comments of Get, Put and *)
(* PutToDestroy in pkg/exec/pool.go and of Container.Initialize): a container   *)
(* of its own for as long as it runs, either new or loaded with the code of its *)
(* very function and revision, while all containers lent out together stay      *)
(* within the memory of the invoker.  Where containers come from, are kept and  *)
(* go to is left open.                                                          *)
(******************************************************************************)
EXTENDS Integers, FiniteSets, Functions

CONSTANTS Callers, Keys, Containers, NoKey, NoCtr, MemoryOf(_), MaxMemory

VARIABLES
  function,   \* the function a caller has a container for, or NoKey
  lent,       \* the container it has, or NoCtr
  running,    \* the callers whose container is ready to run their function
  code        \* the function whose code a container has loaded, or NoKey

vars == <<function, lent, running, code>>

Init ==
  /\ function = [p \in Callers |-> NoKey] /\ lent = [p \in Callers |-> NoCtr]
  /\ running = {} /\ code = [c \in Containers |-> NoKey]

\* The memory of what is lent, a unit at a time.
InUse(f) == {u \in Callers \X (1..MaxMemory) : f[u[1]] # NoKey /\ u[2] <= MemoryOf(f[u[1]])}

\* Get: nobody else has the container, and its code is the caller's or none yet.
Lend(p) ==
  /\ lent[p] = NoCtr /\ lent' # lent
  /\ \E k \in Keys, c \in Containers \ Range(lent) :
       /\ lent' = [lent EXCEPT ![p] = c] /\ function' = [function EXCEPT ![p] = k]
       /\ \/ code[c] = k /\ running' = running \cup {p}
          \/ code[c] = NoKey /\ UNCHANGED running
  /\ Cardinality(InUse(function')) <= MaxMemory
  /\ UNCHANGED code

\* "Initialize initializes the container. Called only once."
Load(p) ==
  /\ lent[p] # NoCtr /\ code[lent[p]] = NoKey
  /\ code' = [code EXCEPT ![lent[p]] = function[p]] /\ running' = running \cup {p}
  /\ UNCHANGED <<function, lent>>

Back(p) ==
  /\ lent[p] # NoCtr /\ running' = running \ {p}
  /\ lent' = [lent EXCEPT ![p] = NoCtr] /\ function' = [function EXCEPT ![p] = NoKey]
\* Put of a container that ran its function ...
Return(p) == Back(p) /\ p \in running /\ UNCHANGED code
\* ... or PutToDestroy, after which the container is no more.
Destroy(p) == Back(p) /\ code' = [code EXCEPT ![lent[p]] = NoKey]

\* The pool removes a container that nobody has.
Discard(c) ==
  /\ code[c] # NoKey /\ c \notin Range(lent)
  /\ code' = [code EXCEPT ![c] = NoKey]
  /\ UNCHANGED <<function, lent, running>>

Next ==
  \/ \E p \in Callers : Lend(p) \/ Load(p) \/ Return(p) \/ Destroy(p)
  \/ \E c \in Containers : Discard(c)

Spec == Init /\ [][Next]_vars

================================================================================
