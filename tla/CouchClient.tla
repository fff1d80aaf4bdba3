------------------------------- MODULE CouchClient -------------------------------
(******************************************************************************)
(* The requests of the CouchDB client (pkg/couchdb/client.go): request retries   *)
(* singleRequest until an answer or the deadline comes, and getClient replaces   *)
(* the HTTP client once it is older than maxConnectionLifetime, after a check    *)
(* under the read lock and a second one under the write lock.  Both sections     *)
(* are one step each.  A deadline is only looked at by the head of the loop and  *)
(* by the attempt in flight, so that it is the choice of those two.              *)
(******************************************************************************)
EXTENDS Integers

CONSTANTS
  Callers,      \* goroutines that make requests
  MaxExpired    \* bound: HTTP clients that get too old

VARIABLES
  client,       \* the HTTP client in use, numbered from 1; 0 is nil
  old,          \* its age has reached maxConnectionLifetime
  at            \* where a caller is in request, or its result

vars == <<client, old, at>>

Results == {"response", "error"}

Init == client = 0 /\ old = FALSE /\ at = [p \in Callers |-> "off"]

Move(p, from, to) == at[p] = from /\ at' = [at EXCEPT ![p] = to]

\* request is called, with a context of its own deadline.
Request(p) == Move(p, "off", "loop") /\ UNCHANGED <<client, old>>

\* Time passes for the HTTP client.
Expire ==
  /\ client # 0 /\ ~old /\ client <= MaxExpired
  /\ old' = TRUE
  /\ UNCHANGED <<client, at>>

\* Mutation: the loop does not look at its context.
NoDeadline(p) == Move(p, "loop", "loop") /\ UNCHANGED <<client, old>>
\* The head of the loop, maxRetryDuration after the start.
Deadline(p) == Move(p, "loop", "error") /\ UNCHANGED <<client, old>>

TooOld == client = 0 \/ old

\* The head of the loop before that, and getClient under the read lock ...
ReadClient(p) ==
  /\ IF TooOld THEN Move(p, "loop", "renew") ELSE Move(p, "loop", "do")
  /\ UNCHANGED <<client, old>>

\* Mutation: no second check.
RenewUnchecked(p) == Move(p, "renew", "do") /\ client' = client + 1 /\ old' = FALSE
\* ... and under the write lock, where it looks again.
Renew(p) ==
  /\ Move(p, "renew", "do")
  /\ IF TooOld THEN client' = client + 1 /\ old' = FALSE ELSE UNCHANGED <<client, old>>

\* Do: an answer, or back to the loop, at once after a timeout and otherwise after the back-off, which no
\* context cuts short.
Do(p) ==
  /\ Move(p, "do", "response") \/ Move(p, "do", "loop")
  /\ UNCHANGED <<client, old>>

\* The caller uses the result.
Consume(p) ==
  /\ at[p] \in Results
  /\ at' = [at EXCEPT ![p] = "off"]
  /\ UNCHANGED <<client, old>>

Step(p) == ReadClient(p) \/ Renew(p) \/ Do(p)

--------------------------------------------------------------------------------
(* "Doubly checked locking to avoid creating too many clients": an HTTP client    *)
(* is only replaced when it is too old, however many callers found it too old     *)
(* before, so that at most one is created in each lifetime.                       *)
RenewedOnlyWhenOld == [][client' # client => client' = client + 1 /\ (client = 0 \/ old)]_vars

================================================================================
