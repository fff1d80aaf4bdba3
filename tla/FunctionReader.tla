----------------------------- MODULE FunctionReader -----------------------------
(******************************************************************************)
(* The function cache on top of the database client: what NewCachedFunctionReader *)
(* is given in cmd/invoker/main.go.  The one or two GET requests of a fetch are    *)
(* requests of the client, with its retries, its deadline and its HTTP client.     *)
(******************************************************************************)
EXTENDS FunctionCache

CONSTANTS MaxExpired   \* bound: HTTP clients that get too old
VARIABLES client, old, at

Couch == INSTANCE CouchClient
clientVars == <<client, old, at>>
readerVars == <<cache, keyOf, once, mux, pc, want, entry, client, old, at>>

ReaderInit == Init /\ Couch!Init

\* A caller whose fetch needs a document or an attachment asks the client for it ...
Ask(p) ==
  /\ pc[p] = "fetch" /\ once[entry[p]] \in {"document", "attachment"}
  /\ Couch!Request(p)
  /\ UNCHANGED vars
\* ... and goes on with what the request brought.  An answer may still be a 404, another status, or
\* something that cannot be parsed.
Answered(p) ==
  /\ GetDocument(p) \/ GetAttachment(p)
  /\ at[p] = "error" => once'[entry[p]] = "failing"
  /\ Couch!Consume(p)

Local(p) == Lock(p) \/ Add(p) \/ Call(p) \/ RemoveFailed(p) \/ Return(p)

ReaderNext ==
  \/ \E p \in Callers :
       \/ (Local(p) \/ \E k \in Keys : GetFunction(p, k)) /\ UNCHANGED clientVars
       \/ Ask(p) \/ Answered(p)
       \/ (Couch!Step(p) \/ Couch!Deadline(p)) /\ UNCHANGED vars
  \/ Couch!Expire /\ UNCHANGED vars

ReaderSpec == ReaderInit /\ [][ReaderNext]_readerVars

\* Goroutines run, an attempt ends at the latest with its context, a request that goes on retrying meets its
\* deadline, and the mutex is handed to a waiter that starves.  That a fetch ends is not assumed.
LiveReaderSpec ==
  /\ ReaderSpec
  /\ \A p \in Callers :
       /\ WF_readerVars((Add(p) \/ Call(p) \/ RemoveFailed(p) \/ Return(p)) /\ UNCHANGED clientVars)
       /\ SF_readerVars(Lock(p) /\ UNCHANGED clientVars)
       /\ WF_readerVars(Ask(p) \/ Answered(p) \/ (Couch!Step(p) /\ UNCHANGED vars))
       /\ SF_readerVars(Couch!Deadline(p) /\ UNCHANGED vars)

--------------------------------------------------------------------------------
\* The HTTP client is replaced once in a lifetime (see CouchClient), also by callers that fetch at once.
RenewedOnlyWhenOld == Couch!RenewedOnlyWhenOld

================================================================================
