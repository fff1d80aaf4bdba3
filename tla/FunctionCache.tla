----------------------------- MODULE FunctionCache -----------------------------
(******************************************************************************)
(* CachedFunctionReader (pkg/entities/function_cache.go) in front of the         *)
(* database client's GetFunction (pkg/couchdb/client.go): an LRU cache of        *)
(* entries that are fetched once, by whoever calls them first, while everybody   *)
(* else who found the entry waits for the same result. The cache's own           *)
(* operations are atomic (the library locks itself); looking up and adding are   *)
(* not atomic together, which is what mux is for. Removing a failed entry does   *)
(* not take mux.                                                                 *)
(******************************************************************************)
EXTENDS Integers, FiniteSets, Sequences, Functions

CONSTANTS
  Callers,     \* invocations that read functions, each for one function at a time
  Names,       \* fully qualified names
  Revisions,   \* revisions of a function
  Attached,    \* functions (keys) whose code is an attachment of its own
  Size,        \* the number of entries the LRU cache holds
  Entries,     \* identities of entries; those nobody refers to any more are reused
  None

Keys == [name : Names, revision : Revisions]

ASSUME CacheAssumption ==
  /\ Size \in Nat \ {0} /\ Attached \subseteq Keys /\ None \notin Callers \cup Keys \cup Entries
  /\ IsFiniteSet(Entries) /\ IsFiniteSet(Callers) /\ Cardinality(Entries) >= Cardinality(Callers) + Size

VARIABLES
  cache,    \* the entries in the LRU cache, the longest unused first
  keyOf,    \* the function an entry was made for
  once,     \* how far the sync.OnceValues of an entry is, or its result
  mux,      \* the caller that holds the mutex, or None
  pc,       \* where a caller is in GetFunction
  want,     \* the function a caller asks for
  entry     \* the entry a caller is attached to

vars == <<cache, keyOf, once, mux, pc, want, entry>>

Results == {"found", "failed"}

\* Types; the cache holds at most Size entries, and the holder of the mutex is the caller that adds.
TypeOK ==
  /\ cache \in Seq(Entries) /\ Len(cache) <= Size
  /\ keyOf \in [Entries -> Keys \cup {None}]
  /\ once \in [Entries -> {"fresh", "document", "attachment", "failing"} \cup Results]
  /\ mux \in Callers \cup {None} /\ \A p \in Callers : mux = p <=> pc[p] = "add"
  /\ pc \in [Callers -> {"idle", "lock", "add", "call", "fetch"}]
  /\ want \in [Callers -> Keys \cup {None}]
  /\ entry \in [Callers -> Entries \cup {None}]

Init ==
  /\ cache = <<>> /\ mux = None
  /\ keyOf = [e \in Entries |-> None] /\ once = [e \in Entries |-> "fresh"]
  /\ pc = [p \in Callers |-> "idle"]
  /\ want = [p \in Callers |-> None] /\ entry = [p \in Callers |-> None]

Move(p, from, to) == pc[p] = from /\ pc' = [pc EXCEPT ![p] = to]

--------------------------------------------------------------------------------
(* The LRU library.                                                             *)

\* The places of the entries under a key, which is a name and a revision, and those entries.
Places(k) == {i \in DOMAIN cache : keyOf[cache[i]] = k}
Cached(k) == {cache[i] : i \in Places(k)}

Without(i) == SubSeq(cache, 1, i - 1) \o SubSeq(cache, i + 1, Len(cache))

\* lru.Cache.Add of a key that is not cached: the longest unused entry gives way when it is full.
Added(e) == IF Len(cache) = Size THEN Append(Tail(cache), e) ELSE Append(cache, e)

\* lru.Cache.Get, which finds the entry and makes it the most recently used.
Found(p, k) ==
  \E i \in Places(k) : cache' = Append(Without(i), cache[i]) /\ entry' = [entry EXCEPT ![p] = cache[i]]

\* What a failed fetch leaves: lru.Cache.Remove works by key, not by entry.
Dropped(k) ==
  \/ Places(k) = {} /\ UNCHANGED cache
  \/ \E i \in Places(k) : cache' = Without(i)

--------------------------------------------------------------------------------
(* GetFunction of the cache.                                                    *)

\* The first look, without the mutex.
GetFunction(p, k) ==
  /\ want' = [want EXCEPT ![p] = k]
  /\ \/ Move(p, "idle", "call") /\ Found(p, k)
     \/ Move(p, "idle", "lock") /\ Cached(k) = {} /\ UNCHANGED <<cache, entry>>
  /\ UNCHANGED <<keyOf, once, mux>>

\* Mutation: no second look under the mutex.
LockUnchecked(p) ==
  /\ mux = None /\ Move(p, "lock", "add") /\ mux' = p
  /\ UNCHANGED <<cache, entry, keyOf, once, want>>
\* Lock and look again. On a hit the mutex is released at once.
Lock(p) ==
  /\ mux = None
  /\ \/ Move(p, "lock", "call") /\ Found(p, want[p]) /\ UNCHANGED mux
     \/ Move(p, "lock", "add") /\ Cached(want[p]) = {} /\ mux' = p /\ UNCHANGED <<cache, entry>>
  /\ UNCHANGED <<keyOf, once, want>>

\* A new entry: an identity that nobody refers to.
NewEntry == CHOOSE e \in Entries : e \notin Range(cache) \cup Range(entry)

\* Add the new entry, then unlock.
Add(p) ==
  /\ Move(p, "add", "call") /\ mux = p /\ mux' = None
  /\ LET e == NewEntry IN
       /\ cache' = Added(e) /\ entry' = [entry EXCEPT ![p] = e]
       /\ keyOf' = [keyOf EXCEPT ![e] = want[p]] /\ once' = [once EXCEPT ![e] = "fresh"]
  /\ UNCHANGED want

\* entry(): whoever calls first runs the function, the others block until there is a result.
Call(p) ==
  /\ Move(p, "call", "fetch") /\ once[entry[p]] = "fresh"
  /\ once' = [once EXCEPT ![entry[p]] = "document"]
  /\ UNCHANGED <<cache, keyOf, mux, want, entry>>

\* The state of the entry that p runs.
Runs(p, step) == pc[p] = "fetch" /\ once[entry[p]] = step
Becomes(p, step) == once' = [once EXCEPT ![entry[p]] = step]

\* getRequest: a body, or a failure (a 404, another status, no answer after all retries).
getRequest(p, next) == Becomes(p, "failing") \/ Becomes(p, next)

\* The document, which may also fail to parse; inlined code is complete with it.
GetDocument(p) ==
  /\ Runs(p, "document")
  /\ getRequest(p, IF keyOf[entry[p]] \in Attached THEN "attachment" ELSE "found")
  /\ UNCHANGED <<cache, keyOf, mux, pc, want, entry>>

\* The attachment, at the same revision.
GetAttachment(p) ==
  /\ Runs(p, "attachment") /\ getRequest(p, "found")
  /\ UNCHANGED <<cache, keyOf, mux, pc, want, entry>>

\* Mutation: the failed entry stays.
KeepFailed(p) ==
  /\ Runs(p, "failing") /\ Becomes(p, "failed")
  /\ UNCHANGED <<cache, keyOf, mux, pc, want, entry>>
\* A failed fetch removes what is cached under its key, and only then has a result for those who wait.
RemoveFailed(p) ==
  /\ Runs(p, "failing") /\ Becomes(p, "failed")
  /\ Dropped(keyOf[entry[p]])
  /\ UNCHANGED <<keyOf, mux, pc, want, entry>>

\* What a caller leaves behind: its reference to the entry.
Leave(p) ==
  /\ pc' = [pc EXCEPT ![p] = "idle"]
  /\ want' = [want EXCEPT ![p] = None] /\ entry' = [entry EXCEPT ![p] = None]
  /\ UNCHANGED <<cache, keyOf, once, mux>>

\* Mutation: those who wait are not told of a failure.
ReturnFoundOnly(p) ==
  \/ pc[p] = "fetch" /\ once[entry[p]] \in Results /\ Leave(p)
  \/ pc[p] = "call" /\ once[entry[p]] = "found" /\ Leave(p)
\* The caller that fetched and those that waited go on with the result.
Return(p) == pc[p] \in {"call", "fetch"} /\ once[entry[p]] \in Results /\ Leave(p)

Step(p) ==
  Lock(p) \/ Add(p) \/ Call(p) \/ GetDocument(p) \/ GetAttachment(p) \/ RemoveFailed(p) \/ Return(p)

Next == \E p \in Callers : Step(p) \/ \E k \in Keys : GetFunction(p, k)

Spec == Init /\ [][Next]_vars

--------------------------------------------------------------------------------
(* Properties.                                                                  *)

\* "Check again under a lock to avoid races due to a missing atomic GetOrAdd": when a caller adds an entry
\* the function has none, so that nobody replaces an entry of the cache, the result or the fetch in it
\* included (pkg/entities/function_cache.go:52-62).  A function whose entry was evicted is fetched again,
\* even while its first fetch is under way.
SingleFlight == TypeOK /\ \A p \in Callers : pc[p] = "add" => Cached(want[p]) = {}

\* Errors are not cached: a caller that starts after a fetch has failed never meets that result, although
\* the failed entry may have been evicted, replaced under its key, or removed for another's failure before.
NoFailureCached == \A e \in Range(cache) : once[e] # "failed"

\* Every read returns: the caller that fetches, those that wait for it and those that wait for the mutex.
GetReturns == \A p \in Callers : pc[p] # "idle" ~> pc[p] = "idle"
================================================================================
