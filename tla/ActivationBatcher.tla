--------------------------- MODULE ActivationBatcher ---------------------------
(******************************************************************************)
(* The batching writer of activations (pkg/couchdb/batcher.go) on top of the   *)
(* retrying CouchDB client (pkg/couchdb/client.go): callers of WriteActivation, *)
(* the workers that collect batches, the goroutine that flushes all workers in  *)
(* turn on every tick, and Shutdown.  An activation is its document id; what    *)
(* matters of the document is its size.                                         *)
(******************************************************************************)
EXTENDS Integers, Sequences, FiniteSets, Functions

CONSTANTS
  Activations,   \* the activations that are ever written
  Size,          \* [Activations -> Nat], bytes of the marshalled activation
  Workers,       \* number of workers, and of slots in the activations channel
  FlushBytes,    \* flushBytes
  MaxAttempts    \* bound: failed requests of one WriteDocuments

W == 1..Workers
None == "none"
Stopped == -1

ASSUME BatcherAssumption ==
  /\ Size \in [Activations -> Nat] /\ IsFiniteSet(Activations) /\ None \notin Activations
  /\ Workers \in Nat \ {0} /\ FlushBytes \in Nat /\ MaxAttempts \in Nat

VARIABLES
  sending,      \* activations of callers inside WriteActivation
  channel,      \* the activations channel
  accepted,     \* history: activations the channel has taken
  step,         \* where each worker is
  taken,        \* the activation a worker has received and not yet batched
  mux,          \* worker.mux: "free", "worker" or "ticker"
  batch, batchSize,
  tick,         \* the flusher selects (0), is to flush worker w (w), has returned (-1)
  attempts,     \* failed requests of the flush under way
  db,           \* documents in CouchDB
  flushed,      \* history: activations whose batch was written or given up
  phase         \* "open", "closing" (both channels closed), "down"

vars == <<sending, channel, accepted, step, taken, mux, batch, batchSize, tick, attempts, db,
          flushed, phase>>

TypeOK ==
  /\ sending \subseteq Activations /\ accepted \subseteq Activations
  /\ channel \in Seq(Activations) /\ Len(channel) <= Workers
  /\ step \in [W -> {"range", "lock", "flush", "append", "lastLock", "lastFlush", "done"}]
  /\ taken \in [W -> Activations \cup {None}]
  /\ mux \in [W -> {"free", "worker", "ticker"}]
  /\ batch \in [W -> Seq(Activations)] /\ batchSize \in [W -> Nat]
  /\ tick \in Stopped..Workers
  /\ attempts \in [W -> 0..MaxAttempts]
  /\ db \subseteq Activations /\ flushed \subseteq Activations
  /\ phase \in {"open", "closing", "down"}

Init ==
  /\ sending = {} /\ channel = <<>> /\ accepted = {}
  /\ step = [w \in W |-> "range"] /\ taken = [w \in W |-> None]
  /\ mux = [w \in W |-> "free"]
  /\ batch = [w \in W |-> <<>>] /\ batchSize = [w \in W |-> 0]
  /\ tick = 0 /\ attempts = [w \in W |-> 0]
  /\ db = {} /\ flushed = {} /\ phase = "open"

--------------------------------------------------------------------------------
\* WriteActivation marshals the activation and blocks while the channel is full.
WriteActivation(a) ==
  /\ phase = "open" /\ a \notin sending \cup accepted
  /\ sending' = sending \cup {a}
  /\ UNCHANGED <<channel, accepted, step, taken, mux, batch, batchSize, tick, attempts, db,
                 flushed, phase>>

\* The channel has one slot per worker.
Accept(a) ==
  /\ a \in sending /\ Len(channel) < Workers
  /\ sending' = sending \ {a}
  /\ channel' = Append(channel, a)
  /\ accepted' = accepted \cup {a}
  /\ UNCHANGED <<step, taken, mux, batch, batchSize, tick, attempts, db, flushed, phase>>

--------------------------------------------------------------------------------
(* A worker.                                                                  *)

\* The range over the channel: the next activation, or the end once it is closed.
Receive(w) ==
  /\ step[w] = "range"
  /\ \/ /\ channel # <<>>
        /\ taken' = [taken EXCEPT ![w] = Head(channel)]
        /\ channel' = Tail(channel)
        /\ step' = [step EXCEPT ![w] = "lock"]
     \/ /\ channel = <<>> /\ phase = "closing"
        /\ step' = [step EXCEPT ![w] = "lastLock"]
        /\ UNCHANGED <<taken, channel>>
  /\ UNCHANGED <<sending, accepted, mux, batch, batchSize, tick, attempts, db, flushed, phase>>

\* The new activation would exceed the maximum size of a batch.
Full(w, a) == batchSize[w] + Size[a] > FlushBytes

Lock(w) ==
  /\ mux[w] = "free"
  /\ \/ /\ step[w] = "lock"
        /\ step' = [step EXCEPT ![w] = IF Full(w, taken[w]) THEN "flush" ELSE "append"]
     \/ /\ step[w] = "lastLock"
        /\ step' = [step EXCEPT ![w] = "lastFlush"]
  /\ mux' = [mux EXCEPT ![w] = "worker"]
  /\ UNCHANGED <<sending, channel, accepted, taken, batch, batchSize, tick, attempts, db, flushed,
                 phase>>

AppendToBatch(w) ==
  /\ step[w] = "append"
  /\ batch' = [batch EXCEPT ![w] = Append(@, taken[w])]
  /\ batchSize' = [batchSize EXCEPT ![w] = @ + Size[taken[w]]]
  /\ taken' = [taken EXCEPT ![w] = None]
  /\ mux' = [mux EXCEPT ![w] = "free"]
  /\ step' = [step EXCEPT ![w] = "range"]
  /\ UNCHANGED <<sending, channel, accepted, tick, attempts, db, flushed, phase>>

--------------------------------------------------------------------------------
(* flush, by the worker itself or by the flusher, under worker.mux.           *)

Flushing(w) == mux[w] = "ticker" \/ step[w] \in {"flush", "lastFlush"}

\* A request that fails is retried; the database may have executed it.
Retry(w) ==
  /\ Flushing(w) /\ batch[w] # <<>> /\ attempts[w] < MaxAttempts
  /\ attempts' = [attempts EXCEPT ![w] = @ + 1]
  /\ db' \in {db, db \cup Range(batch[w])}
  /\ UNCHANGED <<sending, channel, accepted, step, taken, mux, batch, batchSize, tick, flushed,
                 phase>>

\* Mutation: the batch stays after it was written.
EmptiedNot(w) == UNCHANGED <<batch, batchSize>>
\* The batch is reset whether or not it could be written.
Emptied(w) ==
  /\ batch' = [batch EXCEPT ![w] = <<>>]
  /\ batchSize' = [batchSize EXCEPT ![w] = 0]

\* Mutation: only the first worker is flushed.
FirstOnly(w) == 0
\* The next worker of one round of the flusher, which ends with the last one.
NextTick(w) == IF w = Workers THEN 0 ELSE w + 1

\* WriteDocuments returns: the batch is written, or refused by the database, or given
\* up when maxRetryDuration has passed.  An error does not tell which.
WriteDocuments(w) == db' \in {db, db \cup Range(batch[w])}

\* An empty batch is not written.
Flush(w) ==
  /\ Flushing(w)
  /\ WriteDocuments(w)
  /\ flushed' = flushed \cup Range(batch[w])
  /\ Emptied(w)
  /\ attempts' = [attempts EXCEPT ![w] = 0]
  /\ \/ /\ mux[w] = "ticker"
        /\ mux' = [mux EXCEPT ![w] = "free"]
        /\ tick' = NextTick(w)
        /\ UNCHANGED step
     \/ /\ step[w] = "flush"
        /\ step' = [step EXCEPT ![w] = "append"]
        /\ UNCHANGED <<mux, tick>>
     \/ /\ step[w] = "lastFlush"
        /\ step' = [step EXCEPT ![w] = "done"]
        /\ mux' = [mux EXCEPT ![w] = "free"]
        /\ UNCHANGED tick
  /\ UNCHANGED <<sending, channel, accepted, taken, phase>>

--------------------------------------------------------------------------------
(* The flusher: ActivationBatcher.run.                                        *)

Tick ==
  /\ tick = 0
  /\ tick' = 1
  /\ UNCHANGED <<sending, channel, accepted, step, taken, mux, batch, batchSize, attempts, db,
                 flushed, phase>>

TickLock(w) ==
  /\ tick = w /\ mux[w] = "free"
  /\ mux' = [mux EXCEPT ![w] = "ticker"]
  /\ UNCHANGED <<sending, channel, accepted, step, taken, batch, batchSize, tick, attempts, db,
                 flushed, phase>>

\* doneCh is closed; a tick that is due at the same time may still win.
TickerDone ==
  /\ tick = 0 /\ phase = "closing"
  /\ tick' = Stopped
  /\ UNCHANGED <<sending, channel, accepted, step, taken, mux, batch, batchSize, attempts, db,
                 flushed, phase>>

--------------------------------------------------------------------------------
\* Called by main once no invocation, hence no WriteActivation, is under way.
Shutdown ==
  /\ phase = "open" /\ sending = {}
  /\ phase' = "closing"
  /\ UNCHANGED <<sending, channel, accepted, step, taken, mux, batch, batchSize, tick, attempts,
                 db, flushed>>

\* Mutation: only the flusher is waited for.
WaitForFlusher ==
  /\ phase = "closing" /\ tick = Stopped
  /\ phase' = "down"
  /\ UNCHANGED <<sending, channel, accepted, step, taken, mux, batch, batchSize, tick, attempts,
                 db, flushed>>
\* grp.Wait.
ShutdownWait ==
  /\ phase = "closing" /\ tick = Stopped /\ \A w \in W : step[w] = "done"
  /\ phase' = "down"
  /\ UNCHANGED <<sending, channel, accepted, step, taken, mux, batch, batchSize, tick, attempts,
                 db, flushed>>

Worker(w) == Receive(w) \/ Lock(w) \/ AppendToBatch(w)

Next ==
  \/ \E a \in Activations : WriteActivation(a) \/ Accept(a)
  \/ \E w \in W : Worker(w) \/ Retry(w) \/ Flush(w) \/ TickLock(w)
  \/ Tick \/ TickerDone
  \/ Shutdown \/ ShutdownWait

Spec == Init /\ [][Next]_vars

\* The ticker fires, the request deadline bounds a flush, a mutex and a channel are
\* handed on in order, and a select does not prefer one of two ready cases for ever.
Fairness ==
  /\ \A w \in W : SF_vars(Worker(w)) /\ WF_vars(Flush(w)) /\ SF_vars(TickLock(w))
  /\ WF_vars(Tick) /\ SF_vars(TickerDone) /\ WF_vars(ShutdownWait)

FairSpec == Spec /\ Fairness

--------------------------------------------------------------------------------
(* Properties.                                                                *)

Pending == Range(channel) \cup {taken[w] : w \in {v \in W : taken[v] # None}}
             \cup (UNION {Range(batch[w]) : w \in W})
\* The bytes of some activations, each byte with its activation.
Bytes(S) == UNION {{a} \X (1..Size[a]) : a \in S}

(* An accepted activation is in the channel, in the hands of one worker, in one  *)
(* batch or flushed: none is lost or batched twice, whoever flushes, and nothing *)
(* reaches the database that was not accepted.  "flushBytes is the maximum size  *)
(* of a batch": a batch beyond it is one activation that alone exceeds it.       *)
Accounted ==
  /\ TypeOK
  /\ accepted = Pending \cup flushed /\ Pending \cap flushed = {}
  /\ db \subseteq accepted
  /\ \A w, v \in W : w # v => Range(batch[w]) \cap Range(batch[v]) = {}
  /\ \A w \in W :
       /\ IsInjective(batch[w]) /\ taken[w] \notin Range(batch[w])
       /\ batchSize[w] = Cardinality(Bytes(Range(batch[w])))
       /\ batchSize[w] > FlushBytes => Len(batch[w]) = 1

\* What Shutdown has got to, for the callers.
Taking == IF phase = "open" THEN "yes" ELSE IF phase = "closing" THEN "closing" ELSE "no"

Abstract == INSTANCE ActivationWriter WITH waiting <- Pending, settled <- flushed, open <- Taking

(* The batcher implements the abstract writer: what it accepted is settled once, *)
(* and Shutdown returns with nothing waiting.                                    *)
ImplementsWriter == Abstract!Spec

(* "flushInterval is the interval after which a batch is guaranteed to be        *)
(* flushed": every accepted activation is eventually flushed, and Shutdown       *)
(* returns, although the flusher and the workers contend for the same mutexes.   *)
EventuallyFlushed ==
  /\ \A a \in Activations : a \in accepted ~> a \in flushed
  /\ phase = "closing" ~> phase = "down"

================================================================================
