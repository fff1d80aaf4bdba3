------------------------ MODULE ActivationBatcherProofs ------------------------
(******************************************************************************)
(* The batching writer loses nothing and writes nothing twice (Accounted), and *)
(* implements the abstract writer (ImplementsWriter), for any number of workers *)
(* and activations and any sizes.  Neither is inductive: that a worker's step   *)
(* finds an activation in its hands, and the flusher a worker to flush, depends *)
(* on where they are (Located); that the limit of a batch holds depends on what *)
(* the worker has compared before it appends (Fits); and that nothing comes     *)
(* after the last batch depends on the order of Shutdown (Closing).             *)
(******************************************************************************)
EXTENDS ActivationBatcher, SequenceTheorems, FiniteSetTheorems, TLAPS

\* An activation is in one place.
Distinct ==
  /\ sending \cap accepted = {}
  /\ IsInjective(channel)
  /\ \A w, v \in W : taken[w] # None /\ taken[w] = taken[v] => w = v
  /\ \A w \in W : taken[w] \notin Range(channel)
  /\ \A w, v \in W : taken[w] \notin Range(batch[v])
  /\ \A w \in W : IsInjective(batch[w]) /\ Range(batch[w]) \cap Range(channel) = {}
  /\ \A w, v \in W : w # v => Range(batch[w]) \cap Range(batch[v]) = {}
\* And flushed only when it has left them all.
NotAgain ==
  /\ Range(channel) \cap flushed = {}
  /\ \A w \in W : taken[w] \notin flushed /\ Range(batch[w]) \cap flushed = {}
\* What was accepted.
Placed(a) == \/ a \in Range(channel)
             \/ \E w \in W : taken[w] = a \/ a \in Range(batch[w])
Traced ==
  /\ \A a \in Activations : a \in accepted <=> Placed(a) \/ a \in flushed
  /\ db \subseteq accepted

\* Who holds what, and what the flusher is at.
Located ==
  \A w \in W : /\ taken[w] # None <=> step[w] \in {"lock", "flush", "append"}
               /\ mux[w] = "worker" <=> step[w] \in {"flush", "append", "lastFlush"}
               /\ mux[w] = "ticker" => tick = w
\* The size of a batch, and what is known when a worker appends.
Sized(w) == /\ IsFiniteSet(Bytes(Range(batch[w])))
            /\ batchSize[w] = Cardinality(Bytes(Range(batch[w])))
            /\ batchSize[w] > FlushBytes => Len(batch[w]) = 1
            /\ step[w] = "append" => batch[w] = <<>> \/ ~Full(w, taken[w])
Fits == \A w \in W : Sized(w)
\* Nothing is accepted while the batcher shuts down, and a worker's last batch is its last.
Closing ==
  /\ phase # "open" => sending = {}
  /\ \A w \in W : step[w] \in {"lastLock", "lastFlush", "done"} => phase # "open" /\ channel = <<>>
  /\ \A w \in W : step[w] = "done" => batch[w] = <<>>
  /\ phase = "down" => \A w \in W : step[w] = "done"

IInv == TypeOK /\ Distinct /\ NotAgain /\ Traced /\ Located /\ Fits /\ Closing

--------------------------------------------------------------------------------
(* Lists without repetition, and the bytes of an activation more.               *)

(* A list loses its first element and nothing else.                             *)
LEMMA TailLoses ==
  ASSUME NEW S, NEW s \in Seq(S), s # <<>>, IsInjective(s)
  PROVE  /\ Tail(s) \in Seq(S) /\ Head(s) \in S /\ Len(Tail(s)) <= Len(s)
         /\ IsInjective(Tail(s)) /\ Head(s) \in Range(s) /\ Range(Tail(s)) = Range(s) \ {Head(s)}
<1> DEFINE t == Tail(s)
<1>1. /\ t \in Seq(S) /\ Len(t) = Len(s) - 1 /\ Len(s) \in Nat /\ Len(s) # 0 /\ Head(s) \in S
      /\ DOMAIN t = 1..(Len(s) - 1) /\ DOMAIN s = 1..Len(s) /\ Head(s) = s[1]
      /\ \A i \in 1..(Len(s) - 1) : t[i] = s[i + 1]
  OBVIOUS
<1> HIDE DEF t
<1>2. \A i \in DOMAIN t : i \in Int /\ i + 1 \in DOMAIN s /\ i + 1 # 1 /\ t[i] = s[i + 1]
  BY <1>1
<1>3. IsInjective(t)
  <2>1. \A i, j \in DOMAIN t : t[i] = t[j] => i + 1 = j + 1
    BY <1>2 DEF IsInjective
  <2> QED
    BY <1>2, <2>1 DEF IsInjective
<1>4. Head(s) \in Range(s)
  BY <1>1 DEF Range
<1>5. \A c \in Range(t) : c \in Range(s) /\ c # Head(s)
  BY <1>1, <1>2 DEF Range, IsInjective
<1>6. ASSUME NEW c \in Range(s), c # Head(s) PROVE c \in Range(t)
  <2>1. PICK i \in 1..Len(s) : s[i] = c
    BY <1>1, <1>6 DEF Range
  <2>2. i - 1 \in 1..(Len(s) - 1) /\ t[i - 1] = c
    BY <1>1, <1>6, <2>1
  <2> QED
    BY <1>1, <2>2 DEF Range
<1> QED
  BY <1>1, <1>3, <1>4, <1>5, <1>6 DEF t

(* A list gets an element that was not in it.                                   *)
LEMMA AppendGains ==
  ASSUME NEW S, NEW s \in Seq(S), NEW e \in S, e \notin Range(s), IsInjective(s)
  PROVE  /\ Append(s, e) \in Seq(S) /\ Len(Append(s, e)) = Len(s) + 1 /\ Len(s) \in Nat
         /\ IsInjective(Append(s, e)) /\ Range(Append(s, e)) = Range(s) \cup {e}
<1> DEFINE t == Append(s, e)
<1>1. /\ Len(s) \in Nat /\ DOMAIN s = 1..Len(s) /\ DOMAIN t = 1..(Len(s) + 1)
      /\ t \in Seq(S) /\ Len(t) = Len(s) + 1
      /\ \A i \in DOMAIN s : t[i] = s[i]
      /\ t[Len(s) + 1] = e
  OBVIOUS
<1> HIDE DEF t
<1>2. \A i \in DOMAIN t : (i \in DOMAIN s /\ t[i] = s[i]) \/ (i = Len(s) + 1 /\ t[i] = e)
  BY <1>1
<1>3. IsInjective(t)
  BY <1>1, <1>2 DEF IsInjective, Range
<1>4. Range(t) \subseteq Range(s) \cup {e}
  BY <1>1, <1>2 DEF Range
<1>5. Range(s) \cup {e} \subseteq Range(t)
  BY <1>1 DEF Range
<1> QED
  BY <1>1, <1>3, <1>4, <1>5 DEF t

(* The bytes of nothing.                                                        *)
LEMMA BytesNone == IsFiniteSet(Bytes({})) /\ Cardinality(Bytes({})) = 0
<1>1. Bytes({}) = {}
  BY DEF Bytes
<1> QED
  BY <1>1, FS_EmptySet

(* An activation adds its size.                                                 *)
LEMMA BytesMore ==
  ASSUME NEW S, S \subseteq Activations, IsFiniteSet(Bytes(S)), NEW a \in Activations \ S
  PROVE  /\ IsFiniteSet(Bytes(S \cup {a}))
         /\ Cardinality(Bytes(S \cup {a})) = Cardinality(Bytes(S)) + Size[a]
<1> DEFINE own == {a} \X (1..Size[a])
           all == Bytes(S)
<1>1. Size[a] \in Nat /\ 1 \in Int
  BY BatcherAssumption
<1>2. IsFiniteSet(1..Size[a]) /\ Cardinality(1..Size[a]) = Size[a]
  BY <1>1, FS_Interval
<1>3. IsFiniteSet({a}) /\ Cardinality({a}) = 1
  BY FS_Singleton
<1>4. IsFiniteSet(own) /\ Cardinality(own) = Cardinality({a}) * Cardinality(1..Size[a])
  BY <1>2, <1>3, FS_Product
<1>5. IsFiniteSet(own) /\ Cardinality(own) = Size[a]
  BY <1>1, <1>2, <1>3, <1>4
<1>6. Bytes(S \cup {a}) = all \cup own
  BY DEF Bytes
<1>7. all \cap own = {}
  BY DEF Bytes
<1>8. IsFiniteSet(all) /\ Cardinality(all) \in Nat
  BY FS_CardinalityType
<1> HIDE DEF all, own
<1>9. /\ IsFiniteSet(all \cup own)
      /\ Cardinality(all \cup own) = Cardinality(all) + Cardinality(own) - Cardinality(all \cap own)
  BY <1>5, <1>8, FS_Union
<1>10. Cardinality(all \cap own) = 0
  BY <1>7, FS_EmptySet
<1>11. Cardinality(all \cup own) = Cardinality(all) + Size[a]
  BY <1>1, <1>5, <1>8, <1>9, <1>10
<1> QED
  BY <1>6, <1>9, <1>11 DEF all

--------------------------------------------------------------------------------
(* The steps.                                                                   *)

(* The batcher is empty at first.                                               *)
LEMMA InitIInv == Init => IInv
<1> SUFFICES ASSUME Init PROVE IInv
  OBVIOUS
<1> USE BatcherAssumption DEF Init
<1>1. TypeOK
  <2>1. tick \in Stopped..Workers /\ attempts \in [W -> 0..MaxAttempts]
    BY DEF Stopped
  <2>2. channel \in Seq(Activations) /\ Len(channel) <= Workers
    OBVIOUS
  <2> QED
    BY <2>1, <2>2 DEF TypeOK
<1>2. /\ Range(channel) = {} /\ IsInjective(channel)
      /\ \A w \in W : Range(batch[w]) = {} /\ IsInjective(batch[w])
  BY DEF Range, IsInjective
<1>3. Distinct /\ NotAgain /\ Traced
  BY <1>2 DEF Distinct, NotAgain, Traced, Placed, None
<1>4. Located /\ Closing
  BY DEF Located, Closing
<1>5. Fits
  <2> SUFFICES ASSUME NEW w \in W PROVE Sized(w)
    BY DEF Fits
  <2>1. batchSize[w] = 0 /\ ~(0 > FlushBytes) /\ step[w] = "range" /\ Range(batch[w]) = {}
    BY <1>2
  <2> QED
    BY <2>1, BytesNone DEF Sized
<1> QED
  BY <1>1, <1>3, <1>4, <1>5 DEF IInv

(* What a worker with an activation in its hands has.                           *)
LEMMA HasTaken ==
  ASSUME IInv, NEW w \in W, step[w] \in {"lock", "flush", "append"}
  PROVE  taken[w] \in Activations /\ taken[w] # None
  BY DEF IInv, TypeOK, Located

(* Types.                                                                       *)
LEMMA TypeStep == IInv /\ [Next]_vars => TypeOK'
<1> SUFFICES ASSUME IInv, [Next]_vars PROVE TypeOK'
  OBVIOUS
<1>1. TypeOK /\ IsInjective(channel)
  BY DEF IInv, Distinct
<1> USE BatcherAssumption DEF TypeOK
<1>2. CASE \E a \in Activations : WriteActivation(a)
  BY <1>1, <1>2 DEF WriteActivation
<1>3. ASSUME NEW a \in Activations, Accept(a) PROVE TypeOK'
  <2>1. channel' \in Seq(Activations) /\ Len(channel') <= Workers
    BY <1>1, <1>3, AppendProperties DEF Accept
  <2> QED
    BY <1>1, <1>3, <2>1 DEF Accept
<1>4. ASSUME NEW w \in W, Receive(w) PROVE TypeOK'
  <2>1. CASE channel = <<>>
    BY <1>1, <1>4, <2>1 DEF Receive
  <2>2. CASE channel # <<>>
    <3>1. Tail(channel) \in Seq(Activations) /\ Head(channel) \in Activations /\ Len(Tail(channel)) <= Len(channel)
      BY <1>1, <2>2, TailLoses
    <3>2. Len(channel) \in Nat /\ Len(Tail(channel)) \in Nat
      BY <1>1, <3>1
    <3>3. channel' \in Seq(Activations) /\ Len(channel') <= Workers
      <4>1. channel' = Tail(channel) /\ Len(channel) <= Workers /\ Workers \in Nat
        BY <1>1, <1>4, <2>2 DEF Receive
      <4> QED
        BY <3>1, <3>2, <4>1
    <3>4. /\ step' \in [W -> {"range", "lock", "flush", "append", "lastLock", "lastFlush", "done"}]
          /\ taken' \in [W -> Activations \cup {None}]
      <4>1. taken' = [taken EXCEPT ![w] = Head(channel)] /\ step' = [step EXCEPT ![w] = "lock"]
        BY <1>4, <2>2 DEF Receive
      <4> QED
        BY <1>1, <3>1, <4>1
    <3> QED
      BY <1>1, <1>4, <3>3, <3>4 DEF Receive
  <2> QED
    BY <2>1, <2>2
<1>5. ASSUME NEW w \in W, Lock(w) PROVE TypeOK'
  BY <1>1, <1>5 DEF Lock
<1>6. ASSUME NEW w \in W, AppendToBatch(w) PROVE TypeOK'
  <2>1. taken[w] \in Activations /\ Size[taken[w]] \in Nat
    BY <1>6, HasTaken DEF AppendToBatch
  <2>2. batch' \in [W -> Seq(Activations)] /\ batchSize' \in [W -> Nat]
    BY <1>1, <1>6, <2>1, AppendProperties DEF AppendToBatch
  <2> QED
    BY <1>1, <1>6, <2>1, <2>2 DEF AppendToBatch
<1>7. ASSUME NEW w \in W, Retry(w) \/ Flush(w) PROVE db' \subseteq Activations /\ Range(batch[w]) \subseteq Activations
  <2>1. batch[w] \in Seq(Activations)
    BY <1>1
  <2>2. Range(batch[w]) \subseteq Activations
    BY <2>1 DEF Range
  <2> QED
    BY <1>1, <1>7, <2>2 DEF Retry, Flush, WriteDocuments
<1>8. ASSUME NEW w \in W, Retry(w) PROVE TypeOK'
  <2>1. attempts' \in [W -> 0..MaxAttempts]
    BY <1>1, <1>8 DEF Retry
  <2> QED
    BY <1>1, <1>7, <1>8, <2>1 DEF Retry
<1>9. ASSUME NEW w \in W, Flush(w) PROVE TypeOK'
  <2>1. attempts' \in [W -> 0..MaxAttempts]
    BY <1>1, <1>9 DEF Flush
  <2>2. batch' \in [W -> Seq(Activations)] /\ batchSize' \in [W -> Nat]
    BY <1>1, <1>9 DEF Flush, Emptied
  <2>3. flushed' \subseteq Activations /\ db' \subseteq Activations
    BY <1>1, <1>7, <1>9 DEF Flush
  <2>4. tick' \in Stopped..Workers
    <3>1. w \in Int /\ 1 <= w /\ w <= Workers /\ Workers \in Nat
      BY DEF W
    <3>2. NextTick(w) \in Stopped..Workers
      BY <3>1 DEF NextTick, Stopped
    <3>3. tick' \in {tick, NextTick(w)}
      BY <1>9 DEF Flush
    <3> QED
      BY <1>1, <3>2, <3>3
  <2>5. /\ step' \in [W -> {"range", "lock", "flush", "append", "lastLock", "lastFlush", "done"}]
        /\ mux' \in [W -> {"free", "worker", "ticker"}]
    BY <1>1, <1>9 DEF Flush
  <2> QED
    BY <1>1, <1>9, <2>1, <2>2, <2>3, <2>4, <2>5 DEF Flush
<1>10. ASSUME NEW w \in W, TickLock(w) PROVE TypeOK'
  BY <1>1, <1>10 DEF TickLock
<1>11. CASE Tick \/ TickerDone
  <2>1. tick' \in Stopped..Workers
    BY <1>1, <1>11 DEF Tick, TickerDone, Stopped
  <2> QED
    BY <1>1, <1>11, <2>1 DEF Tick, TickerDone
<1>12. CASE Shutdown \/ ShutdownWait
  BY <1>1, <1>12 DEF Shutdown, ShutdownWait
<1>13. CASE UNCHANGED vars
  BY <1>1, <1>13 DEF vars
<1> QED
  BY <1>2, <1>3, <1>4, <1>5, <1>6, <1>8, <1>9, <1>10, <1>11, <1>12, <1>13 DEF Next, Worker

(* What is in which place when nothing of it changes.                           *)
LEMMA PlacesFrame ==
  ASSUME IInv, UNCHANGED <<channel, taken, batch, accepted, flushed>>,
         sending' \cap accepted = {}, db' \subseteq accepted
  PROVE  Distinct' /\ NotAgain' /\ Traced'
  BY DEF IInv, Distinct, NotAgain, Traced, Placed

(* The channel takes an activation.                                             *)
LEMMA AcceptPlaces ==
  ASSUME IInv, NEW a \in Activations, Accept(a)
  PROVE  Distinct' /\ NotAgain' /\ Traced'
<1>1. TypeOK /\ Distinct /\ NotAgain /\ Traced
  BY DEF IInv
<1>2. a \notin accepted /\ ~Placed(a) /\ a \notin flushed
  BY <1>1 DEF Accept, Distinct, Traced
<1>3. IsInjective(channel') /\ Range(channel') = Range(channel) \cup {a}
  BY <1>1, <1>2, AppendGains DEF Accept, TypeOK, Distinct, Placed
<1>4. /\ UNCHANGED <<taken, batch, flushed, db>>
      /\ sending' = sending \ {a} /\ accepted' = accepted \cup {a}
  BY DEF Accept
<1>5. \A w \in W : taken[w] # a /\ a \notin Range(batch[w])
  BY <1>2 DEF Placed
<1>6. Distinct'
  BY <1>1, <1>3, <1>4, <1>5 DEF Distinct
<1>7. NotAgain'
  BY <1>1, <1>2, <1>3, <1>4 DEF NotAgain
<1>8. Traced'
  <2>1. \A b \in Activations : Placed(b)' <=> Placed(b) \/ b = a
    BY <1>3, <1>4 DEF Placed
  <2> QED
    BY <1>1, <1>4, <2>1 DEF Traced
<1> QED
  BY <1>6, <1>7, <1>8

(* A worker takes one from the channel.                                         *)
LEMMA ReceivePlaces ==
  ASSUME IInv, NEW w \in W, Receive(w)
  PROVE  Distinct' /\ NotAgain' /\ Traced'
<1>1. TypeOK /\ Distinct /\ NotAgain /\ Traced
  BY DEF IInv
<1>2. CASE channel = <<>>
  BY <1>1, <1>2, PlacesFrame DEF Receive, Distinct, Traced
<1>3. CASE channel # <<>>
  <2>1. PICK a : a = Head(channel)
    OBVIOUS
  <2>2. a \in Activations /\ IsInjective(channel') /\ a \in Range(channel) /\ Range(channel') = Range(channel) \ {a}
    <3>1. channel \in Seq(Activations) /\ IsInjective(channel) /\ channel' = Tail(channel)
      BY <1>1, <1>3 DEF Receive, TypeOK, Distinct
    <3> QED
      BY <1>3, <2>1, <3>1, TailLoses
  <2>3. /\ UNCHANGED <<sending, accepted, batch, flushed, db>>
        /\ taken'[w] = a /\ \A v \in W \ {w} : taken'[v] = taken[v]
    BY <1>1, <1>3, <2>1 DEF Receive, TypeOK
  <2>4. taken[w] = None
    BY DEF Receive, IInv, Located
  <2>5. \A v \in W : taken[v] # a /\ a \notin Range(batch[v])
    BY <1>1, <2>2 DEF Distinct
  <2>6. Distinct'
    BY <1>1, <2>2, <2>3, <2>5 DEF Distinct
  <2>7. NotAgain'
    BY <1>1, <2>2, <2>3 DEF NotAgain
  <2>8. Traced'
    <3>1. \A b \in Activations : Placed(b)' <=> Placed(b)
      <4>1. None \notin Activations
        BY BatcherAssumption
      <4> QED
        BY <2>2, <2>3, <2>4, <4>1 DEF Placed
    <3> QED
      BY <1>1, <2>3, <3>1 DEF Traced
  <2> QED
    BY <2>6, <2>7, <2>8
<1> QED
  BY <1>2, <1>3

(* A worker appends it to its batch.                                            *)
LEMMA AppendPlaces ==
  ASSUME IInv, NEW w \in W, AppendToBatch(w)
  PROVE  Distinct' /\ NotAgain' /\ Traced'
<1>1. TypeOK /\ Distinct /\ NotAgain /\ Traced
  BY DEF IInv
<1>2. PICK a : a = taken[w]
  OBVIOUS
<1>3. a \in Activations /\ a # None /\ None \notin Activations
  BY <1>2, HasTaken, BatcherAssumption DEF AppendToBatch
<1>4. IsInjective(batch'[w]) /\ Range(batch'[w]) = Range(batch[w]) \cup {a}
  <2>1. batch[w] \in Seq(Activations) /\ batch'[w] = Append(batch[w], a)
    BY <1>1, <1>2 DEF TypeOK, AppendToBatch
  <2>2. a \notin Range(batch[w]) /\ IsInjective(batch[w])
    BY <1>1, <1>2 DEF Distinct
  <2> QED
    BY <1>3, <2>1, <2>2, AppendGains
<1>5. /\ UNCHANGED <<sending, channel, accepted, flushed, db>>
      /\ taken'[w] = None /\ \A v \in W \ {w} : taken'[v] = taken[v] /\ batch'[v] = batch[v]
  BY <1>1 DEF AppendToBatch, TypeOK
<1>6. /\ \A v \in W : a \notin Range(batch[v]) /\ (v # w => taken[v] # a)
      /\ a \notin Range(channel) /\ a \notin flushed
  BY <1>1, <1>2, <1>3 DEF Distinct, NotAgain
<1>7. \A v \in W : Range(batch[v]) \subseteq Activations
  BY <1>1 DEF TypeOK, Range
<1>8. Range(channel) \subseteq Activations /\ flushed \subseteq Activations
  BY <1>1 DEF TypeOK, Range
<1>9. Distinct'
  <2>1. \A v, u \in W : (taken'[v] # None /\ taken'[v] = taken'[u]) => v = u
    BY <1>1, <1>5 DEF Distinct
  <2>2. \A v \in W : taken'[v] \notin Range(channel')
    BY <1>1, <1>3, <1>5, <1>8 DEF Distinct
  <2>3. \A v, u \in W : taken'[v] \notin Range(batch'[u])
    BY <1>1, <1>3, <1>4, <1>5, <1>6, <1>7 DEF Distinct
  <2>4. \A v \in W : IsInjective(batch'[v]) /\ Range(batch'[v]) \cap Range(channel') = {}
    BY <1>1, <1>4, <1>5, <1>6 DEF Distinct
  <2>5. \A v, u \in W : v # u => Range(batch'[v]) \cap Range(batch'[u]) = {}
    BY <1>1, <1>4, <1>5, <1>6 DEF Distinct
  <2> QED
    BY <1>1, <1>5, <2>1, <2>2, <2>3, <2>4, <2>5 DEF Distinct
<1>10. NotAgain'
  BY <1>1, <1>3, <1>4, <1>5, <1>6, <1>8 DEF NotAgain
<1>11. Traced'
  <2>1. \A b \in Activations : Placed(b)' <=> Placed(b)
    BY <1>2, <1>3, <1>4, <1>5 DEF Placed
  <2> QED
    BY <1>1, <1>5, <2>1 DEF Traced
<1> QED
  BY <1>9, <1>10, <1>11

(* A batch is flushed.                                                          *)
LEMMA FlushPlaces ==
  ASSUME IInv, NEW w \in W, Flush(w)
  PROVE  Distinct' /\ NotAgain' /\ Traced'
<1>1. TypeOK /\ Distinct /\ NotAgain /\ Traced
  BY DEF IInv
<1>2. /\ UNCHANGED <<sending, channel, accepted, taken>> /\ flushed' = flushed \cup Range(batch[w])
      /\ batch'[w] = <<>> /\ \A v \in W \ {w} : batch'[v] = batch[v]
  BY <1>1 DEF Flush, Emptied, TypeOK
<1>3. Range(batch'[w]) = {} /\ IsInjective(batch'[w])
  BY <1>2 DEF Range, IsInjective
<1>4. Range(batch[w]) \subseteq Activations
  BY <1>1 DEF TypeOK, Range
<1>5. Distinct'
  BY <1>1, <1>2, <1>3 DEF Distinct
<1>6. NotAgain'
  BY <1>1, <1>2, <1>3 DEF NotAgain, Distinct
<1>7. Traced'
  <2>1. \A b \in Activations : (Placed(b)' \/ b \in flushed') <=> (Placed(b) \/ b \in flushed)
    BY <1>2, <1>3 DEF Placed
  <2>2. db' \subseteq accepted
    BY <1>1, <1>4 DEF Flush, WriteDocuments, Traced, Placed
  <2> QED
    BY <1>1, <1>2, <2>1, <2>2 DEF Traced
<1> QED
  BY <1>5, <1>6, <1>7

(* The places, in every step.                                                   *)
LEMMA PlacesStep == IInv /\ [Next]_vars => Distinct' /\ NotAgain' /\ Traced'
<1> SUFFICES ASSUME IInv, [Next]_vars PROVE Distinct' /\ NotAgain' /\ Traced'
  OBVIOUS
<1>1. TypeOK /\ Distinct /\ Traced
  BY DEF IInv
<1>2. ASSUME NEW a \in Activations, WriteActivation(a) PROVE Distinct' /\ NotAgain' /\ Traced'
  BY <1>1, <1>2, PlacesFrame DEF WriteActivation, Distinct, Traced
<1>3. ASSUME NEW w \in W, Lock(w) \/ TickLock(w) PROVE Distinct' /\ NotAgain' /\ Traced'
  BY <1>1, <1>3, PlacesFrame DEF Lock, TickLock, Distinct, Traced
<1>4. ASSUME NEW w \in W, Retry(w) PROVE Distinct' /\ NotAgain' /\ Traced'
  <2>1. Range(batch[w]) \subseteq Activations
    BY <1>1 DEF TypeOK, Range
  <2>2. db' \subseteq accepted
    BY <1>1, <1>4, <2>1 DEF Retry, Traced, Placed
  <2> QED
    BY <1>1, <1>4, <2>2, PlacesFrame DEF Retry, Distinct
<1>5. CASE Tick \/ TickerDone \/ Shutdown \/ ShutdownWait \/ UNCHANGED vars
  BY <1>1, <1>5, PlacesFrame DEF Tick, TickerDone, Shutdown, ShutdownWait, vars, Distinct, Traced
<1> QED
  BY <1>2, <1>3, <1>4, <1>5, AcceptPlaces, ReceivePlaces, AppendPlaces, FlushPlaces DEF Next, Worker

(* Who holds what.                                                              *)
LEMMA LocatedStep == IInv /\ [Next]_vars => Located'
<1> SUFFICES ASSUME IInv, [Next]_vars PROVE Located'
  OBVIOUS
<1>1. TypeOK /\ Located
  BY DEF IInv
<1> USE DEF TypeOK
<1>2. CASE (\E a \in Activations : WriteActivation(a) \/ Accept(a)) \/ Shutdown \/ ShutdownWait \/ UNCHANGED vars
  BY <1>1, <1>2 DEF WriteActivation, Accept, Shutdown, ShutdownWait, vars, Located
<1>3. CASE Tick \/ TickerDone
  <2>1. \A w \in W : mux[w] # "ticker"
    <3>1. \A w \in W : w # 0
      BY DEF W
    <3> QED
      BY <1>1, <1>3, <3>1 DEF Tick, TickerDone, Located
  <2> QED
    BY <1>1, <1>3, <2>1 DEF Tick, TickerDone, Located
<1>4. ASSUME NEW w \in W, Worker(w) \/ Retry(w) \/ Flush(w) \/ TickLock(w) PROVE Located'
  <2>1. \A v \in W \ {w} : step'[v] = step[v] /\ mux'[v] = mux[v] /\ taken'[v] = taken[v]
    BY <1>1, <1>4 DEF Worker, Receive, Lock, AppendToBatch, Retry, Flush, TickLock
  <2>2. \A v \in W : mux'[v] = "ticker" => tick' = v
    <3>1. CASE Flush(w) /\ mux[w] = "ticker"
      <4>1. tick = w /\ step[w] \notin {"flush", "lastFlush"}
        BY <1>1, <3>1 DEF Located
      <4>2. mux'[w] = "free"
        BY <1>1, <3>1, <4>1 DEF Flush
      <4>3. \A v \in W \ {w} : mux[v] # "ticker"
        BY <1>1, <4>1 DEF Located
      <4> QED
        BY <2>1, <4>2, <4>3
    <3>2. CASE ~(Flush(w) /\ mux[w] = "ticker")
      <4>1. UNCHANGED tick
        BY <1>4, <3>2 DEF Worker, Receive, Lock, AppendToBatch, Retry, Flush, TickLock
      <4> QED
        BY <1>1, <1>4, <2>1, <4>1 DEF Worker, Receive, Lock, AppendToBatch, Retry, Flush, TickLock, Located
    <3> QED
      BY <3>1, <3>2
  <2>3. taken'[w] # None <=> step'[w] \in {"lock", "flush", "append"}
    <3>1. CASE Receive(w)
      <4>1. CASE channel = <<>>
        BY <1>1, <3>1, <4>1 DEF Receive, Located
      <4>2. CASE channel # <<>>
        <5>1. Head(channel) \in Activations
          BY <1>1, <4>2
        <5> QED
          BY <1>1, <3>1, <4>2, <5>1, BatcherAssumption DEF Receive
      <4> QED
        BY <4>1, <4>2
    <3>2. CASE Lock(w) \/ AppendToBatch(w) \/ Retry(w) \/ TickLock(w)
      BY <1>1, <3>2 DEF Lock, AppendToBatch, Retry, TickLock, Located
    <3>3. CASE Flush(w)
      BY <1>1, <3>3 DEF Flush, Located
    <3> QED
      BY <1>4, <3>1, <3>2, <3>3 DEF Worker
  <2>4. mux'[w] = "worker" <=> step'[w] \in {"flush", "append", "lastFlush"}
    <3>1. CASE Receive(w) \/ Lock(w) \/ AppendToBatch(w)
      BY <1>1, <3>1 DEF Receive, Lock, AppendToBatch, Located
    <3>2. CASE Retry(w) \/ TickLock(w)
      BY <1>1, <3>2 DEF Retry, TickLock, Located
    <3>3. CASE Flush(w)
      BY <1>1, <3>3 DEF Flush, Located
    <3> QED
      BY <1>4, <3>1, <3>2, <3>3 DEF Worker
  <2> QED
    BY <1>1, <2>1, <2>2, <2>3, <2>4 DEF Located
<1> QED
  BY <1>2, <1>3, <1>4 DEF Next

(* The size of the batches.                                                     *)
LEMMA FitsStep == IInv /\ [Next]_vars => Fits'
<1> SUFFICES ASSUME IInv, [Next]_vars, NEW v \in W PROVE Sized(v)'
  BY DEF Fits
<1>1. TypeOK /\ Located /\ Distinct /\ Sized(v)
  BY DEF IInv, Fits
<1> USE DEF TypeOK
<1>2. ASSUME batch'[v] = batch[v], batchSize'[v] = batchSize[v],
             step'[v] = "append" => (step[v] = "append" /\ taken'[v] = taken[v]) \/ ~Full(v, taken'[v])
      PROVE  Sized(v)'
  BY <1>1, <1>2 DEF Sized, Full
<1>3. ASSUME NEW w \in W, w # v, Worker(w) \/ Retry(w) \/ Flush(w) \/ TickLock(w) PROVE Sized(v)'
  BY <1>1, <1>2, <1>3 DEF Worker, Receive, Lock, AppendToBatch, Retry, Flush, Emptied, TickLock
<1>4. CASE (\E a \in Activations : WriteActivation(a) \/ Accept(a)) \/ Tick \/ TickerDone \/ Shutdown \/ ShutdownWait
             \/ UNCHANGED vars
  BY <1>1, <1>2, <1>4 DEF WriteActivation, Accept, Tick, TickerDone, Shutdown, ShutdownWait, vars
<1>5. CASE Receive(v) \/ Lock(v) \/ Retry(v) \/ TickLock(v)
  BY <1>1, <1>2, <1>5 DEF Receive, Lock, Retry, TickLock
<1>6. CASE Flush(v)
  <2>1. batch'[v] = <<>> /\ batchSize'[v] = 0
    BY <1>1, <1>6 DEF Flush, Emptied
  <2>2. Range(batch'[v]) = {}
    BY <2>1 DEF Range
  <2>3. ~(0 > FlushBytes)
    BY BatcherAssumption
  <2> QED
    BY <2>1, <2>2, <2>3, BytesNone DEF Sized
<1>7. CASE AppendToBatch(v)
  <2>1. PICK a, b : a = taken[v] /\ b = batch[v]
    OBVIOUS
  <2>2. a \in Activations /\ Size[a] \in Nat /\ b \in Seq(Activations) /\ a \notin Range(b) /\ IsInjective(b)
    BY <1>1, <1>7, <2>1, HasTaken, BatcherAssumption DEF AppendToBatch, Distinct
  <2>3. batch'[v] = Append(b, a) /\ batchSize'[v] = batchSize[v] + Size[a] /\ step'[v] = "range"
    BY <1>1, <1>7, <2>1 DEF AppendToBatch
  <2>4. Range(batch'[v]) = Range(b) \cup {a} /\ Len(batch'[v]) = Len(b) + 1
    BY <2>2, <2>3, AppendGains
  <2>5. /\ IsFiniteSet(Bytes(Range(b) \cup {a}))
        /\ Cardinality(Bytes(Range(b) \cup {a})) = Cardinality(Bytes(Range(b))) + Size[a]
    <3>1. Range(b) \subseteq Activations
      BY <2>2 DEF Range
    <3> QED
      BY <1>1, <2>1, <2>2, <3>1, BytesMore DEF Sized
  <2>6. batchSize'[v] > FlushBytes => Len(batch'[v]) = 1
    <3>1. b = <<>> \/ ~Full(v, a)
      BY <1>1, <1>7, <2>1 DEF AppendToBatch, Sized
    <3> QED
      BY <2>3, <2>4, <3>1 DEF Full
  <2> QED
    BY <1>1, <2>1, <2>3, <2>4, <2>5, <2>6 DEF Sized
<1> QED
  BY <1>3, <1>4, <1>5, <1>6, <1>7 DEF Next, Worker

(* The order of Shutdown.                                                       *)
LEMMA ClosingStep == IInv /\ [Next]_vars => Closing'
<1> SUFFICES ASSUME IInv, [Next]_vars PROVE Closing'
  OBVIOUS
<1>1. TypeOK /\ Located /\ Closing
  BY DEF IInv
<1> USE DEF TypeOK
<1>2. ASSUME NEW a \in Activations, WriteActivation(a) \/ Accept(a) PROVE Closing'
  BY <1>1, <1>2 DEF WriteActivation, Accept, Closing
<1>3. CASE Tick \/ TickerDone \/ Shutdown \/ ShutdownWait \/ UNCHANGED vars
  BY <1>1, <1>3 DEF Tick, TickerDone, Shutdown, ShutdownWait, vars, Closing
<1>4. ASSUME NEW w \in W, Worker(w) \/ Retry(w) \/ Flush(w) \/ TickLock(w) PROVE Closing'
  <2>1. /\ UNCHANGED <<sending, phase>>
        /\ \A v \in W \ {w} : step'[v] = step[v] /\ batch'[v] = batch[v]
    BY <1>1, <1>4 DEF Worker, Receive, Lock, AppendToBatch, Retry, Flush, Emptied, TickLock
  <2>2. channel = <<>> => UNCHANGED channel
    BY <1>4 DEF Worker, Receive, Lock, AppendToBatch, Retry, Flush, TickLock
  <2>3. step'[w] \in {"lastLock", "lastFlush", "done"} => phase # "open" /\ channel = <<>>
    BY <1>1, <1>4 DEF Worker, Receive, Lock, AppendToBatch, Retry, Flush, TickLock, Closing
  <2>4. step'[w] = "done" => batch'[w] = <<>>
    BY <1>1, <1>4 DEF Worker, Receive, Lock, AppendToBatch, Retry, Flush, Emptied, TickLock, Closing
  <2>5. step[w] = "done" => step'[w] = "done"
    BY <1>1, <1>4 DEF Worker, Receive, Lock, AppendToBatch, Retry, Flush, TickLock, Located
  <2> QED
    BY <1>1, <2>1, <2>2, <2>3, <2>4, <2>5 DEF Closing
<1> QED
  BY <1>2, <1>3, <1>4 DEF Next

--------------------------------------------------------------------------------
(* The theorems.                                                                *)

(* IInv holds of every reachable state.                                         *)
LEMMA Invariance == Spec => []IInv
<1>1. IInv /\ [Next]_vars => IInv'
  BY TypeStep, PlacesStep, LocatedStep, FitsStep, ClosingStep DEF IInv
<1> QED
  BY <1>1, InitIInv, PTL DEF Spec

(* What waits, place by place.                                                  *)
LEMMA PendingPlaced == IInv => Pending = {a \in Activations : Placed(a)}
<1> SUFFICES ASSUME IInv PROVE Pending = {a \in Activations : Placed(a)}
  OBVIOUS
<1>1. TypeOK
  BY DEF IInv
<1>2. Range(channel) \subseteq Activations /\ \A w \in W : Range(batch[w]) \subseteq Activations
  BY <1>1 DEF TypeOK, Range
<1>3. \A w \in W : taken[w] # None <=> taken[w] \in Activations
  BY <1>1, BatcherAssumption DEF TypeOK
<1> HIDE DEF W
<1>4. \A a : a \in Pending <=> \/ a \in Range(channel)
                               \/ \E w \in W : taken[w] = a /\ a # None
                               \/ \E w \in W : a \in Range(batch[w])
  BY DEF Pending
<1> QED
  BY <1>2, <1>3, <1>4 DEF Placed

(* What waits is what was accepted and is not flushed.                          *)
LEMMA PendingIs ==
  IInv => accepted = Pending \cup flushed /\ Pending \cap flushed = {} /\ Pending = accepted \ flushed
<1> SUFFICES ASSUME IInv PROVE accepted = Pending \cup flushed /\ Pending \cap flushed = {}
  OBVIOUS
<1>1. accepted \subseteq Activations /\ flushed \subseteq Activations
  BY DEF IInv, TypeOK
<1>2. \A a \in Activations : Placed(a) => a \notin flushed
  BY DEF IInv, NotAgain, Placed
<1> QED
  BY <1>1, <1>2, PendingPlaced DEF IInv, Traced

(* In every reachable state of the batcher, what was accepted is in exactly one  *)
(* place or flushed, nothing else is in the database, and a batch is as large as *)
(* its bytes and not beyond flushBytes, unless it is one activation.             *)
THEOREM AlwaysAccounted == Spec => []Accounted
<1>1. IInv => Accounted
  BY PendingIs DEF IInv, Traced, Distinct, Fits, Sized, Accounted
<1> QED
  BY <1>1, Invariance, PTL

(* The abstract writer has nothing at first.                                    *)
LEMMA InitWriter == Init => Abstract!Init
<1> SUFFICES ASSUME Init PROVE Abstract!Init
  OBVIOUS
<1>1. Range(channel) = {} /\ \A w \in W : Range(batch[w]) = {} /\ taken[w] = None
  BY DEF Init, Range
<1>2. Pending = {}
  BY <1>1 DEF Pending
<1> QED
  BY <1>2 DEF Init, Taking, Abstract!Init

(* A step of the batcher is a step of the writer, or none.                      *)
LEMMA StepWriter == IInv /\ IInv' /\ [Next]_vars => [Abstract!Next]_<<Pending, flushed, Taking>>
<1> SUFFICES ASSUME IInv, IInv', [Next]_vars
             PROVE  Abstract!Next \/ UNCHANGED <<Pending, flushed, Taking>>
  OBVIOUS
<1>1. accepted = Pending \cup flushed /\ Pending = accepted \ flushed
  BY PendingIs
<1>2. (IInv => accepted = Pending \cup flushed /\ Pending \cap flushed = {} /\ Pending = accepted \ flushed)'
  BY PendingIs, PTL
<1>3. Pending' = accepted' \ flushed'
  BY <1>2
<1>4. ASSUME NEW a \in Activations, Accept(a) PROVE Abstract!Next
  <2>1. a \notin Pending \cup flushed /\ phase = "open"
    BY <1>1, <1>4 DEF Accept, IInv, Distinct, Closing
  <2>2. Abstract!Accept(a)
    BY <1>1, <1>3, <1>4, <2>1 DEF Accept, Taking, Abstract!Accept
  <2> QED
    BY <2>2 DEF Abstract!Next
<1>5. ASSUME NEW w \in W, Flush(w) PROVE Abstract!Next \/ UNCHANGED <<Pending, flushed, Taking>>
  <2>1. flushed' = flushed \cup Range(batch[w]) /\ UNCHANGED <<accepted, Taking>>
    BY <1>5 DEF Flush, Taking
  <2>2. Range(batch[w]) \subseteq Pending
    BY DEF Pending
  <2>3. Range(batch[w]) \in SUBSET Activations
    BY <1>1, <2>2 DEF IInv, TypeOK
  <2>4. Pending' = Pending \ Range(batch[w])
    BY <1>1, <1>3, <2>1, <2>2
  <2>5. Range(batch[w]) # {} => Abstract!Settle(Range(batch[w]))
    BY <2>1, <2>2, <2>4 DEF Abstract!Settle
  <2> QED
    BY <2>1, <2>3, <2>4, <2>5 DEF Abstract!Next
<1>6. CASE Shutdown
  <2>1. Abstract!Close
    BY <1>1, <1>3, <1>6 DEF Shutdown, Taking, Abstract!Close
  <2> QED
    BY <2>1 DEF Abstract!Next
<1>7. CASE ShutdownWait
  <2>1. Pending = {}
    <3>1. channel = <<>> /\ \A w \in W : batch[w] = <<>> /\ taken[w] = None
      <4>1. 1 \in W
        BY BatcherAssumption DEF W
      <4>2. step[1] = "done"
        BY <1>7, <4>1 DEF ShutdownWait
      <4> QED
        BY <1>7, <4>1, <4>2 DEF ShutdownWait, IInv, Closing, Located
    <3>2. Range(channel) = {} /\ \A w \in W : Range(batch[w]) = {}
      BY <3>1 DEF Range
    <3> QED
      BY <3>1, <3>2 DEF Pending
  <2>2. Abstract!Closed
    BY <1>1, <1>3, <1>7, <2>1 DEF ShutdownWait, Taking, Abstract!Closed
  <2> QED
    BY <2>2 DEF Abstract!Next
<1>8. ASSUME UNCHANGED <<accepted, flushed, phase>> PROVE UNCHANGED <<Pending, flushed, Taking>>
  BY <1>1, <1>3, <1>8 DEF Taking
<1>9. CASE \E a \in Activations : WriteActivation(a)
  BY <1>8, <1>9 DEF WriteActivation
<1>10. CASE \E w \in W : Worker(w) \/ Retry(w) \/ TickLock(w)
  BY <1>8, <1>10 DEF Worker, Receive, Lock, AppendToBatch, Retry, TickLock
<1>11. CASE Tick \/ TickerDone \/ UNCHANGED vars
  BY <1>8, <1>11 DEF Tick, TickerDone, vars
<1> QED
  BY <1>4, <1>5, <1>6, <1>7, <1>9, <1>10, <1>11 DEF Next

(* The batcher implements the writer its callers see: an accepted activation is  *)
(* settled once, and Shutdown does not return while one waits.                   *)
THEOREM BatcherImplementsWriter == Spec => ImplementsWriter
  BY InitWriter, StepWriter, Invariance, PTL DEF Spec, ImplementsWriter, Abstract!Spec

================================================================================
