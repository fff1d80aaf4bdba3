-------------------------- MODULE ContainerPoolProofs --------------------------
(******************************************************************************)
(* Types and ownership of the pool, whatever the numbers of invocations, keys, *)
(* containers and failures.                                                   *)
(*                                                                            *)
(* TypeOK is not inductive: that a step has a container to put somewhere      *)
(* depends on the location of the invocation, and that the semaphore wakes an *)
(* invocation which waits depends on its queue.  TypeInv adds both, and the   *)
(* container the reconciler is creating.  The second part of the module, on   *)
(* ownership, says who has each container.  The third is about the memory     *)
(* accounts: the semaphore, inFlightMemory and idlesMemory are exact          *)
(* (AccountsExact), the loop that makes space never runs out of containers    *)
(* (SpaceCanBeMade), and the pool stays below twice the configured memory     *)
(* (MemoryBound).  Three results rest on all three parts: the pool implements *)
(* a lease (ImplementsLease), no missing prewarm container goes without a     *)
(* poke (NoLostPoke), and Shutdown leaves nothing behind (NothingLeft).       *)
(******************************************************************************)
EXTENDS ContainerPool, SequenceTheorems, FiniteSetTheorems, TLAPS

\* What an invocation has in its local variables at each location.
CallerOK(p) ==
  /\ pc[p] # "idle" => key[p] \in Keys
  /\ pc[p] \in {"unpause", "poke", "creating", "fwWarm", "fwPrewarm", "fwCold", "init", "run",
                "append"} => ctr[p] \in IPs
  /\ pc[p] = "send" => toDelete[p] # <<>>

\* The queue of the semaphore holds invocations that wait, each of them once.
WaitersOK ==
  /\ \A i \in DOMAIN waiters : pc[waiters[i]] = "wait"
  /\ \A i, j \in DOMAIN waiters : waiters[i] = waiters[j] => i = j

\* TypeOK made inductive.
TypeInv ==
  /\ TypeOK
  /\ \A p \in Callers : CallerOK(p)
  /\ WaitersOK
  /\ reconciler = "creating" => creating \in [pk : PrewarmKeys, c : IPs]

--------------------------------------------------------------------------------
(* What Tail leaves, and the container it takes.                                *)
LEMMA TailType ==
  ASSUME NEW S, NEW s \in Seq(S), s # <<>>
  PROVE  Tail(s) \in Seq(S) /\ Head(s) \in S /\ Len(Tail(s)) = Len(s) - 1 /\ Len(s) \in Nat
  OBVIOUS

(* A list that gets one container more.                                         *)
LEMMA AppendType ==
  ASSUME NEW S, NEW s \in Seq(S), NEW e \in S
  PROVE  Append(s, e) \in Seq(S) /\ Len(Append(s, e)) = Len(s) + 1 /\ Append(s, e) # <<>>
  BY AppendProperties

(* Tail leaves something of every list but the shortest.                        *)
LEMMA TailLeft ==
  ASSUME NEW S, NEW s \in Seq(S), s # <<>>, Len(s) # 1
  PROVE  Tail(s) # <<>>
<1>1. Len(Tail(s)) = Len(s) - 1 /\ Len(s) \in Nat
  BY HeadTailProperties
<1>2. Len(<<>>) = 0
  OBVIOUS
<1>3. Len(Tail(s)) # 0
  BY <1>1
<1> QED
  BY <1>2, <1>3

(* The list without its last container, and that container.                     *)
LEMMA FrontType ==
  ASSUME NEW S, NEW s \in Seq(S), s # <<>>
  PROVE  SubSeq(s, 1, Len(s) - 1) \in Seq(S) /\ s[Len(s)] \in S
  BY SubSeqProperties

(* Idle containers are containers.                                              *)
LEMMA IdleSetType == TypeOK => IdleSet \subseteq IPs
  BY DEF TypeOK, IdlesType, IdleSet, Range

(* The pool is empty at first.                                                  *)
LEMMA InitTypeInv == Init => TypeInv
<1> SUFFICES ASSUME Init PROVE TypeInv
  OBVIOUS
<1> USE KeyAssumption, BoundAssumption DEF Init
<1>1. CallersType
  BY DEF CallersType, Locations
<1>2. CapacityType /\ IdlesType /\ PrewarmType
  BY DEF CapacityType, IdlesType, PrewarmType
<1>3. DeletionType /\ ContainersType
  BY DEF DeletionType, ContainersType
<1>4. EnvironmentType
  <2>1. faults \in 0..MaxFaults /\ phase = "running"
    OBVIOUS
  <2>2. panicked \in BOOLEAN
    OBVIOUS
  <2> QED
    BY <2>1, <2>2 DEF EnvironmentType
<1>5. \A p \in Callers : CallerOK(p)
  BY DEF CallerOK
<1>6. WaitersOK
  BY DEF WaitersOK
<1> QED
  BY <1>1, <1>2, <1>3, <1>4, <1>5, <1>6 DEF TypeInv, TypeOK

--------------------------------------------------------------------------------
(* What a step leaves alone.                                                    *)

(* The background goroutines and Shutdown never touch the local variables of an *)
(* invocation or the semaphore.                                                 *)
LEMMA BackgroundFrame ==
  ASSUME Deleter \/ ReapLock \/ Reap \/ ReaperStop \/ Reconciler \/ Shutdown \/ ShutDown
  PROVE  UNCHANGED callerVars /\ UNCHANGED semVars /\ UNCHANGED inFlightMemory
  BY DEF Deleter, DeleterReceive, DeleterRemove, DeleterStop,
         ReapLock, Reap, ReapCollect, ReapUnlock, ReapRemove, ReapDone, ReaperStop,
         Reconciler, ReconcilePlan, PrewarmCreate, PrewarmCreated, ReconcileDone, ReconcilerStop,
         Shutdown, ShutDown, ShutdownWait, ShutdownIdle, ShutdownPrewarmed, ShutdownDone

\* The steps of an invocation, by the shared state they work on.
OnCapacity(p) == (\E k \in Keys : Get(p, k)) \/ Count(p) \/ Uncount(p) \/ Release(p)
OnIdles(p)    == LookupWarm(p) \/ LookupCold(p) \/ EvictOne(p) \/ PutIdle(p)
OnPrewarmed(p) == TakePrewarm(p) \/ Poke(p)
OnContainer(p) == Create(p) \/ Created(p) \/ Unpause(p) \/ Firewall(p) \/ Initialize(p) \/ PutToDestroy(p)

(* Every step of an invocation is one of these, a send to the remover or a Put. *)
LEMMA InvocationSteps ==
  ASSUME NEW p \in Callers
  PROVE  (\E k \in Keys : Get(p, k)) \/ Invocation(p) <=>
           OnCapacity(p) \/ OnIdles(p) \/ OnPrewarmed(p) \/ OnContainer(p) \/ Send(p) \/ Put(p)
  BY DEF Invocation, OnCapacity, OnIdles, OnPrewarmed, OnContainer

(* Get's start, the counter and the releases: only the capacity.                *)
LEMMA OnCapacityFrame ==
  ASSUME NEW p \in Callers, OnCapacity(p)
  PROVE  UNCHANGED <<idleVars, prewarmVars, deleteVars, reapVars, ctrVars, envVars>>
  BY DEF OnCapacity, Get, Count, Uncount, Release
(* The lookups, eviction and the second half of Put: only the idle pool.        *)
LEMMA OnIdlesFrame ==
  ASSUME NEW p \in Callers, OnIdles(p)
  PROVE  UNCHANGED <<semVars, inFlightMemory, prewarmVars, deleteVars, reapVars, ctrVars, envVars>>
  BY DEF OnIdles, LookupWarm, LookupCold, EvictOne, PutIdle
(* Taking a prewarm container and the poke: only the prewarm pool.              *)
LEMMA OnPrewarmedFrame ==
  ASSUME NEW p \in Callers, OnPrewarmed(p)
  PROVE  UNCHANGED <<semVars, inFlightMemory, idleVars, deleteVars, reapVars, ctrVars, envVars>>
  BY DEF OnPrewarmed, TakePrewarm, Poke
(* What is done to a container in hand: only the container.                     *)
LEMMA OnContainerFrame ==
  ASSUME NEW p \in Callers, OnContainer(p)
  PROVE  /\ UNCHANGED <<semVars, inFlightMemory, idleVars, prewarmVars, deleteVars, reapVars>>
         /\ UNCHANGED <<phase, panicked>>
  BY DEF OnContainer, Create, Created, Unpause, Firewall, Initialize, PutToDestroy, envVars

--------------------------------------------------------------------------------
(* The types, one group of variables at a time.                                 *)

(* The local variables of the invocation that takes a step.                     *)
LEMMA CallerTypes ==
  ASSUME TypeInv, NEW p \in Callers, (\E k \in Keys : Get(p, k)) \/ Invocation(p)
  PROVE  CallersType' /\ \A q \in Callers : CallerOK(q)'
<1> USE DEF TypeInv, TypeOK, CallersType, CallerOK, Locations, Goto
<1>1. ASSUME NEW k \in Keys, Get(p, k) PROVE CallersType' /\ \A q \in Callers : CallerOK(q)'
  BY <1>1, KeyAssumption DEF Get, Acquire, MemoryOf
<1>2. CASE Count(p)
  BY <1>2 DEF Count, CapacityType
<1>3. CASE LookupWarm(p)
  BY <1>3, FrontType DEF LookupWarm, IdlesType
<1>4. CASE LookupCold(p)
  <2>1. \E l \in {"prewarm", "evict"} : pc' = [pc EXCEPT ![p] = l]
    BY <1>4 DEF LookupCold
  <2>2. seen' \in [Callers -> Int] /\ UNCHANGED <<key, mem, ctr, toDelete>> /\ pc[p] = "lookup"
    BY <1>4 DEF LookupCold
  <2> QED
    BY <2>1, <2>2
<1>5. CASE EvictOne(p)
  <2>1. UNCHANGED <<key, mem, ctr>> /\ pc[p] = "evict"
    BY <1>5 DEF EvictOne
  <2>2. CASE IdleSet = {}
    BY <1>5, <2>1, <2>2 DEF EvictOne
  <2>3. CASE IdleSet # {}
    <3>1. PICK k \in Keys : /\ idles[k] # <<>>
                            /\ toDelete' = [toDelete EXCEPT ![p] = Append(@, Head(idles[k]))]
                            /\ \/ seen' = [seen EXCEPT ![p] = 0] /\ pc' = [pc EXCEPT ![p] = "send"]
                               \/ UNCHANGED <<seen, pc>>
      BY <1>5, <2>3 DEF EvictOne, LongestUnused
    <3>2. Append(toDelete[p], Head(idles[k])) \in Seq(IPs) /\ Append(toDelete[p], Head(idles[k])) # <<>>
      BY <3>1, TailType, AppendType DEF IdlesType
    <3> DEFINE longer == Append(toDelete[p], Head(idles[k]))
    <3> HIDE DEF longer
    <3>3. toDelete' = [toDelete EXCEPT ![p] = longer] /\ longer \in Seq(IPs) /\ longer # <<>>
      BY <3>1, <3>2 DEF longer
    <3>4. CASE seen' = [seen EXCEPT ![p] = 0] /\ pc' = [pc EXCEPT ![p] = "send"]
      BY <2>1, <3>3, <3>4
    <3>5. CASE UNCHANGED <<seen, pc>>
      BY <2>1, <3>3, <3>5
    <3> QED
      BY <3>1, <3>4, <3>5
  <2> QED
    BY <2>2, <2>3
<1>6. CASE Send(p)
  <2>1. /\ UNCHANGED <<key, mem, seen, ctr>> /\ pc[p] = "send"
        /\ toDelete' = [toDelete EXCEPT ![p] = Tail(@)]
        /\ pc' = [pc EXCEPT ![p] = IF Len(toDelete[p]) = 1 THEN "prewarm" ELSE "send"]
    BY <1>6 DEF Send
  <2>2. toDelete[p] \in Seq(IPs) /\ toDelete[p] # <<>>
    BY <2>1
  <2>3. Tail(toDelete[p]) \in Seq(IPs) /\ Len(Tail(toDelete[p])) = Len(toDelete[p]) - 1
    BY <2>2, TailType
  <2>4. Len(toDelete[p]) # 1 => Tail(toDelete[p]) # <<>>
    BY <2>2, TailLeft
  <2> QED
    BY <2>1, <2>3, <2>4
<1>7. CASE TakePrewarm(p)
  <2>1. UNCHANGED <<key, mem, seen, toDelete>> /\ pc[p] = "prewarm" /\ key[p] \in Keys
    BY <1>7 DEF TakePrewarm
  <2>2. PrewarmKey[key[p]] \in PrewarmKeys
    BY <2>1, KeyAssumption
  <2>3. \/ /\ prewarmed[PrewarmKey[key[p]]] # <<>> /\ pc' = [pc EXCEPT ![p] = "poke"]
           /\ ctr' = [ctr EXCEPT ![p] = Head(prewarmed[PrewarmKey[key[p]]])]
        \/ pc' = [pc EXCEPT ![p] = "create"] /\ UNCHANGED ctr
    BY <1>7 DEF TakePrewarm
  <2>4. prewarmed[PrewarmKey[key[p]]] # <<>> => Head(prewarmed[PrewarmKey[key[p]]]) \in IPs
    BY <2>2, TailType DEF PrewarmType
  <2> QED
    BY <2>1, <2>3, <2>4
<1>8. CASE Poke(p)
  BY <1>8 DEF Poke
<1>9. CASE Create(p)
  <2>1. UNCHANGED <<key, mem, seen, toDelete>> /\ pc[p] = "create"
    BY <1>9 DEF Create
  <2>2. \/ \E c \in IPs : ctr' = [ctr EXCEPT ![p] = c] /\ pc' = [pc EXCEPT ![p] = "creating"]
        \/ pc' = [pc EXCEPT ![p] = "uncount"] /\ UNCHANGED ctr
    BY <1>9 DEF Create, ContainersType
  <2> QED
    BY <2>1, <2>2
<1>10. CASE Created(p)
  BY <1>10 DEF Created, CleanupContainer
<1>11. CASE Unpause(p)
  BY <1>11 DEF Unpause
<1>12. CASE Firewall(p)
  BY <1>12 DEF Firewall, AfterFirewall
<1>13. CASE Initialize(p)
  BY <1>13 DEF Initialize
<1>14. CASE PutToDestroy(p)
  BY <1>14 DEF PutToDestroy, ContainersType
<1>15. CASE Put(p)
  BY <1>15 DEF Put, ContainersType
<1>16. CASE PutIdle(p)
  BY <1>16 DEF PutIdle
<1>17. CASE Uncount(p)
  BY <1>17 DEF Uncount
<1>18. CASE Release(p)
  BY <1>18 DEF Release
<1> QED
  BY <1>1, <1>2, <1>3, <1>4, <1>5, <1>6, <1>7, <1>8, <1>9, <1>10, <1>11, <1>12, <1>13, <1>14, <1>15, <1>16, <1>17, <1>18 DEF Invocation

(* The semaphore and its waiters.                                              *)
LEMMA CapacityTypes ==
  ASSUME TypeInv, NEW p \in Callers, OnCapacity(p)
  PROVE  CapacityType'
<1> USE DEF TypeInv, TypeOK, CapacityType, CallersType
<1>1. ASSUME NEW k \in Keys, Get(p, k) PROVE CapacityType'
  <2>1. MemoryOf(k) \in Nat
    BY KeyAssumption DEF MemoryOf
  <2>2. Append(waiters, p) \in Seq(Callers)
    BY AppendType
  <2>3. /\ UNCHANGED inFlightMemory
        /\ inFlight' = inFlight + MemoryOf(k) \/ UNCHANGED inFlight
        /\ waiters' = Append(waiters, p) \/ UNCHANGED waiters
    BY <1>1 DEF Get, Acquire, semVars
  <2>4. inFlight' \in Int /\ inFlightMemory' \in Int
    BY <2>1, <2>3
  <2>5. waiters' \in Seq(Callers)
    BY <2>2, <2>3
  <2> QED
    BY <2>4, <2>5
<1>2. CASE Count(p) \/ Uncount(p) \/ Release(p)
  BY <1>2 DEF Count, Uncount, Release, semVars
<1> QED
  BY <1>1, <1>2 DEF OnCapacity

(* An invocation that waits for the semaphore does nothing, and whoever joins   *)
(* the queue was in none of its places.                                         *)
LEMMA WaitersStep ==
  ASSUME TypeInv, NEW p \in Callers, (\E k \in Keys : Get(p, k)) \/ Invocation(p)
  PROVE  WaitersOK'
<1> USE DEF TypeInv, TypeOK, CapacityType, CallersType, Goto
<1>1. pc[p] # "wait" /\ \A q \in Callers \ {p} : pc'[q] = pc[q]
  <2>1. ASSUME NEW k \in Keys, Get(p, k) PROVE pc[p] # "wait" /\ \A q \in Callers \ {p} : pc'[q] = pc[q]
    BY <2>1 DEF Get, Acquire
  <2>2. CASE Count(p) \/ LookupWarm(p) \/ LookupCold(p) \/ EvictOne(p) \/ Send(p) \/ TakePrewarm(p)
             \/ Poke(p) \/ Create(p)
    BY <2>2 DEF Count, LookupWarm, LookupCold, EvictOne, Send, TakePrewarm, Poke, Create
  <2>3. CASE Created(p) \/ Unpause(p) \/ Firewall(p) \/ Initialize(p) \/ PutToDestroy(p) \/ Put(p)
             \/ PutIdle(p) \/ Uncount(p) \/ Release(p)
    BY <2>3 DEF Created, Unpause, Firewall, Initialize, PutToDestroy, Put, PutIdle, Uncount, Release
  <2> QED
    BY <2>1, <2>2, <2>3 DEF Invocation
<1>2. \A i \in DOMAIN waiters : waiters[i] \in Callers /\ waiters[i] # p
  BY <1>1 DEF WaitersOK
<1>3. CASE UNCHANGED waiters
  BY <1>1, <1>2, <1>3 DEF WaitersOK
<1>4. CASE waiters' = Append(waiters, p) /\ pc'[p] = "wait"
  <2>1. \A i \in DOMAIN waiters' : \/ i \in DOMAIN waiters /\ waiters'[i] = waiters[i]
                                   \/ i = Len(waiters) + 1 /\ waiters'[i] = p
    BY <1>4
  <2>2. \A i \in DOMAIN waiters' : pc'[waiters'[i]] = "wait"
    BY <1>1, <1>2, <1>4, <2>1 DEF WaitersOK
  <2>3. \A i, j \in DOMAIN waiters' : waiters'[i] = waiters'[j] => i = j
    BY <1>2, <2>1 DEF WaitersOK
  <2> QED
    BY <2>2, <2>3 DEF WaitersOK
<1>5. UNCHANGED waiters \/ (waiters' = Append(waiters, p) /\ pc'[p] = "wait")
  <2>1. ASSUME NEW k \in Keys, Get(p, k) PROVE UNCHANGED waiters \/ (waiters' = Append(waiters, p) /\ pc'[p] = "wait")
    BY <2>1 DEF Get, Acquire, semVars
  <2>2. CASE Invocation(p)
    <3>1. CASE OnCapacity(p)
      BY <2>1, <3>1 DEF OnCapacity, Count, Uncount, Release, semVars
    <3>2. CASE Send(p) \/ Put(p)
      BY <3>2 DEF Send, Put, semVars
    <3> QED
      BY <2>2, <3>1, <3>2, InvocationSteps, OnIdlesFrame, OnPrewarmedFrame, OnContainerFrame DEF semVars
  <2> QED
    BY <2>1, <2>2
<1> QED
  BY <1>3, <1>4, <1>5

(* The semaphore wakes a waiter, which was in Get.                              *)
LEMMA GrantTypes ==
  ASSUME TypeInv, Grant
  PROVE  CapacityType' /\ CallersType' /\ (\A q \in Callers : CallerOK(q)') /\ WaitersOK'
<1> USE DEF TypeInv, TypeOK, CapacityType, CallersType
<1>1. PICK p : /\ p = Head(waiters) /\ waiters # <<>> /\ waiters' = Tail(waiters)
               /\ inFlight' = inFlight + mem[p] /\ pc' = [pc EXCEPT ![p] = "count"]
               /\ UNCHANGED <<key, mem, seen, ctr, toDelete, inFlightMemory>>
  BY DEF Grant, Goto
<1>2. p \in Callers /\ waiters' \in Seq(Callers)
  BY <1>1, TailType
<1>3. CapacityType'
  BY <1>1, <1>2
<1>4. CallersType'
  BY <1>1, <1>2 DEF Locations
<1>5. p = waiters[1] /\ 1 \in DOMAIN waiters
  BY <1>1
<1>6. pc[p] = "wait" /\ key[p] \in Keys
  BY <1>2, <1>5 DEF WaitersOK, CallerOK
<1>7. \A q \in Callers : CallerOK(q)'
  BY <1>1, <1>2, <1>6 DEF CallerOK
<1>8. WaitersOK'
  <2>1. \A i \in DOMAIN waiters' : /\ i + 1 \in DOMAIN waiters /\ i + 1 # 1 /\ i \in Int
                                   /\ waiters'[i] = waiters[i + 1] /\ waiters[i + 1] \in Callers
    <3>1. Len(waiters') = Len(waiters) - 1 /\ \A i \in 1..Len(waiters') : waiters'[i] = waiters[i + 1]
      BY <1>1, HeadTailProperties
    <3>2. DOMAIN waiters = 1..Len(waiters) /\ DOMAIN waiters' = 1..Len(waiters') /\ Len(waiters) \in Nat
      BY <1>2
    <3> TAKE i \in DOMAIN waiters'
    <3>3. i \in 1..(Len(waiters) - 1)
      BY <3>1, <3>2
    <3>4. i + 1 \in DOMAIN waiters /\ i + 1 # 1 /\ i \in Int
      <4>1. ASSUME NEW n \in Nat, i \in 1..(n - 1) PROVE i + 1 \in 1..n /\ i + 1 # 1 /\ i \in Int
        BY <4>1
      <4> QED
        BY <3>2, <3>3, <4>1
    <3> QED
      BY <3>1, <3>3, <3>4
  <2>2. \A i \in DOMAIN waiters' : waiters'[i] # p
    BY <1>5, <2>1 DEF WaitersOK
  <2>3. \A i \in DOMAIN waiters' : pc'[waiters'[i]] = "wait"
    BY <1>1, <2>1, <2>2 DEF WaitersOK
  <2>4. \A i, j \in DOMAIN waiters' : waiters'[i] = waiters'[j] => i + 1 = j + 1
    BY <2>1 DEF WaitersOK
  <2> QED
    BY <2>1, <2>3, <2>4 DEF WaitersOK
<1> QED
  BY <1>3, <1>4, <1>7, <1>8

(* A container leaves an idle list at its head.                                 *)
LEMMA DropHeadTypes ==
  ASSUME TypeOK, NEW k \in Keys, idles[k] # <<>>, DropHead(k)
  PROVE  /\ idles' \in [Keys -> Seq(IPs)] /\ idlesMemory' \in Int
         /\ older' \in SUBSET (IPs \X IPs) /\ Head(idles[k]) \in IPs
<1> USE DEF TypeOK, IdlesType, ContainersType
<1>1. Tail(idles[k]) \in Seq(IPs) /\ Head(idles[k]) \in IPs
  BY TailType
<1> QED
  BY <1>1 DEF DropHead, Unstamped

(* The idle lists, their memory and the order of the stamps.                    *)
LEMMA IdlesTypes ==
  ASSUME TypeInv, NEW p \in Callers, OnIdles(p) \/ Put(p)
  PROVE  IdlesType'
<1> USE DEF TypeInv, TypeOK, IdlesType, CallersType, ContainersType, CallerOK
<1>1. CASE LookupWarm(p)
  <2>1. key[p] \in Keys /\ idles[key[p]] # <<>>
    BY <1>1 DEF LookupWarm
  <2>2. /\ SubSeq(idles[key[p]], 1, Len(idles[key[p]]) - 1) \in Seq(IPs)
        /\ idles[key[p]][Len(idles[key[p]])] \in IPs
    BY <2>1, FrontType
  <2> QED
    BY <1>1, <2>1, <2>2 DEF LookupWarm, Unstamped
<1>2. CASE LookupCold(p)
  BY <1>2 DEF LookupCold
<1>3. CASE EvictOne(p)
  <2>1. CASE IdleSet = {}
    BY <1>3, <2>1 DEF EvictOne, idleVars
  <2>2. CASE IdleSet # {}
    <3>1. PICK k \in Keys : /\ idles[k] # <<>> /\ DropHead(k)
                            /\ idlesMux' \in {Unlocked, idlesMux}
      BY <1>3, <2>2 DEF EvictOne, LongestUnused
    <3> QED
      BY <3>1, DropHeadTypes
  <2> QED
    BY <2>1, <2>2
<1>4. CASE Put(p)
  <2>1. \A q \in Callers : pc[q] = "append" => ctr[q] \in IPs
    OBVIOUS
  <2>2. Stamped \subseteq IPs
    BY <2>1, IdleSetType DEF Stamped
  <2>3. ctr[p] \in IPs
    BY <1>4 DEF Put
  <2> QED
    BY <1>4, <2>2, <2>3 DEF Put, StampedLast, Unstamped
<1>5. CASE PutIdle(p)
  <2>1. ctr[p] \in IPs
    BY <1>5 DEF PutIdle
  <2>2. \A k \in Keys : Append(idles[k], ctr[p]) \in Seq(IPs)
    BY <2>1, AppendType
  <2>3. CASE initializedFor[ctr[p]] \in Keys
    BY <1>5, <2>1, <2>2, <2>3 DEF PutIdle
  <2>4. CASE initializedFor[ctr[p]] \notin Keys
    <3> DEFINE longer == Append(idles[initializedFor[ctr[p]]], ctr[p])
    <3> HIDE DEF longer
    <3>1. idles' = [idles EXCEPT ![initializedFor[ctr[p]]] = longer]
      BY <1>5 DEF PutIdle, longer
    <3>2. idles' \in [Keys -> Seq(IPs)]
      BY <2>4, <3>1
    <3> QED
      BY <1>5, <2>1, <3>2 DEF PutIdle
  <2> QED
    BY <2>3, <2>4
<1> QED
  BY <1>1, <1>2, <1>3, <1>4, <1>5 DEF OnIdles

(* The reaper and Shutdown on the idle lists.                                   *)
LEMMA ReapTypes ==
  ASSUME TypeInv, ReapLock \/ ReapCollect \/ ReapUnlock \/ ShutdownIdle
  PROVE  IdlesType'
<1> USE DEF TypeInv, TypeOK, IdlesType
<1>1. CASE ReapLock \/ ReapUnlock
  BY <1>1 DEF ReapLock, ReapUnlock
<1>2. CASE ReapCollect
  <2>1. PICK k \in Keys : idles[k] # <<>> /\ DropHead(k) /\ UNCHANGED idlesMux
    BY <1>2 DEF ReapCollect, Reapable
  <2> QED
    BY <2>1, DropHeadTypes
<1>3. CASE ShutdownIdle
  <2>1. PICK k \in Keys : /\ idles[k] # <<>> /\ idles' = [idles EXCEPT ![k] = Tail(@)]
                          /\ older' = Unstamped(Head(idles[k])) /\ UNCHANGED <<idlesMux, idlesMemory>>
    BY <1>3 DEF ShutdownIdle
  <2>2. Tail(idles[k]) \in Seq(IPs)
    BY <2>1, TailType
  <2> QED
    BY <2>1, <2>2 DEF Unstamped
<1> QED
  BY <1>1, <1>2, <1>3

(* The prewarm lists and the reconciler.                                        *)
LEMMA PrewarmTypes ==
  ASSUME TypeInv,
         (\E p \in Callers : OnPrewarmed(p)) \/ Reconciler \/ ShutdownPrewarmed
  PROVE  PrewarmType' /\ (reconciler' = "creating" => creating' \in [pk : PrewarmKeys, c : IPs])
<1> USE DEF TypeInv, TypeOK, PrewarmType
<1>1. ASSUME NEW p \in Callers, TakePrewarm(p) PROVE PrewarmType' /\ UNCHANGED <<reconciler, creating>>
  <2>1. key[p] \in Keys
    BY <1>1 DEF TakePrewarm, CallerOK
  <2>2. PrewarmKey[key[p]] \in PrewarmKeys
    BY <2>1, KeyAssumption
  <2>3. prewarmed[PrewarmKey[key[p]]] # <<>> => Tail(prewarmed[PrewarmKey[key[p]]]) \in Seq(IPs)
    BY <2>2, TailType
  <2> QED
    BY <1>1, <2>2, <2>3 DEF TakePrewarm
<1>2. ASSUME NEW p \in Callers, Poke(p) PROVE PrewarmType' /\ UNCHANGED <<reconciler, creating>>
  BY <1>2 DEF Poke, Poked
<1>3. CASE ReconcilePlan
  <2>1. \A pk \in PrewarmKeys : Stemcells[pk] - Len(prewarmed[pk]) \in Int
    BY KeyAssumption
  <2>2. prewarmPoke' \in BOOLEAN /\ necessary' \in [PrewarmKeys -> Int]
    BY <1>3, <2>1 DEF ReconcilePlan
  <2> QED
    BY <1>3, <2>2 DEF ReconcilePlan
<1>4. ASSUME Retry PROVE /\ prewarmPoke' \in BOOLEAN /\ reconciler' = "waiting"
                         /\ necessary' \in [PrewarmKeys -> Int]
  <2>1. prewarmPoke' = TRUE \/ prewarmPoke' = prewarmPoke
    BY <1>4 DEF Retry, Poked
  <2>2. prewarmPoke' \in BOOLEAN
    BY <2>1
  <2> QED
    BY <1>4, <2>2 DEF Retry
<1>5. CASE PrewarmCreate
  <2>1. UNCHANGED prewarmed
    BY <1>5 DEF PrewarmCreate
  <2>2. CASE Retry /\ UNCHANGED creating
    BY <1>4, <2>1, <2>2
  <2>3. CASE /\ \E pk \in PrewarmKeys, c \in IPs : creating' = [pk |-> pk, c |-> c]
             /\ reconciler' = "creating" /\ UNCHANGED <<prewarmPoke, necessary>>
    BY <2>1, <2>3
  <2> QED
    BY <1>5, <2>2, <2>3 DEF PrewarmCreate, ContainersType
<1>6. CASE PrewarmCreated
  <2>1. creating.pk \in PrewarmKeys /\ creating.c \in IPs
    BY <1>6 DEF PrewarmCreated
  <2>2. Append(prewarmed[creating.pk], creating.c) \in Seq(IPs)
    BY <2>1, AppendType
  <2>3. CASE Retry /\ UNCHANGED prewarmed
    BY <1>4, <1>6, <2>3 DEF PrewarmCreated
  <2>4. CASE /\ prewarmed' = [prewarmed EXCEPT ![creating.pk] = Append(@, creating.c)]
             /\ necessary' = [necessary EXCEPT ![creating.pk] = @ - 1]
             /\ reconciler' = "planned" /\ UNCHANGED prewarmPoke
    BY <1>6, <2>1, <2>2, <2>4 DEF PrewarmCreated
  <2> QED
    BY <1>6, <2>3, <2>4 DEF PrewarmCreated
<1>7. CASE ReconcileDone \/ ReconcilerStop
  BY <1>7 DEF ReconcileDone, ReconcilerStop
<1>8. CASE ShutdownPrewarmed
  <2>1. PICK pk \in PrewarmKeys : prewarmed[pk] # <<>> /\ prewarmed' = [prewarmed EXCEPT ![pk] = Tail(@)]
    BY <1>8 DEF ShutdownPrewarmed
  <2>2. Tail(prewarmed[pk]) \in Seq(IPs)
    BY <2>1, TailType
  <2> QED
    BY <1>8, <2>1, <2>2 DEF ShutdownPrewarmed
<1> QED
  BY <1>1, <1>2, <1>3, <1>5, <1>6, <1>7, <1>8 DEF OnPrewarmed, Reconciler

(* The evicted containers and those the reaper has collected.                   *)
LEMMA DeletionTypes ==
  ASSUME TypeInv,
         (\E p \in Callers : Send(p)) \/ Deleter \/ ReapLock \/ Reap \/ ReaperStop
  PROVE  DeletionType'
<1> USE DEF TypeInv, TypeOK, DeletionType
<1>1. ASSUME NEW p \in Callers, Send(p) PROVE DeletionType'
  <2>1. Head(toDelete[p]) \in IPs
    BY <1>1, TailType DEF Send, CallerOK, CallersType
  <2>2. /\ Append(deleteForSpace, Head(toDelete[p])) \in Seq(IPs)
        /\ Len(Append(deleteForSpace, Head(toDelete[p]))) = Len(deleteForSpace) + 1
        /\ Len(deleteForSpace) \in Nat
    BY <2>1, AppendType
  <2> DEFINE longer == Append(deleteForSpace, Head(toDelete[p]))
  <2> HIDE DEF longer
  <2>3. deleteForSpace' = longer /\ longer \in Seq(IPs) /\ Len(longer) = Len(deleteForSpace) + 1
    BY <1>1, <2>2 DEF Send, longer
  <2> QED
    BY <1>1, <2>2, <2>3, BoundAssumption DEF Send, reapVars
<1>2. CASE DeleterReceive
  <2>1. /\ Tail(deleteForSpace) \in Seq(IPs) /\ Head(deleteForSpace) \in IPs
        /\ Len(Tail(deleteForSpace)) = Len(deleteForSpace) - 1 /\ Len(deleteForSpace) \in Nat
    BY <1>2, TailType DEF DeleterReceive
  <2> DEFINE rest == Tail(deleteForSpace)
  <2> HIDE DEF rest
  <2>2. deleteForSpace' = rest /\ rest \in Seq(IPs) /\ Len(rest) = Len(deleteForSpace) - 1
    BY <1>2, <2>1 DEF DeleterReceive, rest
  <2> QED
    BY <1>2, <2>1, <2>2, BoundAssumption DEF DeleterReceive, reapVars
<1>3. CASE DeleterRemove \/ DeleterStop
  BY <1>3 DEF DeleterRemove, DeleterStop, reapVars
<1>4. CASE ReapLock
  BY <1>4, IdleSetType DEF ReapLock, AgedSets, deleteVars
<1>5. CASE ReapCollect
  <2>1. PICK k \in Keys : idles[k] # <<>> /\ toReap' = toReap \cup {Head(idles[k])}
    BY <1>5 DEF ReapCollect, Reapable
  <2>2. Head(idles[k]) \in IPs
    BY <2>1, TailType DEF IdlesType
  <2> QED
    BY <1>5, <2>1, <2>2 DEF ReapCollect, deleteVars
<1>6. CASE ReapUnlock \/ ReapRemove \/ ReapDone \/ ReaperStop
  BY <1>6 DEF ReapUnlock, ReapRemove, ReapDone, ReaperStop, deleteVars
<1> QED
  BY <1>1, <1>2, <1>3, <1>4, <1>5, <1>6 DEF Deleter, Reap

(* What removing a container, with or without a failure, does to its fields.    *)
LEMMA RemoveTypes ==
  ASSUME TypeOK, NEW c \in IPs, Remove(c) \/ CleanupContainer(c)
  PROVE  /\ usableIPs' \in SUBSET IPs /\ leaked' \in SUBSET IPs /\ firewalled' \in SUBSET IPs
         /\ memory' \in [IPs -> Nat] /\ initializedFor' \in [IPs -> Keys \cup {NoKey}]
         /\ loaded' \in [IPs -> Keys \cup {NoKey}] /\ faults' \in 0..MaxFaults
<1> USE DEF TypeOK, ContainersType
<1>1. Removed(c) \/ Leaked(c)
  BY DEF Remove, CleanupContainer
<1>2. faults' = faults \/ (faults < MaxFaults /\ faults' = faults + 1)
  BY DEF Remove, CleanupContainer, Fault
<1>3. faults' \in 0..MaxFaults
  BY <1>2, BoundAssumption DEF EnvironmentType
<1>4. CASE Removed(c)
  BY <1>3, <1>4 DEF Removed, Forgotten
<1>5. CASE Leaked(c)
  BY <1>3, <1>5 DEF Leaked, Forgotten
<1> QED
  BY <1>1, <1>4, <1>5

(* The containers while an invocation has them.                                 *)
LEMMA ContainerTypes ==
  ASSUME TypeInv, NEW p \in Callers, OnContainer(p) \/ Put(p)
  PROVE  ContainersType' /\ faults' \in 0..MaxFaults
<1> USE DEF TypeInv, TypeOK, ContainersType
<1>1. faults \in 0..MaxFaults
  BY DEF EnvironmentType
<1>2. CASE Create(p)
  BY <1>1, <1>2 DEF Create, envVars
<1>3. CASE Created(p)
  <2>1. ctr[p] \in IPs /\ mem[p] \in Nat /\ key[p] \in Keys /\ UNCHANGED pausing
    BY <1>3 DEF Created, CallerOK, CallersType
  <2>2. CASE CleanupContainer(ctr[p])
    BY <2>1, <2>2, RemoveTypes
  <2>3. CASE ~CleanupContainer(ctr[p])
    BY <1>1, <1>3, <2>1, <2>3 DEF Created, Provisioned
  <2> QED
    BY <2>2, <2>3
<1>4. CASE Unpause(p)
  <2>1. ctr[p] \in IPs /\ pausing' \in SUBSET IPs
    BY <1>4 DEF Unpause, CallerOK, CallersType, UnpauseIfNeeded
  <2>2. CASE CleanupContainer(ctr[p])
    BY <2>1, <2>2, RemoveTypes
  <2>3. CASE ~CleanupContainer(ctr[p])
    BY <1>1, <1>4, <2>1, <2>3 DEF Unpause
  <2> QED
    BY <2>2, <2>3
<1>5. CASE Firewall(p)
  <2>1. ctr[p] \in IPs /\ key[p] \in Keys /\ UNCHANGED pausing
    BY <1>5 DEF Firewall, CallerOK
  <2>2. CASE CleanupContainer(ctr[p])
    BY <2>1, <2>2, RemoveTypes
  <2>3. CASE ~CleanupContainer(ctr[p])
    <3>1. /\ firewalled' = firewalled \cup {ctr[p]} \/ firewalled' = firewalled \ {ctr[p]}
          /\ initializedFor' = [initializedFor EXCEPT ![ctr[p]] = IF pc[p] = "fwPrewarm" THEN key[p] ELSE @]
          /\ UNCHANGED <<usableIPs, leaked, memory, loaded, faults>>
      BY <1>5, <2>3 DEF Firewall
    <3> QED
      BY <1>1, <2>1, <3>1
  <2> QED
    BY <2>2, <2>3
<1>6. CASE Initialize(p)
  BY <1>1, <1>6 DEF Initialize, CallerOK, envVars
<1>7. CASE PutToDestroy(p)
  <2>1. ctr[p] \in IPs /\ Remove(ctr[p]) /\ UNCHANGED pausing
    BY <1>7 DEF PutToDestroy, CallerOK
  <2> QED
    BY <2>1, RemoveTypes
<1>8. CASE Put(p)
  BY <1>1, <1>8 DEF Put, CallerOK, envVars
<1> QED
  BY <1>2, <1>3, <1>4, <1>5, <1>6, <1>7, <1>8 DEF OnContainer

(* The containers in the hands of the background goroutines and of Shutdown.    *)
LEMMA BackgroundTypes ==
  ASSUME TypeInv, Deleter \/ ReapLock \/ Reap \/ ReaperStop \/ Reconciler \/ Shutdown \/ ShutDown
  PROVE  ContainersType' /\ faults' \in 0..MaxFaults
<1> USE DEF TypeInv, TypeOK, ContainersType
<1>1. faults \in 0..MaxFaults
  BY DEF EnvironmentType
<1>2. ASSUME NEW c \in IPs, UnpauseAndRemove(c) PROVE ContainersType' /\ faults' \in 0..MaxFaults
  BY <1>2, RemoveTypes DEF UnpauseAndRemove, UnpauseIfNeeded
<1>3. CASE DeleterRemove
  BY <1>2, <1>3 DEF DeleterRemove
<1>4. CASE ReapRemove
  BY <1>2, <1>4 DEF ReapRemove, DeletionType
<1>5. CASE PrewarmCreate
  BY <1>1, <1>5 DEF PrewarmCreate
<1>6. CASE PrewarmCreated
  <2>1. creating.pk \in PrewarmKeys /\ creating.c \in IPs /\ UNCHANGED pausing
    BY <1>6 DEF PrewarmCreated
  <2>2. Memory[creating.pk] \in Nat
    BY <2>1, KeyAssumption
  <2>3. CASE CleanupContainer(creating.c)
    BY <2>1, <2>3, RemoveTypes
  <2>4. CASE ~CleanupContainer(creating.c)
    BY <1>1, <1>6, <2>1, <2>2, <2>4 DEF PrewarmCreated, Provisioned
  <2> QED
    BY <2>3, <2>4
<1>7. CASE ShutdownIdle
  <2>1. PICK k \in Keys : idles[k] # <<>> /\ UnpauseAndRemove(Head(idles[k]))
    BY <1>7 DEF ShutdownIdle
  <2>2. Head(idles[k]) \in IPs
    BY <2>1, TailType DEF IdlesType
  <2> QED
    BY <1>2, <2>1, <2>2
<1>8. CASE ShutdownPrewarmed
  <2>1. PICK pk \in PrewarmKeys : prewarmed[pk] # <<>> /\ Remove(Head(prewarmed[pk])) /\ UNCHANGED pausing
    BY <1>8 DEF ShutdownPrewarmed
  <2>2. Head(prewarmed[pk]) \in IPs
    BY <2>1, TailType DEF PrewarmType
  <2> QED
    BY <2>1, <2>2, RemoveTypes
<1>9. CASE UNCHANGED ctrVars /\ UNCHANGED faults
  BY <1>1, <1>9 DEF ctrVars
<1>10. CASE DeleterReceive \/ DeleterStop \/ ReapLock \/ ReapCollect \/ ReapUnlock \/ ReapDone
            \/ ReaperStop \/ ReconcilePlan \/ ReconcileDone \/ ReconcilerStop \/ Shutdown
            \/ ShutdownWait \/ ShutdownDone
  <2>1. UNCHANGED ctrVars /\ UNCHANGED faults
    BY <1>10 DEF DeleterReceive, DeleterStop, ReapLock, ReapCollect, ReapUnlock, ReapDone, ReaperStop,
                 ReconcilePlan, ReconcileDone, ReconcilerStop, Shutdown, ShutdownWait, ShutdownDone,
                 envVars
  <2> QED
    BY <1>9, <2>1
<1> QED
  BY <1>3, <1>4, <1>5, <1>6, <1>7, <1>8, <1>10 DEF Deleter, Reap, Reconciler, ShutDown

(* A frame keeps the types of the variables in it.                              *)
LEMMA FrameTypes ==
  ASSUME TypeInv
  PROVE  /\ UNCHANGED <<callerVars, semVars>> =>
              CallersType' /\ WaitersOK' /\ \A q \in Callers : CallerOK(q)'
         /\ UNCHANGED <<semVars, inFlightMemory>> => CapacityType'
         /\ UNCHANGED idleVars => IdlesType'
         /\ UNCHANGED prewarmVars =>
              PrewarmType' /\ (reconciler' = "creating" => creating' \in [pk : PrewarmKeys, c : IPs])
         /\ UNCHANGED <<deleteVars, reapVars>> => DeletionType'
         /\ UNCHANGED <<ctrVars, faults>> => ContainersType' /\ faults' \in 0..MaxFaults
<1> USE DEF TypeInv, TypeOK
<1>1. UNCHANGED <<callerVars, semVars>> => CallersType' /\ WaitersOK' /\ \A q \in Callers : CallerOK(q)'
  BY DEF callerVars, semVars, CallersType, WaitersOK, CallerOK
<1>2. UNCHANGED <<semVars, inFlightMemory>> => CapacityType'
  BY DEF semVars, CapacityType
<1>3. UNCHANGED idleVars => IdlesType'
  BY DEF idleVars, IdlesType
<1>4. UNCHANGED prewarmVars =>
        PrewarmType' /\ (reconciler' = "creating" => creating' \in [pk : PrewarmKeys, c : IPs])
  BY DEF prewarmVars, PrewarmType
<1>5. UNCHANGED <<deleteVars, reapVars>> => DeletionType'
  BY DEF deleteVars, reapVars, DeletionType
<1>6. UNCHANGED <<ctrVars, faults>> => ContainersType' /\ faults' \in 0..MaxFaults
  BY DEF ctrVars, ContainersType, EnvironmentType
<1> QED
  BY <1>1, <1>2, <1>3, <1>4, <1>5, <1>6

(* Only Shutdown moves the phase, and only a retry of the reconciler panics.    *)
LEMMA PhaseTypes ==
  ASSUME TypeInv, Next
  PROVE  phase' \in {"running", "closing", "deleting", "down"} /\ panicked' \in BOOLEAN
<1>1. phase \in {"running", "closing", "deleting", "down"} /\ panicked \in BOOLEAN
  BY DEF TypeInv, TypeOK, EnvironmentType
<1>2. ASSUME NEW p \in Callers, (\E k \in Keys : Get(p, k)) \/ Invocation(p)
      PROVE  UNCHANGED phase /\ UNCHANGED panicked
  <2>1. CASE Send(p) \/ Put(p)
    BY <2>1 DEF Send, Put, envVars
  <2> QED
    BY <1>2, <2>1, InvocationSteps, OnCapacityFrame, OnIdlesFrame, OnPrewarmedFrame, OnContainerFrame
       DEF envVars
<1>3. CASE Grant \/ Deleter \/ ReapLock \/ Reap \/ ReaperStop
  <2>1. UNCHANGED phase /\ UNCHANGED panicked
    BY <1>3 DEF Grant, Deleter, DeleterReceive, DeleterRemove, DeleterStop, ReapLock, Reap, ReapCollect,
                ReapUnlock, ReapRemove, ReapDone, ReaperStop, envVars
  <2> QED
    BY <1>1, <2>1
<1>4. CASE Reconciler
  <2>1. UNCHANGED phase
    BY <1>4 DEF Reconciler, ReconcilePlan, PrewarmCreate, PrewarmCreated, ReconcileDone, ReconcilerStop,
                envVars
  <2>2. panicked' = panicked \/ panicked' = TRUE
    BY <1>4 DEF Reconciler, ReconcilePlan, PrewarmCreate, PrewarmCreated, ReconcileDone, ReconcilerStop,
                Retry, envVars
  <2>3. panicked' \in BOOLEAN
    BY <1>1, <2>2
  <2> QED
    BY <1>1, <2>1, <2>3
<1>5. CASE Shutdown \/ ShutDown
  <2>1. UNCHANGED panicked /\ phase' \in {phase, "closing", "deleting", "down"}
    BY <1>5 DEF Shutdown, ShutDown, ShutdownWait, ShutdownIdle, ShutdownPrewarmed, ShutdownDone
  <2> QED
    BY <1>1, <2>1
<1> QED
  BY <1>1, <1>2, <1>3, <1>4, <1>5 DEF Next

(* Every step of an invocation keeps the types.                                 *)
LEMMA InvocationTypes ==
  ASSUME TypeInv, NEW p \in Callers, (\E k \in Keys : Get(p, k)) \/ Invocation(p)
  PROVE  /\ CapacityType' /\ IdlesType' /\ DeletionType' /\ ContainersType' /\ faults' \in 0..MaxFaults
         /\ PrewarmType' /\ (reconciler' = "creating" => creating' \in [pk : PrewarmKeys, c : IPs])
<1>1. CASE OnCapacity(p)
  BY <1>1, OnCapacityFrame, CapacityTypes, FrameTypes DEF envVars
<1>2. CASE OnIdles(p)
  BY <1>2, OnIdlesFrame, IdlesTypes, FrameTypes DEF envVars
<1>3. CASE OnPrewarmed(p)
  BY <1>3, OnPrewarmedFrame, PrewarmTypes, FrameTypes DEF envVars
<1>4. CASE OnContainer(p)
  BY <1>4, OnContainerFrame, ContainerTypes, FrameTypes
<1>5. CASE Send(p)
  <2>1. UNCHANGED <<semVars, inFlightMemory, idleVars, prewarmVars, ctrVars, faults>>
    BY <1>5 DEF Send, envVars
  <2> QED
    BY <1>5, <2>1, DeletionTypes, FrameTypes
<1>6. CASE Put(p)
  <2>1. UNCHANGED <<semVars, inFlightMemory, prewarmVars, deleteVars, reapVars>>
    BY <1>6 DEF Put
  <2> QED
    BY <1>6, <2>1, IdlesTypes, ContainerTypes, FrameTypes
<1> QED
  BY <1>1, <1>2, <1>3, <1>4, <1>5, <1>6, InvocationSteps

(* And every step of the background goroutines and of Shutdown.                 *)
LEMMA BackgroundStep ==
  ASSUME TypeInv, Deleter \/ ReapLock \/ Reap \/ ReaperStop \/ Reconciler \/ Shutdown \/ ShutDown
  PROVE  /\ IdlesType' /\ DeletionType'
         /\ PrewarmType' /\ (reconciler' = "creating" => creating' \in [pk : PrewarmKeys, c : IPs])
<1>1. CASE Deleter
  <2>1. UNCHANGED <<idleVars, prewarmVars>>
    BY <1>1 DEF Deleter, DeleterReceive, DeleterRemove, DeleterStop
  <2> QED
    BY <1>1, <2>1, DeletionTypes, FrameTypes
<1>2. CASE ReapLock \/ Reap \/ ReaperStop
  <2>1. UNCHANGED prewarmVars
    BY <1>2 DEF ReapLock, Reap, ReapCollect, ReapUnlock, ReapRemove, ReapDone, ReaperStop
  <2>2. CASE ReapRemove \/ ReapDone \/ ReaperStop
    <3>1. UNCHANGED idleVars
      BY <2>2 DEF ReapRemove, ReapDone, ReaperStop
    <3> QED
      BY <1>2, <2>1, <3>1, DeletionTypes, FrameTypes
  <2>3. CASE ReapLock \/ ReapCollect \/ ReapUnlock
    BY <1>2, <2>1, <2>3, DeletionTypes, ReapTypes, FrameTypes
  <2> QED
    BY <1>2, <2>2, <2>3 DEF Reap
<1>3. CASE Reconciler
  <2>1. UNCHANGED <<idleVars, deleteVars, reapVars>>
    BY <1>3 DEF Reconciler, ReconcilePlan, PrewarmCreate, PrewarmCreated, ReconcileDone, ReconcilerStop
  <2> QED
    BY <1>3, <2>1, PrewarmTypes, FrameTypes
<1>4. CASE Shutdown \/ ShutdownWait \/ ShutdownDone
  <2>1. UNCHANGED <<idleVars, prewarmVars, deleteVars, reapVars>>
    BY <1>4 DEF Shutdown, ShutdownWait, ShutdownDone
  <2> QED
    BY <2>1, FrameTypes
<1>5. CASE ShutdownIdle
  <2>1. UNCHANGED <<prewarmVars, deleteVars, reapVars>>
    BY <1>5 DEF ShutdownIdle
  <2> QED
    BY <1>5, <2>1, ReapTypes, FrameTypes
<1>6. CASE ShutdownPrewarmed
  <2>1. UNCHANGED <<idleVars, deleteVars, reapVars>>
    BY <1>6 DEF ShutdownPrewarmed
  <2> QED
    BY <1>6, <2>1, PrewarmTypes, FrameTypes
<1> QED
  BY <1>1, <1>2, <1>3, <1>4, <1>5, <1>6 DEF ShutDown

--------------------------------------------------------------------------------
(* TypeInv is inductive.                                                        *)
LEMMA StepTypeInv == TypeInv /\ [Next]_vars => TypeInv'
<1> SUFFICES ASSUME TypeInv, [Next]_vars PROVE TypeInv'
  OBVIOUS
<1>1. CASE UNCHANGED vars
  <2>1. UNCHANGED <<callerVars, semVars, inFlightMemory, idleVars, prewarmVars, deleteVars, reapVars,
                    ctrVars, faults, phase, panicked>>
    BY <1>1 DEF vars, callerVars, semVars, idleVars, prewarmVars, deleteVars, reapVars, ctrVars
  <2>2. EnvironmentType'
    <3>1. panicked' \in BOOLEAN
      BY <2>1 DEF TypeInv, TypeOK, EnvironmentType
    <3> QED
      BY <2>1, <3>1 DEF TypeInv, TypeOK, EnvironmentType
  <2> QED
    BY <2>1, <2>2, FrameTypes DEF TypeInv, TypeOK
<1>2. CASE Next
  <2>1. EnvironmentType' \/ faults' \notin 0..MaxFaults
    BY <1>2, PhaseTypes DEF EnvironmentType
  <2>2. ASSUME NEW p \in Callers, (\E k \in Keys : Get(p, k)) \/ Invocation(p) PROVE TypeInv'
    BY <2>1, <2>2, CallerTypes, WaitersStep, InvocationTypes DEF TypeInv, TypeOK
  <2>3. CASE Grant
    <3>1. UNCHANGED <<idleVars, prewarmVars, deleteVars, reapVars, ctrVars, faults>>
      BY <2>3 DEF Grant, envVars
    <3> QED
      BY <2>1, <2>3, <3>1, GrantTypes, FrameTypes DEF TypeInv, TypeOK
  <2>4. CASE Deleter \/ ReapLock \/ Reap \/ ReaperStop \/ Reconciler \/ Shutdown \/ ShutDown
    <3>1. UNCHANGED <<callerVars, semVars, inFlightMemory>>
      BY <2>4, BackgroundFrame
    <3> QED
      BY <2>1, <2>4, <3>1, BackgroundStep, BackgroundTypes, FrameTypes DEF TypeInv, TypeOK
  <2> QED
    BY <1>2, <2>2, <2>3, <2>4 DEF Next
<1> QED
  BY <1>1, <1>2

(* Every reachable state of the pool, for any number of invocations, keys and   *)
(* containers, satisfies TypeInv.                                               *)
THEOREM TypeInvariance == Spec => []TypeInv
  BY InitTypeInv, StepTypeInv, PTL DEF Spec

(* The variables keep their types, and no interleaving of Gets overfills the    *)
(* buffer of evicted containers.                                                *)
THEOREM TypeCorrect == Spec => []TypeOK
<1>1. TypeInv => TypeOK
  BY DEF TypeInv
<1> QED
  BY <1>1, TypeInvariance, PTL

--------------------------------------------------------------------------------
(******************************************************************************)
(* Every container of the pool has one owner.  SoleOwner, PauseMatched and     *)
(* RulesBlockIP are proved together: they speak about the place a container is *)
(* in, and each step of the pool moves at most one container.  The inductive   *)
(* invariant says that there is an assignment of containers to places, w for   *)
(* the kind of the place and x for the list or the invocation, such that every *)
(* variable of the pool agrees with it (Placement), and that the fields of a   *)
(* container are those its place requires (Fields).                            *)
(******************************************************************************)

Kinds == {"usable", "leaked", "idle", "prewarmed", "toDelete", "deleteForSpace", "ctr", "toReap",
          "deleting", "creating"}

\* The variables that hold containers, each against the assignment.
InUsable(w)  == \A c \in IPs : w[c] = "usable" <=> c \in usableIPs
InLeaked(w)  == \A c \in IPs : w[c] = "leaked" <=> c \in leaked
InReap(w)    == \A c \in IPs : w[c] = "toReap" <=> c \in toReap
InDeleting(w) == \A c \in IPs : w[c] = "deleting" <=> c = deleting
InCreating(w) ==
  /\ creating # NoCtr <=> reconciler = "creating"
  /\ \A c \in IPs : w[c] = "creating" <=> creating # NoCtr /\ creating.c = c
InSpace(w) ==
  /\ IsInjective(deleteForSpace)
  /\ \A c \in IPs : w[c] = "deleteForSpace" <=> c \in Range(deleteForSpace)
\* A family of lists: each without repetition, and each container in the list that x says.
InLists(w, x, kind, I, lists) ==
  /\ \A i \in I : IsInjective(lists[i])
  /\ \A c \in IPs : w[c] = kind => x[c] \in I
  /\ \A c \in IPs, i \in I : w[c] = kind /\ x[c] = i <=> c \in Range(lists[i])
InIdles(w, x)     == InLists(w, x, "idle", Keys, idles)
InPrewarmed(w, x) == InLists(w, x, "prewarmed", PrewarmKeys, prewarmed)
InToDelete(w, x)  == InLists(w, x, "toDelete", Callers, toDelete)
InHands(w, x) ==
  /\ \A c \in IPs : w[c] = "ctr" => x[c] \in HasCtr /\ ctr[x[c]] = c
  /\ \A p \in HasCtr : w[ctr[p]] = "ctr" /\ x[ctr[p]] = p

Placement(w, x) ==
  /\ w \in [IPs -> Kinds] /\ DOMAIN x = IPs /\ x = [c \in IPs |-> x[c]]
  /\ InUsable(w) /\ InLeaked(w) /\ InReap(w) /\ InDeleting(w) /\ InCreating(w) /\ InSpace(w)
  /\ InIdles(w, x) /\ InPrewarmed(w, x) /\ InToDelete(w, x) /\ InHands(w, x)

\* What an invocation for k at location l has made of the container in its hands.
Loaded(l) == l \in {"unpause", "fwWarm", "run", "append"}
InHand(c, l, k) ==
  /\ l \in {"unpause", "fwWarm", "fwCold", "init", "run", "append"} => initializedFor[c] = k
  /\ l # "creating" => memory[c] = MemoryOf(k)
  /\ loaded[c] = IF Loaded(l) THEN k ELSE NoKey

\* The places where a pause is scheduled, and those where no rules may be left.
PauseAt(kind, l) == \/ kind \in {"idle", "toReap", "deleteForSpace", "deleting", "toDelete"}
                    \/ kind = "ctr" /\ l \in {"unpause", "append"}
NoRulesAt(kind, l) == \/ kind \in {"usable", "prewarmed", "creating"}
                      \/ kind = "ctr" /\ l \in {"poke", "creating", "fwPrewarm", "fwCold"}

\* The fields of container c in a place of the kind, the i-th one.
Fields(kind, i, c) ==
  /\ kind \in {"usable", "leaked", "creating", "prewarmed"} => loaded[c] = NoKey
  /\ kind = "idle" => initializedFor[c] = i /\ memory[c] = MemoryOf(i) /\ loaded[c] = i
  /\ kind = "prewarmed" => memory[c] = Memory[i]
  /\ kind = "ctr" => InHand(c, pc[i], key[i])
  /\ c \in pausing <=> PauseAt(kind, pc[i])
  /\ NoRulesAt(kind, pc[i]) => c \notin firewalled

Owned(w, x) == Placement(w, x) /\ \A c \in IPs : Fields(w[c], x[c], c)
\* An invocation asks for the memory of its function, and Put and PutToDestroy return that.
MemOK == \A p \in Callers : pc[p] # "idle" => mem[p] = MemoryOf(key[p])
OwnerInv == TypeInv /\ MemOK /\ \E w, x : Owned(w, x)

--------------------------------------------------------------------------------
(* The lists of the pool.                                                       *)

\* t, without repetition, is what is left of s when it loses c.
Shortened(t, s, c) == IsInjective(t) /\ \A d : d \in Range(t) <=> d \in Range(s) /\ d # c

(* A list without repetition loses its first container and nothing else.        *)
LEMMA TailDistinct ==
  ASSUME NEW S, NEW s \in Seq(S), s # <<>>, IsInjective(s)
  PROVE  Shortened(Tail(s), s, Head(s)) /\ Head(s) \in Range(s)
<1> DEFINE t == Tail(s)
<1>1. /\ t \in Seq(S) /\ Len(t) = Len(s) - 1 /\ Len(s) \in Nat /\ Len(s) # 0
      /\ DOMAIN t = 1..(Len(s) - 1) /\ DOMAIN s = 1..Len(s) /\ Head(s) = s[1]
      /\ \A i \in 1..(Len(s) - 1) : t[i] = s[i + 1]
  OBVIOUS
<1> HIDE DEF t
<1>2. IsInjective(t)
  <2>1. \A i \in DOMAIN t : i \in Int /\ i + 1 \in DOMAIN s /\ t[i] = s[i + 1]
    BY <1>1
  <2>2. \A i, j \in DOMAIN t : t[i] = t[j] => i + 1 = j + 1
    BY <2>1 DEF IsInjective
  <2> QED
    BY <2>1, <2>2 DEF IsInjective
<1>3. Head(s) \in Range(s)
  BY <1>1 DEF Range
<1>4. ASSUME NEW c, c \in Range(t) PROVE c \in Range(s) /\ c # Head(s)
  BY <1>1, <1>4 DEF Range, IsInjective
<1>5. ASSUME NEW c, c \in Range(s), c # Head(s) PROVE c \in Range(t)
  <2>1. PICK i \in 1..Len(s) : s[i] = c
    BY <1>1, <1>5 DEF Range
  <2>2. i - 1 \in 1..(Len(s) - 1) /\ t[i - 1] = c
    BY <1>1, <1>5, <2>1
  <2> QED
    BY <1>1, <2>2 DEF Range
<1> QED
  BY <1>2, <1>3, <1>4, <1>5 DEF t, Shortened

(* And its last one likewise.                                                   *)
LEMMA FrontDistinct ==
  ASSUME NEW S, NEW s \in Seq(S), s # <<>>, IsInjective(s)
  PROVE  Shortened(SubSeq(s, 1, Len(s) - 1), s, s[Len(s)]) /\ s[Len(s)] \in Range(s)
<1> DEFINE t == SubSeq(s, 1, Len(s) - 1)
<1>0. Len(s) \in Nat /\ Len(s) # 0 /\ DOMAIN s = 1..Len(s)
  OBVIOUS
<1>1. DOMAIN t = 1..(Len(s) - 1) /\ \A i \in 1..(Len(s) - 1) : t[i] = s[i]
  BY <1>0, SubSeqProperties
<1> HIDE DEF t
<1>2. IsInjective(t)
  BY <1>0, <1>1 DEF IsInjective
<1>3. s[Len(s)] \in Range(s)
  BY <1>0 DEF Range
<1>4. ASSUME NEW c, c \in Range(t) PROVE c \in Range(s) /\ c # s[Len(s)]
  BY <1>0, <1>1, <1>4 DEF Range, IsInjective
<1>5. ASSUME NEW c, c \in Range(s), c # s[Len(s)] PROVE c \in Range(t)
  BY <1>0, <1>1, <1>5 DEF Range
<1> QED
  BY <1>2, <1>3, <1>4, <1>5 DEF t, Shortened

(* A list gets a container that was not in it.                                  *)
LEMMA AppendDistinct ==
  ASSUME NEW S, NEW s \in Seq(S), NEW e \in S, e \notin Range(s), IsInjective(s)
  PROVE  /\ IsInjective(Append(s, e))
         /\ \A c : c \in Range(Append(s, e)) <=> c \in Range(s) \/ c = e
<1> DEFINE t == Append(s, e)
<1>1. /\ Len(s) \in Nat /\ DOMAIN s = 1..Len(s) /\ DOMAIN t = 1..(Len(s) + 1)
      /\ \A i \in DOMAIN s : t[i] = s[i]
      /\ t[Len(s) + 1] = e
  OBVIOUS
<1> HIDE DEF t
<1>2. \A i \in DOMAIN t : (i \in DOMAIN s /\ t[i] = s[i]) \/ (i = Len(s) + 1 /\ t[i] = e)
  BY <1>1
<1>3. IsInjective(t)
  BY <1>1, <1>2 DEF IsInjective, Range
<1>4. \A c : c \in Range(t) => c \in Range(s) \/ c = e
  BY <1>1, <1>2 DEF Range
<1>5. \A c : c \in Range(s) \/ c = e => c \in Range(t)
  BY <1>1 DEF Range
<1>6. \A c : c \in Range(t) <=> c \in Range(s) \/ c = e
  BY <1>4, <1>5
<1> QED
  BY <1>3, <1>6 DEF t

--------------------------------------------------------------------------------
(* A container moves: from the place it is in to the i-th place of a kind.      *)
Moved(w, x, c, kind, i, w2, x2) == w2 = [w EXCEPT ![c] = kind] /\ x2 = [x EXCEPT ![c] = i]

(* The list it leaves ...                                                       *)
LEMMA ListLoses ==
  ASSUME NEW w \in [IPs -> Kinds], NEW x, DOMAIN x = IPs, NEW kind \in Kinds, NEW I,
         NEW lists \in [I -> Seq(IPs)], InLists(w, x, kind, I, lists),
         NEW k \in I, NEW c \in IPs, NEW t, Shortened(t, lists[k], c),
         w[c] = kind, x[c] = k,
         NEW to \in Kinds \ {kind}, NEW i, NEW w2, NEW x2, Moved(w, x, c, to, i, w2, x2)
  PROVE  InLists(w2, x2, kind, I, [lists EXCEPT ![k] = t])
<1> DEFINE lists2 == [lists EXCEPT ![k] = t]
<1>1. \A j \in I : lists2[j] = IF j = k THEN t ELSE lists[j]
  OBVIOUS
<1>2. \A d \in IPs : w2[d] = (IF d = c THEN to ELSE w[d]) /\ x2[d] = (IF d = c THEN i ELSE x[d])
  BY DEF Moved
<1> HIDE DEF lists2
<1>3. \A j \in I : IsInjective(lists2[j])
  BY <1>1 DEF InLists, Shortened
<1>4. \A d \in IPs : w2[d] = kind => x2[d] \in I
  BY <1>2 DEF InLists
<1>5. ASSUME NEW d \in IPs, NEW j \in I
      PROVE  w2[d] = kind /\ x2[d] = j <=> d \in Range(lists2[j])
  BY <1>1, <1>2 DEF InLists, Shortened
<1> QED
  BY <1>3, <1>4, <1>5 DEF InLists, lists2

(* (most often it is the first one there ...                                    *)
LEMMA HeadPlace ==
  ASSUME NEW w, NEW x, NEW kind, NEW I,
         NEW lists \in [I -> Seq(IPs)], InLists(w, x, kind, I, lists), NEW k \in I, lists[k] # <<>>
  PROVE  Head(lists[k]) \in IPs /\ w[Head(lists[k])] = kind /\ x[Head(lists[k])] = k
<1>1. lists[k] \in Seq(IPs) /\ IsInjective(lists[k])
  BY DEF InLists
<1>2. Head(lists[k]) \in Range(lists[k]) /\ Head(lists[k]) \in IPs
  BY <1>1, TailDistinct, TailType
<1> QED
  BY <1>2 DEF InLists

(* ... and leaves the others behind) ...                                        *)
LEMMA HeadLeaves ==
  ASSUME NEW w \in [IPs -> Kinds], NEW x, DOMAIN x = IPs, NEW kind \in Kinds, NEW I,
         NEW lists \in [I -> Seq(IPs)], InLists(w, x, kind, I, lists),
         NEW k \in I, lists[k] # <<>>,
         NEW to \in Kinds \ {kind}, NEW i, NEW w2, NEW x2, Moved(w, x, Head(lists[k]), to, i, w2, x2)
  PROVE  InLists(w2, x2, kind, I, [lists EXCEPT ![k] = Tail(lists[k])])
<1> DEFINE c == Head(lists[k])
           t == Tail(lists[k])
<1>1. lists[k] \in Seq(IPs) /\ IsInjective(lists[k])
  BY DEF InLists
<1>2. Shortened(t, lists[k], c)
  BY <1>1, TailDistinct
<1>3. c \in IPs /\ w[c] = kind /\ x[c] = k /\ Moved(w, x, c, to, i, w2, x2)
  BY HeadPlace
<1> HIDE DEF c, t
<1>4. InLists(w2, x2, kind, I, [lists EXCEPT ![k] = t])
  BY <1>2, <1>3, ListLoses
<1> QED
  BY <1>4 DEF t

(* ... and the list it joins.                                                   *)
LEMMA ListGains ==
  ASSUME NEW w \in [IPs -> Kinds], NEW x, DOMAIN x = IPs, NEW kind \in Kinds, NEW I,
         NEW lists \in [I -> Seq(IPs)], InLists(w, x, kind, I, lists),
         NEW k \in I, NEW c \in IPs, w[c] # kind,
         NEW w2, NEW x2, Moved(w, x, c, kind, k, w2, x2)
  PROVE  InLists(w2, x2, kind, I, [lists EXCEPT ![k] = Append(lists[k], c)])
<1> DEFINE lists2 == [lists EXCEPT ![k] = Append(lists[k], c)]
<1>1. \A j \in I : lists2[j] = IF j = k THEN Append(lists[k], c) ELSE lists[j]
  OBVIOUS
<1>2. \A d \in IPs : w2[d] = (IF d = c THEN kind ELSE w[d]) /\ x2[d] = (IF d = c THEN k ELSE x[d])
  BY DEF Moved
<1> HIDE DEF lists2
<1>3. c \notin Range(lists[k]) /\ IsInjective(lists[k]) /\ lists[k] \in Seq(IPs)
  BY DEF InLists
<1>4. /\ IsInjective(lists2[k])
      /\ \A d : d \in Range(lists2[k]) <=> d \in Range(lists[k]) \/ d = c
  BY <1>1, <1>3, AppendDistinct
<1>5. \A j \in I : IsInjective(lists2[j])
  BY <1>1, <1>4 DEF InLists
<1>6. \A d \in IPs : w2[d] = kind => x2[d] \in I
  BY <1>2 DEF InLists
<1>7. ASSUME NEW d \in IPs, NEW j \in I
      PROVE  w2[d] = kind /\ x2[d] = j <=> d \in Range(lists2[j])
  BY <1>1, <1>2, <1>4 DEF InLists
<1> QED
  BY <1>5, <1>6, <1>7 DEF InLists, lists2

(* Whoever has a container at its location has one in its variable.             *)
LEMMA HandType ==
  ASSUME TypeInv
  PROVE  \A p \in HasCtr : p \in Callers /\ ctr[p] \in IPs /\ key[p] \in Keys
  BY DEF TypeInv, CallerOK, HasCtr

(* A move is invisible to the places it neither leaves nor reaches.             *)
LEMMA Bystanders ==
  ASSUME TypeInv, NEW w, NEW x, Placement(w, x), NEW c \in IPs, NEW kind \in Kinds, NEW i,
         NEW w2, NEW x2, Moved(w, x, c, kind, i, w2, x2)
  PROVE  /\ w2 \in [IPs -> Kinds] /\ DOMAIN x2 = IPs /\ x2 = [d \in IPs |-> x2[d]]
         /\ w[c] # "usable" /\ kind # "usable" /\ UNCHANGED usableIPs => InUsable(w2)'
         /\ w[c] # "leaked" /\ kind # "leaked" /\ UNCHANGED leaked => InLeaked(w2)'
         /\ w[c] # "toReap" /\ kind # "toReap" /\ UNCHANGED toReap => InReap(w2)'
         /\ w[c] # "deleting" /\ kind # "deleting" /\ UNCHANGED deleting => InDeleting(w2)'
         /\ w[c] # "creating" /\ kind # "creating" /\ UNCHANGED <<creating, reconciler>> => InCreating(w2)'
         /\ w[c] # "deleteForSpace" /\ kind # "deleteForSpace" /\ UNCHANGED deleteForSpace => InSpace(w2)'
         /\ w[c] # "idle" /\ kind # "idle" /\ UNCHANGED idles => InIdles(w2, x2)'
         /\ w[c] # "prewarmed" /\ kind # "prewarmed" /\ UNCHANGED prewarmed => InPrewarmed(w2, x2)'
         /\ w[c] # "toDelete" /\ kind # "toDelete" /\ UNCHANGED toDelete => InToDelete(w2, x2)'
         /\ w[c] # "ctr" /\ kind # "ctr" /\ UNCHANGED <<pc, ctr>> => InHands(w2, x2)'
<1> USE DEF Placement
<1>1. /\ w2 \in [IPs -> Kinds] /\ DOMAIN x2 = IPs /\ x2 = [d \in IPs |-> x2[d]]
      /\ \A d \in IPs : w2[d] = (IF d = c THEN kind ELSE w[d]) /\ x2[d] = (IF d = c THEN i ELSE x[d])
  BY DEF Moved
<1>2. w[c] # "usable" /\ kind # "usable" /\ UNCHANGED usableIPs => InUsable(w2)'
  BY <1>1 DEF InUsable
<1>3. w[c] # "leaked" /\ kind # "leaked" /\ UNCHANGED leaked => InLeaked(w2)'
  BY <1>1 DEF InLeaked
<1>4. w[c] # "toReap" /\ kind # "toReap" /\ UNCHANGED toReap => InReap(w2)'
  BY <1>1 DEF InReap
<1>5. w[c] # "deleting" /\ kind # "deleting" /\ UNCHANGED deleting => InDeleting(w2)'
  BY <1>1 DEF InDeleting
<1>6. w[c] # "creating" /\ kind # "creating" /\ UNCHANGED <<creating, reconciler>> => InCreating(w2)'
  BY <1>1 DEF InCreating
<1>7. w[c] # "deleteForSpace" /\ kind # "deleteForSpace" /\ UNCHANGED deleteForSpace => InSpace(w2)'
  BY <1>1 DEF InSpace
<1>8. w[c] # "idle" /\ kind # "idle" /\ UNCHANGED idles => InIdles(w2, x2)'
  BY <1>1 DEF InIdles, InLists
<1>9. w[c] # "prewarmed" /\ kind # "prewarmed" /\ UNCHANGED prewarmed => InPrewarmed(w2, x2)'
  BY <1>1 DEF InPrewarmed, InLists
<1>10. w[c] # "toDelete" /\ kind # "toDelete" /\ UNCHANGED toDelete => InToDelete(w2, x2)'
  BY <1>1 DEF InToDelete, InLists
<1>11. w[c] # "ctr" /\ kind # "ctr" /\ UNCHANGED <<pc, ctr>> => InHands(w2, x2)'
  <2> SUFFICES ASSUME w[c] # "ctr", kind # "ctr", UNCHANGED <<pc, ctr>> PROVE InHands(w2, x2)'
    OBVIOUS
  <2>1. HasCtr' = HasCtr
    BY DEF HasCtr
  <2> QED
    BY <1>1, <2>1, HandType DEF InHands
<1> QED
  BY <1>1, <1>2, <1>3, <1>4, <1>5, <1>6, <1>7, <1>8, <1>9, <1>10, <1>11

--------------------------------------------------------------------------------
(* Steps of an invocation.                                                      *)

\* The locations at which ctr is owned.
Hands == {"unpause", "poke", "creating", "fwWarm", "fwPrewarm", "fwCold", "init", "run", "append"}
\* Nobody's local variables change but those of p.
OnlyCaller(p) ==
  \A q \in Callers \ {p} : /\ pc'[q] = pc[q] /\ key'[q] = key[q] /\ mem'[q] = mem[q]
                           /\ seen'[q] = seen[q] /\ ctr'[q] = ctr[q] /\ toDelete'[q] = toDelete[q]

(* An invocation works on its own variables.                                    *)
LEMMA CallerFrame ==
  ASSUME TypeInv, NEW p \in Callers, (\E k \in Keys : Get(p, k)) \/ Invocation(p)
  PROVE  OnlyCaller(p)
<1> USE DEF TypeInv, TypeOK, CallersType, Goto, OnlyCaller
<1>1. ASSUME NEW k \in Keys, Get(p, k) PROVE OnlyCaller(p)
  BY <1>1 DEF Get, Acquire
<1>2. CASE Count(p) \/ LookupWarm(p) \/ LookupCold(p) \/ Send(p) \/ TakePrewarm(p) \/ Poke(p)
  BY <1>2 DEF Count, LookupWarm, LookupCold, Send, TakePrewarm, Poke
<1>3. CASE EvictOne(p)
  BY <1>3 DEF EvictOne
<1>4. CASE Create(p) \/ Created(p) \/ Unpause(p) \/ Firewall(p) \/ Initialize(p)
  BY <1>4 DEF Create, Created, Unpause, Firewall, Initialize
<1>5. CASE PutToDestroy(p) \/ Put(p) \/ PutIdle(p) \/ Uncount(p) \/ Release(p)
  BY <1>5 DEF PutToDestroy, Put, PutIdle, Uncount, Release
<1> QED
  BY <1>1, <1>2, <1>3, <1>4, <1>5 DEF Invocation

(* An invocation gets a container ...                                           *)
LEMMA HandGains ==
  ASSUME TypeInv, NEW w, NEW x, Placement(w, x), NEW p \in Callers, OnlyCaller(p), NEW c \in IPs,
         pc[p] \notin Hands, pc'[p] \in Hands, ctr'[p] = c, w[c] # "ctr",
         NEW w2, NEW x2, Moved(w, x, c, "ctr", p, w2, x2)
  PROVE  InHands(w2, x2)'
<1>1. \A q \in Callers : q \in HasCtr' <=> q \in HasCtr \/ q = p
  BY DEF HasCtr, Hands, OnlyCaller
<1>2. p \notin HasCtr /\ \A q \in HasCtr : q # p /\ q \in Callers /\ ctr'[q] = ctr[q] /\ ctr[q] \in IPs
  BY HandType DEF HasCtr, Hands, OnlyCaller
<1>3. \A d \in IPs : /\ w2[d] = (IF d = c THEN "ctr" ELSE w[d]) /\ x2[d] = (IF d = c THEN p ELSE x[d])
  BY DEF Moved, Placement
<1>4. \A q \in HasCtr' : q \in Callers
  BY DEF HasCtr
<1> QED
  BY <1>1, <1>2, <1>3, <1>4 DEF InHands, Placement

(* ... gives it away ...                                                        *)
LEMMA HandLoses ==
  ASSUME TypeInv, NEW w, NEW x, Placement(w, x), NEW p \in Callers, OnlyCaller(p),
         pc[p] \in Hands, pc'[p] \notin Hands, NEW kind \in Kinds \ {"ctr"}, NEW i,
         NEW w2, NEW x2, Moved(w, x, ctr[p], kind, i, w2, x2)
  PROVE  InHands(w2, x2)'
<1>1. \A q \in Callers : q \in HasCtr' <=> q \in HasCtr /\ q # p
  BY DEF HasCtr, Hands, OnlyCaller
<1>2. /\ p \in HasCtr /\ ctr[p] \in IPs
      /\ \A q \in HasCtr : q \in Callers /\ (q # p => ctr'[q] = ctr[q]) /\ ctr[q] \in IPs
  BY HandType DEF HasCtr, Hands, OnlyCaller
<1>3. \A d \in IPs : /\ w2[d] = (IF d = ctr[p] THEN kind ELSE w[d])
                     /\ x2[d] = (IF d = ctr[p] THEN i ELSE x[d])
  BY <1>2 DEF Moved, Placement
<1>4. \A q \in HasCtr' : q \in Callers
  BY DEF HasCtr
<1> QED
  BY <1>1, <1>2, <1>3, <1>4 DEF InHands, Placement

(* ... or keeps it, or has none before and after.                               *)
LEMMA HandKeeps ==
  ASSUME TypeInv, NEW w, NEW x, Placement(w, x), NEW p \in Callers, OnlyCaller(p),
         pc[p] \in Hands <=> pc'[p] \in Hands, pc[p] \in Hands => ctr'[p] = ctr[p]
  PROVE  InHands(w, x)'
<1>1. \A q \in Callers : q \in HasCtr' <=> q \in HasCtr
  BY DEF HasCtr, Hands, OnlyCaller
<1>2. \A q \in HasCtr : q \in Callers /\ ctr'[q] = ctr[q]
  BY DEF HasCtr, Hands, OnlyCaller
<1>3. \A q \in HasCtr' : q \in Callers
  BY DEF HasCtr
<1> QED
  BY <1>1, <1>2, <1>3 DEF InHands, Placement

(* The containers in hands are not the one that moves between other places.     *)
LEMMA HandSpared ==
  ASSUME TypeInv, NEW w, NEW x, Placement(w, x), NEW p \in Callers, OnlyCaller(p),
         pc[p] \notin Hands, pc'[p] \notin Hands, NEW c \in IPs, NEW kind \in Kinds \ {"ctr"}, NEW i,
         w[c] # "ctr", NEW w2, NEW x2, Moved(w, x, c, kind, i, w2, x2)
  PROVE  InHands(w2, x2)'
<1>1. \A q \in Callers : q \in HasCtr' <=> q \in HasCtr
  BY DEF HasCtr, Hands, OnlyCaller
<1>2. \A q \in HasCtr : q \in Callers /\ ctr'[q] = ctr[q] /\ ctr[q] \in IPs
  BY HandType DEF HasCtr, Hands, OnlyCaller
<1>3. \A q \in HasCtr' : q \in Callers
  BY DEF HasCtr
<1>4. \A d \in IPs : w2[d] = (IF d = c THEN kind ELSE w[d]) /\ x2[d] = (IF d = c THEN i ELSE x[d])
  BY DEF Moved, Placement
<1> QED
  BY <1>1, <1>2, <1>3, <1>4 DEF InHands, Placement

--------------------------------------------------------------------------------
(* The fields of the containers.                                                *)

\* Only the fields of c change.
OnlyContainer(c) ==
  \A d \in IPs \ {c} : /\ memory'[d] = memory[d] /\ initializedFor'[d] = initializedFor[d]
                       /\ loaded'[d] = loaded[d]
                       /\ d \in pausing' <=> d \in pausing
                       /\ d \in firewalled' <=> d \in firewalled
\* Whoever holds another container than c stands still.
OtherHands(w, x, c) ==
  \A d \in IPs \ {c} : w[d] = "ctr" => pc'[x[d]] = pc[x[d]] /\ key'[x[d]] = key[x[d]]

(* The invocation that takes a step holds c or nothing.                         *)
LEMMA OthersStand ==
  ASSUME NEW w, NEW x, Placement(w, x), NEW p \in Callers, OnlyCaller(p), NEW c,
         pc[p] \in Hands => c = ctr[p]
  PROVE  OtherHands(w, x, c)
<1> SUFFICES ASSUME NEW d \in IPs \ {c}, w[d] = "ctr"
             PROVE  pc'[x[d]] = pc[x[d]] /\ key'[x[d]] = key[x[d]]
  BY DEF OtherHands
<1>1. x[d] \in Callers /\ pc[x[d]] \in Hands /\ ctr[x[d]] = d
  BY DEF Placement, InHands, HasCtr, Hands
<1>2. x[d] # p
  BY <1>1
<1> QED
  BY <1>1, <1>2 DEF OnlyCaller

(* A step that changes c alone has to justify the fields of c alone.            *)
LEMMA FieldsFrame ==
  ASSUME NEW w, NEW x, Owned(w, x), NEW c \in IPs, NEW kind \in Kinds, NEW i,
         NEW w2, NEW x2, Moved(w, x, c, kind, i, w2, x2),
         OnlyContainer(c), OtherHands(w, x, c), Fields(kind, i, c)'
  PROVE  \A d \in IPs : Fields(w2[d], x2[d], d)'
<1> SUFFICES ASSUME NEW d \in IPs PROVE Fields(w2[d], x2[d], d)'
  OBVIOUS
<1>1. w2[d] = (IF d = c THEN kind ELSE w[d]) /\ x2[d] = (IF d = c THEN i ELSE x[d])
  BY DEF Moved, Placement, Owned
<1>2. CASE d = c
  BY <1>1, <1>2
<1>3. CASE d # c
  <2>1. Fields(w[d], x[d], d)
    BY DEF Owned
  <2>2. Fields(w[d], x[d], d)'
    BY <1>3, <2>1 DEF Fields, InHand, PauseAt, NoRulesAt, OnlyContainer, OtherHands
  <2> QED
    BY <1>1, <1>3, <2>2
<1> QED
  BY <1>2, <1>3

(* What removing a container leaves of it, wherever it was.                     *)
LEMMA Removal ==
  ASSUME TypeInv, NEW w, NEW x, Owned(w, x), NEW c \in IPs, w[c] \notin {"usable", "leaked"},
         Remove(c) \/ CleanupContainer(c), pausing' = pausing \ {c}
  PROVE  \E kind \in {"usable", "leaked"} :
           /\ OnlyContainer(c)
           /\ \A i : Fields(kind, i, c)'
           /\ \A w2 : w2 = [w EXCEPT ![c] = kind] => InUsable(w2)' /\ InLeaked(w2)'
<1> USE DEF TypeInv, TypeOK, ContainersType, Owned, Placement
<1>1. Removed(c) \/ Leaked(c)
  BY DEF Remove, CleanupContainer
<1>2. ASSUME Forgotten(c), firewalled' \in {firewalled, firewalled \ {c}} PROVE OnlyContainer(c)
  BY <1>2 DEF Forgotten, OnlyContainer
<1>3. CASE Removed(c)
  <2>1. OnlyContainer(c)
    BY <1>2, <1>3 DEF Removed
  <2>2. \A i : Fields("usable", i, c)'
    BY <1>3 DEF Removed, Forgotten, Fields, PauseAt, NoRulesAt
  <2>3. \A w2 : w2 = [w EXCEPT ![c] = "usable"] => InUsable(w2)' /\ InLeaked(w2)'
    BY <1>3 DEF Removed, InUsable, InLeaked
  <2> QED
    BY <2>1, <2>2, <2>3
<1>4. CASE Leaked(c)
  <2>1. OnlyContainer(c)
    BY <1>2, <1>4 DEF Leaked
  <2>2. \A i : Fields("leaked", i, c)'
    BY <1>4 DEF Leaked, Forgotten, Fields, PauseAt, NoRulesAt
  <2>3. \A w2 : w2 = [w EXCEPT ![c] = "leaked"] => InUsable(w2)' /\ InLeaked(w2)'
    BY <1>4 DEF Leaked, InUsable, InLeaked
  <2> QED
    BY <2>1, <2>2, <2>3
<1> QED
  BY <1>1, <1>3, <1>4

--------------------------------------------------------------------------------
(* Steps that move no container.                                                *)

\* The places other than hands.
stores == <<usableIPs, leaked, toReap, deleting, creating, reconciler, deleteForSpace, idles, prewarmed,
            toDelete>>
fields == <<memory, initializedFor, loaded, pausing, firewalled>>

(* What the assignment says of the container an invocation holds.               *)
LEMMA HandFields ==
  ASSUME TypeInv, NEW w, NEW x, Owned(w, x), NEW p \in Callers, pc[p] \in Hands
  PROVE  /\ ctr[p] \in IPs /\ key[p] \in Keys /\ w[ctr[p]] = "ctr" /\ x[ctr[p]] = p
         /\ Fields("ctr", p, ctr[p])
<1>1. p \in HasCtr
  BY DEF HasCtr, Hands
<1>2. ctr[p] \in IPs /\ key[p] \in Keys /\ w[ctr[p]] = "ctr" /\ x[ctr[p]] = p
  BY <1>1, HandType DEF Owned, Placement, InHands
<1>3. Fields(w[ctr[p]], x[ctr[p]], ctr[p])
  BY <1>2 DEF Owned
<1> QED
  BY <1>2, <1>3

(* Containers stay where they are while their invocation goes on ...            *)
LEMMA StaysInHand ==
  ASSUME TypeInv, NEW w, NEW x, Owned(w, x), NEW p \in Callers, OnlyCaller(p), UNCHANGED stores,
         pc[p] \in Hands, pc'[p] \in Hands, ctr'[p] = ctr[p],
         OnlyContainer(ctr[p]), InHand(ctr[p], pc[p], key[p]) => Fields("ctr", p, ctr[p])'
  PROVE  Owned(w, x)'
<1>1. InHands(w, x)'
  BY HandKeeps DEF Owned
<1>2. Placement(w, x)'
  BY <1>1 DEF Owned, Placement, stores, InUsable, InLeaked, InReap, InDeleting, InCreating, InSpace,
              InIdles, InPrewarmed, InToDelete
<1>3. ctr[p] \in IPs /\ w[ctr[p]] = "ctr" /\ x[ctr[p]] = p
  BY HandFields
<1>4. Moved(w, x, ctr[p], "ctr", p, w, x)
  BY <1>3 DEF Moved, Owned, Placement
<1>5. InHand(ctr[p], pc[p], key[p])
  BY <1>3 DEF Owned, Fields
<1>6. OtherHands(w, x, ctr[p])
  BY OthersStand DEF Owned
<1>7. \A d \in IPs : Fields(w[d], x[d], d)'
  BY <1>3, <1>4, <1>5, <1>6, FieldsFrame DEF Kinds
<1> QED
  BY <1>2, <1>7 DEF Owned

(* ... or has none ...                                                          *)
LEMMA StaysElsewhere ==
  ASSUME TypeInv, NEW w, NEW x, Owned(w, x), NEW p \in Callers, OnlyCaller(p),
         UNCHANGED <<stores, fields>>, pc[p] \notin Hands, pc'[p] \notin Hands
  PROVE  Owned(w, x)'
<1>1. InHands(w, x)'
  BY HandKeeps DEF Owned
<1>2. Placement(w, x)'
  BY <1>1 DEF Owned, Placement, stores, InUsable, InLeaked, InReap, InDeleting, InCreating, InSpace,
              InIdles, InPrewarmed, InToDelete
<1>3. \A d \in IPs : OtherHands(w, x, NoCtr) /\ d # NoCtr
  BY OthersStand, ContainerAssumption DEF Owned
<1>4. ASSUME NEW d \in IPs PROVE Fields(w[d], x[d], d)'
  <2>1. Fields(w[d], x[d], d) /\ (w[d] = "ctr" => pc'[x[d]] = pc[x[d]] /\ key'[x[d]] = key[x[d]])
    BY <1>3 DEF Owned, OtherHands
  <2> QED
    BY <2>1 DEF Fields, InHand, PauseAt, NoRulesAt, fields
<1> QED
  BY <1>2, <1>4 DEF Owned

(* ... or a background goroutine does something else.                           *)
LEMMA StaysAll ==
  ASSUME NEW w, NEW x, Owned(w, x), UNCHANGED <<callerVars, usableIPs, leaked, toReap, deleting,
         creating, deleteForSpace, idles, prewarmed, fields>>, creating' # NoCtr <=> reconciler' = "creating"
  PROVE  Owned(w, x)'
<1>1. InHands(w, x)'
  BY DEF Owned, Placement, InHands, HasCtr, callerVars
<1>2. Placement(w, x)'
  BY <1>1 DEF Owned, Placement, callerVars, InUsable, InLeaked, InReap, InDeleting, InCreating, InSpace,
              InIdles, InPrewarmed, InToDelete
<1>3. \A d \in IPs : Fields(w[d], x[d], d)'
  BY DEF Owned, callerVars, Fields, InHand, PauseAt, NoRulesAt, fields
<1> QED
  BY <1>2, <1>3 DEF Owned

(* The capacity, the reservation of space and the counters.                     *)
LEMMA StillSteps ==
  ASSUME TypeInv, NEW w, NEW x, Owned(w, x), NEW p \in Callers, OnCapacity(p) \/ LookupCold(p)
  PROVE  Owned(w, x)'
<1> USE DEF Hands, Goto, TypeInv, TypeOK, CallersType
<1>1. OnlyCaller(p)
  BY CallerFrame, InvocationSteps DEF OnIdles
<1>2. CASE OnCapacity(p)
  <2>1. UNCHANGED <<stores, fields>>
    BY <1>2, OnCapacityFrame DEF stores, fields, idleVars, prewarmVars, deleteVars, reapVars, ctrVars,
       OnCapacity, Get, Count, Uncount, Release
  <2>2. pc[p] \notin Hands /\ pc'[p] \notin Hands
    BY <1>2 DEF OnCapacity, Get, Acquire, Count, Uncount, Release
  <2> QED
    BY <1>1, <2>1, <2>2, StaysElsewhere
<1>3. CASE LookupCold(p)
  <2>1. UNCHANGED <<stores, fields>>
    BY <1>3 DEF stores, fields, idleVars, prewarmVars, deleteVars, reapVars, ctrVars, LookupCold
  <2>2. pc[p] \notin Hands /\ pc'[p] \notin Hands
    BY <1>3 DEF LookupCold
  <2> QED
    BY <1>1, <2>1, <2>2, StaysElsewhere
<1> QED
  BY <1>2, <1>3

(* The poke, the code and the first half of Put.                                *)
LEMMA InHandSteps ==
  ASSUME TypeInv, NEW w, NEW x, Owned(w, x), NEW p \in Callers, Poke(p) \/ Initialize(p) \/ Put(p)
  PROVE  Owned(w, x)'
<1> USE DEF Hands, Goto, TypeInv, TypeOK, CallersType, ContainersType
<1>1. OnlyCaller(p)
  BY CallerFrame DEF Invocation
<1>2. UNCHANGED stores
  BY DEF Poke, Initialize, Put, stores, idleVars, prewarmVars, deleteVars, reapVars, ctrVars
<1>3. pc[p] \in Hands /\ pc'[p] \in Hands /\ ctr' = ctr /\ key' = key
  BY DEF Poke, Initialize, Put
<1>4. ctr[p] \in IPs /\ key[p] \in Keys /\ Fields("ctr", p, ctr[p])
  BY <1>3, HandFields
<1>5. CASE Poke(p)
  <2>1. UNCHANGED fields /\ pc[p] = "poke" /\ pc'[p] = "fwPrewarm"
    BY <1>5 DEF Poke, ctrVars, fields
  <2>2. OnlyContainer(ctr[p]) /\ Fields("ctr", p, ctr[p])'
    BY <1>3, <1>4, <2>1 DEF OnlyContainer, fields, Fields, InHand, Loaded, PauseAt, NoRulesAt
  <2> QED
    BY <1>1, <1>2, <1>3, <2>2, StaysInHand
<1>6. CASE Initialize(p)
  <2>1. /\ UNCHANGED <<memory, initializedFor, pausing, firewalled>> /\ pc[p] = "init" /\ pc'[p] = "run"
        /\ loaded' = [loaded EXCEPT ![ctr[p]] = key[p]]
    BY <1>6 DEF Initialize
  <2>2. OnlyContainer(ctr[p]) /\ Fields("ctr", p, ctr[p])'
    BY <1>3, <1>4, <2>1 DEF OnlyContainer, Fields, InHand, Loaded, PauseAt, NoRulesAt
  <2> QED
    BY <1>1, <1>2, <1>3, <2>2, StaysInHand
<1>7. CASE Put(p)
  <2>1. /\ UNCHANGED <<memory, initializedFor, loaded, firewalled>> /\ pc[p] = "run" /\ pc'[p] = "append"
        /\ pausing' = pausing \cup {ctr[p]}
    BY <1>7 DEF Put
  <2>2. OnlyContainer(ctr[p]) /\ Fields("ctr", p, ctr[p])'
    BY <1>3, <1>4, <2>1 DEF OnlyContainer, Fields, InHand, Loaded, PauseAt, NoRulesAt
  <2> QED
    BY <1>1, <1>2, <1>3, <2>2, StaysInHand
<1> QED
  BY <1>5, <1>6, <1>7

--------------------------------------------------------------------------------
(* Steps of an invocation that move a container.                                *)

\* The stores that a failing or returning invocation has no business with.
shelves == <<toReap, deleting, creating, reconciler, deleteForSpace, prewarmed, toDelete>>

(* An invocation gives its container up and it is removed, or left behind.      *)
LEMMA RemovedFromHand ==
  ASSUME TypeInv, NEW w, NEW x, Owned(w, x), NEW p \in Callers, OnlyCaller(p),
         pc[p] \in Hands, pc'[p] = "uncount", Remove(ctr[p]) \/ CleanupContainer(ctr[p]),
         pausing' = pausing \ {ctr[p]}, UNCHANGED <<shelves, idles>>
  PROVE  \E w2, x2 : Owned(w2, x2)'
<1>1. PICK c \in IPs : c = ctr[p] /\ w[c] = "ctr"
  BY HandFields
<1>2. PICK kind \in {"usable", "leaked"} :
         /\ OnlyContainer(c)
         /\ \A i : Fields(kind, i, c)'
         /\ \A w2 : w2 = [w EXCEPT ![c] = kind] => InUsable(w2)' /\ InLeaked(w2)'
  BY <1>1, Removal
<1>3. PICK w2, x2 : Moved(w, x, c, kind, p, w2, x2)
  BY DEF Moved
<1>4. InUsable(w2)' /\ InLeaked(w2)' /\ kind \in Kinds \ {"ctr"}
  BY <1>2, <1>3 DEF Moved, Kinds
<1>5. pc'[p] \notin Hands
  BY DEF Hands
<1>6. InHands(w2, x2)'
  BY <1>1, <1>3, <1>4, <1>5, HandLoses DEF Owned
<1>7. Placement(w2, x2)'
  BY <1>1, <1>3, <1>4, <1>6, Bystanders DEF Owned, shelves, Placement
<1>8. OtherHands(w, x, c)
  BY <1>1, OthersStand DEF Owned
<1>9. \A d \in IPs : Fields(w2[d], x2[d], d)'
  BY <1>2, <1>3, <1>4, <1>8, FieldsFrame
<1> QED
  BY <1>7, <1>9 DEF Owned

(* Under idlesMux: the warm container.                                          *)
LEMMA LookupWarmOwned ==
  ASSUME TypeInv, NEW w, NEW x, Owned(w, x), NEW p \in Callers, LookupWarm(p)
  PROVE  \E w2, x2 : Owned(w2, x2)'
<1>0. PICK k, c, t : k = key[p] /\ c = idles[k][Len(idles[k])] /\ t = SubSeq(idles[k], 1, Len(idles[k]) - 1)
  OBVIOUS
<1>1. /\ pc[p] = "lookup" /\ idles[k] # <<>> /\ idles' = [idles EXCEPT ![k] = t]
      /\ ctr' = [ctr EXCEPT ![p] = c] /\ pc' = [pc EXCEPT ![p] = "unpause"] /\ key' = key
  BY <1>0 DEF LookupWarm, Goto
<1>2. UNCHANGED <<shelves, usableIPs, leaked, fields>>
  BY DEF LookupWarm, shelves, fields, prewarmVars, deleteVars, reapVars, ctrVars
<1>3. k \in Keys /\ idles \in [Keys -> Seq(IPs)] /\ IsInjective(idles[k])
  BY <1>0, <1>1 DEF TypeInv, TypeOK, CallerOK, IdlesType, Owned, Placement, InIdles, InLists
<1>4. Shortened(t, idles[k], c) /\ c \in Range(idles[k]) /\ c \in IPs
  BY <1>0, <1>1, <1>3, FrontDistinct, FrontType
<1>5. w[c] = "idle" /\ x[c] = k
  BY <1>3, <1>4 DEF Owned, Placement, InIdles, InLists
<1>6. PICK w2, x2 : Moved(w, x, c, "ctr", p, w2, x2)
  BY DEF Moved
<1>7. InIdles(w2, x2)'
  <2>1. w \in [IPs -> Kinds] /\ DOMAIN x = IPs /\ InLists(w, x, "idle", Keys, idles)
    BY DEF Owned, Placement, InIdles
  <2>2. "idle" \in Kinds /\ "ctr" \in Kinds \ {"idle"}
    BY DEF Kinds
  <2>3. InLists(w2, x2, "idle", Keys, [idles EXCEPT ![k] = t])
    BY <1>3, <1>4, <1>5, <1>6, <2>1, <2>2, ListLoses
  <2> QED
    BY <1>1, <2>3 DEF InIdles
<1>8. OnlyCaller(p)
  BY CallerFrame DEF Invocation
<1>9. pc[p] \notin Hands /\ pc'[p] = "unpause" /\ pc'[p] \in Hands /\ ctr'[p] = c /\ key'[p] = k
  BY <1>0, <1>1 DEF Hands, TypeInv, TypeOK, CallersType
<1>10. InHands(w2, x2)'
  BY <1>4, <1>5, <1>6, <1>8, <1>9, HandGains DEF Owned
<1>11. Placement(w2, x2)'
  BY <1>2, <1>4, <1>5, <1>6, <1>7, <1>10, Bystanders DEF Owned, shelves, Placement, Kinds
<1>12. OtherHands(w, x, c) /\ OnlyContainer(c)
  BY <1>2, <1>8, <1>9, OthersStand DEF Owned, OnlyContainer, fields
<1>13. Fields("ctr", p, c)'
  <2>1. Fields("idle", k, c)
    BY <1>4, <1>5 DEF Owned
  <2> QED
    BY <1>2, <1>9, <2>1 DEF Fields, InHand, Loaded, PauseAt, NoRulesAt, fields
<1>14. \A d \in IPs : Fields(w2[d], x2[d], d)'
  BY <1>4, <1>6, <1>12, <1>13, FieldsFrame DEF Kinds
<1> QED
  BY <1>11, <1>14 DEF Owned

(* An idle container is evicted.                                                *)
LEMMA EvictOwned ==
  ASSUME TypeInv, NEW w, NEW x, Owned(w, x), NEW p \in Callers, EvictOne(p)
  PROVE  \E w2, x2 : Owned(w2, x2)'
<1> USE DEF TypeInv, TypeOK
<1>1. OnlyCaller(p)
  BY CallerFrame DEF Invocation
<1>2. pc[p] = "evict" /\ pc'[p] \in {"evict", "send", "uncount"}
  BY DEF EvictOne, Goto, CallersType
<1>3. pc[p] \notin Hands /\ pc'[p] \notin Hands
  BY <1>2 DEF Hands
<1>4. UNCHANGED <<toReap, deleting, creating, reconciler, deleteForSpace, prewarmed, usableIPs, leaked,
                  fields>>
  BY DEF EvictOne, fields, prewarmVars, deleteVars, reapVars, ctrVars
<1>5. CASE IdleSet = {}
  <2>1. UNCHANGED <<stores, fields>>
    BY <1>4, <1>5 DEF EvictOne, stores, idleVars
  <2> QED
    BY <1>1, <1>3, <2>1, StaysElsewhere
<1>6. CASE IdleSet # {}
  <2>1. PICK k \in Keys : /\ idles[k] # <<>> /\ idles' = [idles EXCEPT ![k] = Tail(@)]
                          /\ toDelete' = [toDelete EXCEPT ![p] = Append(@, Head(idles[k]))]
    BY <1>6 DEF EvictOne, LongestUnused, DropHead
  <2>2. PICK c : c = Head(idles[k])
    OBVIOUS
  <2>3. idles \in [Keys -> Seq(IPs)] /\ toDelete \in [Callers -> Seq(IPs)]
    BY DEF IdlesType, CallersType
  <2>4. /\ w \in [IPs -> Kinds] /\ DOMAIN x = IPs /\ InLists(w, x, "idle", Keys, idles) /\ "idle" \in Kinds
        /\ toDelete' = [toDelete EXCEPT ![p] = Append(toDelete[p], c)]
    BY <2>1, <2>2 DEF Owned, Placement, InIdles, Kinds
  <2>5. c \in IPs /\ w[c] = "idle" /\ x[c] = k
    BY <2>1, <2>2, <2>3, <2>4, HeadPlace
  <2>6. PICK w2, x2 : Moved(w, x, c, "toDelete", p, w2, x2)
    BY DEF Moved
  <2>7. InIdles(w2, x2)'
    <3>1. "toDelete" \in Kinds \ {"idle"}
      BY DEF Kinds
    <3>2. InLists(w2, x2, "idle", Keys, [idles EXCEPT ![k] = Tail(idles[k])])
      BY <2>1, <2>2, <2>3, <2>4, <2>6, <3>1, HeadLeaves
    <3> QED
      BY <2>1, <3>2 DEF InIdles
  <2>8. InToDelete(w2, x2)'
    <3>1. InLists(w2, x2, "toDelete", Callers, [toDelete EXCEPT ![p] = Append(toDelete[p], c)])
      BY <2>3, <2>5, <2>6, ListGains DEF Owned, Placement, InToDelete, Kinds
    <3> QED
      BY <2>4, <3>1 DEF InToDelete
  <2>9. InHands(w2, x2)'
    BY <1>1, <1>3, <2>5, <2>6, HandSpared DEF Owned, Kinds
  <2>10. Placement(w2, x2)'
    BY <1>4, <2>5, <2>6, <2>7, <2>8, <2>9, Bystanders DEF Owned, Placement, Kinds
  <2>11. OtherHands(w, x, c) /\ OnlyContainer(c)
    BY <1>1, <1>3, <1>4, OthersStand DEF Owned, OnlyContainer, fields
  <2>12. Fields("toDelete", p, c)'
    <3>1. Fields("idle", k, c)
      BY <2>5 DEF Owned
    <3> QED
      BY <1>4, <3>1 DEF Fields, PauseAt, NoRulesAt, fields
  <2>13. \A d \in IPs : Fields(w2[d], x2[d], d)'
    BY <2>5, <2>6, <2>11, <2>12, FieldsFrame DEF Kinds
  <2> QED
    BY <2>10, <2>13 DEF Owned
<1> QED
  BY <1>5, <1>6

(* An evicted container goes to the goroutine that removes it.                  *)
LEMMA SendOwned ==
  ASSUME TypeInv, NEW w, NEW x, Owned(w, x), NEW p \in Callers, Send(p)
  PROVE  \E w2, x2 : Owned(w2, x2)'
<1> USE DEF TypeInv, TypeOK
<1>1. OnlyCaller(p)
  BY CallerFrame DEF Invocation
<1>2. pc[p] = "send" /\ pc'[p] \in {"prewarm", "send"}
  BY DEF Send, Goto, CallersType
<1>3. pc[p] \notin Hands /\ pc'[p] \notin Hands /\ toDelete[p] # <<>>
  BY <1>2 DEF Hands, CallerOK
<1>4. UNCHANGED <<toReap, deleting, creating, reconciler, idles, prewarmed, usableIPs, leaked, fields>>
  BY DEF Send, fields, idleVars, prewarmVars, reapVars, ctrVars
<1>5. PICK c : c = Head(toDelete[p])
  OBVIOUS
<1>6. toDelete \in [Callers -> Seq(IPs)] /\ deleteForSpace \in Seq(IPs)
  BY DEF CallersType, DeletionType
<1>7. /\ toDelete' = [toDelete EXCEPT ![p] = Tail(toDelete[p])]
      /\ deleteForSpace' = Append(deleteForSpace, c)
  BY <1>5 DEF Send
<1>8. w \in [IPs -> Kinds] /\ DOMAIN x = IPs /\ InLists(w, x, "toDelete", Callers, toDelete)
  BY DEF Owned, Placement, InToDelete
<1>9. c \in IPs /\ w[c] = "toDelete" /\ x[c] = p
  BY <1>3, <1>5, <1>6, <1>8, HeadPlace
<1>10. PICK w2, x2 : Moved(w, x, c, "deleteForSpace", p, w2, x2)
  BY DEF Moved
<1>11. InToDelete(w2, x2)'
  <2>1. "toDelete" \in Kinds /\ "deleteForSpace" \in Kinds \ {"toDelete"}
    BY DEF Kinds
  <2>2. InLists(w2, x2, "toDelete", Callers, [toDelete EXCEPT ![p] = Tail(toDelete[p])])
    BY <1>3, <1>5, <1>6, <1>8, <1>10, <2>1, HeadLeaves
  <2> QED
    BY <1>7, <2>2 DEF InToDelete
<1>12. InSpace(w2)'
  <2>1. IsInjective(deleteForSpace) /\ c \notin Range(deleteForSpace)
    BY <1>9 DEF Owned, Placement, InSpace
  <2>2. /\ IsInjective(deleteForSpace')
        /\ \A d : d \in Range(deleteForSpace') <=> d \in Range(deleteForSpace) \/ d = c
    BY <1>6, <1>7, <1>9, <2>1, AppendDistinct
  <2> QED
    BY <1>8, <1>9, <1>10, <2>2 DEF InSpace, Moved, Owned, Placement
<1>13. InHands(w2, x2)'
  BY <1>1, <1>3, <1>9, <1>10, HandSpared DEF Owned, Kinds
<1>14. Placement(w2, x2)'
  BY <1>4, <1>9, <1>10, <1>11, <1>12, <1>13, Bystanders DEF Owned, Placement, Kinds
<1>15. OtherHands(w, x, c) /\ OnlyContainer(c)
  BY <1>1, <1>3, <1>4, OthersStand DEF Owned, OnlyContainer, fields
<1>16. Fields("deleteForSpace", p, c)'
  <2>1. Fields("toDelete", p, c)
    BY <1>9 DEF Owned
  <2> QED
    BY <1>4, <2>1 DEF Fields, PauseAt, NoRulesAt, fields
<1>17. \A d \in IPs : Fields(w2[d], x2[d], d)'
  BY <1>9, <1>10, <1>15, <1>16, FieldsFrame DEF Kinds
<1> QED
  BY <1>14, <1>17 DEF Owned

(* A prewarm container is taken, or there is none.                              *)
LEMMA TakePrewarmOwned ==
  ASSUME TypeInv, NEW w, NEW x, Owned(w, x), NEW p \in Callers, TakePrewarm(p)
  PROVE  \E w2, x2 : Owned(w2, x2)'
<1> USE DEF TypeInv, TypeOK
<1>1. OnlyCaller(p)
  BY CallerFrame DEF Invocation
<1>2. PICK pk : pk = PrewarmKey[key[p]]
  OBVIOUS
<1>3. pc[p] = "prewarm" /\ pc[p] \notin Hands /\ key[p] \in Keys /\ pk \in PrewarmKeys /\ key' = key
  BY <1>2, KeyAssumption DEF TakePrewarm, Hands, CallerOK
<1>4. UNCHANGED <<toReap, deleting, creating, reconciler, deleteForSpace, toDelete, idles, usableIPs,
                  leaked, fields>>
  BY DEF TakePrewarm, fields, idleVars, deleteVars, reapVars, ctrVars
<1>5. CASE prewarmed[pk] = <<>>
  <2>1. pc'[p] = "create" /\ UNCHANGED prewarmed
    BY <1>2, <1>5 DEF TakePrewarm, Goto, CallersType
  <2> QED
    BY <1>1, <1>3, <1>4, <2>1, StaysElsewhere DEF stores, Hands
<1>6. CASE prewarmed[pk] # <<>>
  <2>1. PICK c : c = Head(prewarmed[pk])
    OBVIOUS
  <2>2. /\ pc'[p] = "poke" /\ ctr'[p] = c /\ key'[p] = key[p]
        /\ prewarmed' = [prewarmed EXCEPT ![pk] = Tail(prewarmed[pk])]
    BY <1>2, <1>3, <1>6, <2>1 DEF TakePrewarm, Goto, CallersType
  <2>3. /\ w \in [IPs -> Kinds] /\ DOMAIN x = IPs /\ InLists(w, x, "prewarmed", PrewarmKeys, prewarmed)
        /\ prewarmed \in [PrewarmKeys -> Seq(IPs)]
    BY DEF Owned, Placement, InPrewarmed, PrewarmType
  <2>4. c \in IPs /\ w[c] = "prewarmed" /\ x[c] = pk
    BY <1>3, <1>6, <2>1, <2>3, HeadPlace
  <2>5. PICK w2, x2 : Moved(w, x, c, "ctr", p, w2, x2)
    BY DEF Moved
  <2>6. InPrewarmed(w2, x2)'
    <3>1. "prewarmed" \in Kinds /\ "ctr" \in Kinds \ {"prewarmed"}
      BY DEF Kinds
    <3>2. InLists(w2, x2, "prewarmed", PrewarmKeys, [prewarmed EXCEPT ![pk] = Tail(prewarmed[pk])])
      BY <1>3, <1>6, <2>1, <2>3, <2>5, <3>1, HeadLeaves
    <3> QED
      BY <2>2, <3>2 DEF InPrewarmed
  <2>7. InHands(w2, x2)'
    BY <1>1, <1>3, <2>2, <2>4, <2>5, HandGains DEF Owned, Hands
  <2>8. Placement(w2, x2)'
    BY <1>4, <2>4, <2>5, <2>6, <2>7, Bystanders DEF Owned, Placement, Kinds
  <2>9. OtherHands(w, x, c) /\ OnlyContainer(c)
    BY <1>1, <1>3, <1>4, OthersStand DEF Owned, OnlyContainer, fields
  <2>10. Fields("ctr", p, c)'
    <3>1. Fields("prewarmed", pk, c)
      BY <2>4 DEF Owned
    <3> QED
      BY <1>2, <1>4, <2>2, <3>1 DEF Fields, InHand, Loaded, MemoryOf, PauseAt, NoRulesAt, fields
  <2>11. \A d \in IPs : Fields(w2[d], x2[d], d)'
    BY <2>4, <2>5, <2>9, <2>10, FieldsFrame DEF Kinds
  <2> QED
    BY <2>8, <2>11 DEF Owned
<1> QED
  BY <1>5, <1>6

(* A new container gets an IP, or there is none left.                           *)
LEMMA CreateOwned ==
  ASSUME TypeInv, NEW w, NEW x, Owned(w, x), NEW p \in Callers, Create(p)
  PROVE  \E w2, x2 : Owned(w2, x2)'
<1> USE DEF TypeInv, TypeOK
<1>1. OnlyCaller(p)
  BY CallerFrame DEF Invocation
<1>2. pc[p] = "create" /\ pc[p] \notin Hands /\ UNCHANGED <<shelves, idles, leaked, fields, key>>
  BY DEF Create, Hands, shelves, fields, idleVars, prewarmVars, deleteVars, reapVars
<1>3. CASE usableIPs = {}
  <2>1. pc'[p] = "uncount" /\ UNCHANGED usableIPs
    BY <1>3 DEF Create, Goto, CallersType
  <2> QED
    BY <1>1, <1>2, <2>1, StaysElsewhere DEF stores, shelves, Hands
<1>4. CASE usableIPs # {}
  <2>1. PICK c \in usableIPs : /\ usableIPs' = usableIPs \ {c} /\ ctr'[p] = c /\ pc'[p] = "creating"
    BY <1>4 DEF Create, Goto, CallersType
  <2>2. c \in IPs /\ w[c] = "usable"
    BY DEF ContainersType, Owned, Placement, InUsable
  <2>3. PICK w2, x2 : Moved(w, x, c, "ctr", p, w2, x2)
    BY DEF Moved
  <2>4. InUsable(w2)'
    BY <2>1, <2>2, <2>3 DEF InUsable, Moved, Owned, Placement
  <2>5. InHands(w2, x2)'
    BY <1>1, <1>2, <2>1, <2>2, <2>3, HandGains DEF Owned, Hands
  <2>6. Placement(w2, x2)'
    BY <1>2, <2>2, <2>3, <2>4, <2>5, Bystanders DEF Owned, Placement, Kinds, shelves
  <2>7. OtherHands(w, x, c) /\ OnlyContainer(c)
    BY <1>1, <1>2, OthersStand DEF Owned, OnlyContainer, fields
  <2>8. Fields("ctr", p, c)'
    <3>1. Fields("usable", x[c], c)
      BY <2>2 DEF Owned
    <3> QED
      BY <1>2, <2>1, <3>1 DEF Fields, InHand, Loaded, PauseAt, NoRulesAt, fields
  <2>9. \A d \in IPs : Fields(w2[d], x2[d], d)'
    BY <2>2, <2>3, <2>7, <2>8, FieldsFrame DEF Kinds
  <2> QED
    BY <2>6, <2>9 DEF Owned
<1> QED
  BY <1>3, <1>4

(* The container is up, resumed or has its rules, or it is given up.            *)
LEMMA HandledOwned ==
  ASSUME TypeInv, MemOK, NEW w, NEW x, Owned(w, x), NEW p \in Callers,
         Created(p) \/ Unpause(p) \/ Firewall(p) \/ PutToDestroy(p)
  PROVE  \E w2, x2 : Owned(w2, x2)'
<1> USE DEF TypeInv, TypeOK
<1>1. OnlyCaller(p)
  BY CallerFrame DEF Invocation
<1>2. pc[p] \in Hands /\ UNCHANGED <<shelves, idles>> /\ key' = key
  BY DEF Created, Unpause, Firewall, PutToDestroy, Hands, shelves, idleVars, prewarmVars, deleteVars,
         reapVars
<1>3. ctr[p] \in IPs /\ key[p] \in Keys /\ Fields("ctr", p, ctr[p])
  BY <1>2, HandFields
<1>4. ASSUME pc'[p] = "uncount", Remove(ctr[p]) \/ CleanupContainer(ctr[p]),
             UNCHANGED pausing \/ pausing' = pausing \ {ctr[p]},
             UNCHANGED pausing => pc[p] \notin {"unpause", "append"}
      PROVE  \E w2, x2 : Owned(w2, x2)'
  <2>1. pausing' = pausing \ {ctr[p]}
    BY <1>3, <1>4 DEF Fields, PauseAt
  <2> QED
    BY <1>1, <1>2, <1>4, <2>1, RemovedFromHand
<1>5. ASSUME UNCHANGED <<usableIPs, leaked>>, pc'[p] \in Hands, ctr'[p] = ctr[p],
             OnlyContainer(ctr[p]), Fields("ctr", p, ctr[p])'
      PROVE  \E w2, x2 : Owned(w2, x2)'
  BY <1>1, <1>2, <1>5, StaysInHand DEF stores, shelves
<1>6. CASE Created(p)
  <2>1. pc[p] = "creating" /\ UNCHANGED pausing
    BY <1>6 DEF Created
  <2>2. CASE CleanupContainer(ctr[p]) /\ Goto(p, "uncount")
    BY <1>4, <2>1, <2>2 DEF Goto, CallersType
  <2>3. CASE ~(CleanupContainer(ctr[p]) /\ Goto(p, "uncount"))
    <3>1. /\ memory' = [memory EXCEPT ![ctr[p]] = mem[p]]
          /\ initializedFor' = [initializedFor EXCEPT ![ctr[p]] = key[p]]
          /\ pc'[p] = "fwCold" /\ UNCHANGED <<ctr, usableIPs, leaked, loaded, firewalled>>
      BY <1>6, <2>3 DEF Created, Provisioned, Goto, CallersType
    <3>2. OnlyContainer(ctr[p])
      BY <1>3, <2>1, <3>1 DEF OnlyContainer, ContainersType
    <3>3. mem[p] = MemoryOf(key[p])
      BY <2>1 DEF MemOK
    <3>4. Fields("ctr", p, ctr[p])'
      BY <1>2, <1>3, <2>1, <3>1, <3>3 DEF Fields, InHand, Loaded, PauseAt, NoRulesAt, ContainersType
    <3> QED
      BY <1>5, <3>1, <3>2, <3>4 DEF Hands
  <2> QED
    BY <2>2, <2>3
<1>7. CASE Unpause(p)
  <2>1. pc[p] = "unpause" /\ pausing' = pausing \ {ctr[p]}
    BY <1>7 DEF Unpause, UnpauseIfNeeded
  <2>2. CASE CleanupContainer(ctr[p]) /\ Goto(p, "uncount")
    <3>1. ctr[p] \in pausing
      BY <1>7 DEF Unpause, UnpauseIfNeeded
    <3>2. ~UNCHANGED pausing
      BY <2>1, <3>1
    <3> QED
      BY <1>4, <2>1, <2>2, <3>2 DEF Goto, CallersType
  <2>3. CASE ~(CleanupContainer(ctr[p]) /\ Goto(p, "uncount"))
    <3>1. /\ pc'[p] = "fwWarm"
          /\ UNCHANGED <<ctr, usableIPs, leaked, memory, initializedFor, loaded, firewalled>>
      BY <1>7, <2>3 DEF Unpause, Goto, CallersType
    <3>2. OnlyContainer(ctr[p]) /\ Fields("ctr", p, ctr[p])'
      BY <1>2, <1>3, <2>1, <3>1 DEF OnlyContainer, Fields, InHand, Loaded, PauseAt, NoRulesAt
    <3> QED
      BY <1>5, <3>1, <3>2 DEF Hands
  <2> QED
    BY <2>2, <2>3
<1>8. CASE Firewall(p)
  <2>1. pc[p] \in {"fwWarm", "fwPrewarm", "fwCold"} /\ UNCHANGED pausing
    BY <1>8 DEF Firewall
  <2>2. CASE CleanupContainer(ctr[p]) /\ Goto(p, "uncount")
    BY <1>4, <2>1, <2>2 DEF Goto, CallersType
  <2>3. CASE ~(CleanupContainer(ctr[p]) /\ Goto(p, "uncount"))
    <3>1. /\ firewalled' = firewalled \cup {ctr[p]} \/ firewalled' = firewalled \ {ctr[p]}
          /\ initializedFor' = [initializedFor EXCEPT ![ctr[p]] = IF pc[p] = "fwPrewarm" THEN key[p] ELSE @]
          /\ pc'[p] = IF pc[p] = "fwWarm" THEN "run" ELSE "init"
          /\ UNCHANGED <<ctr, usableIPs, leaked, memory, loaded>>
      BY <1>8, <2>3 DEF Firewall, Goto, AfterFirewall, CallersType
    <3>2. OnlyContainer(ctr[p])
      BY <1>3, <2>1, <3>1 DEF OnlyContainer, ContainersType
    <3>3. Fields("ctr", p, ctr[p])'
      BY <1>2, <1>3, <2>1, <3>1 DEF Fields, InHand, Loaded, PauseAt, NoRulesAt, ContainersType
    <3> QED
      BY <1>5, <3>1, <3>2, <3>3 DEF Hands
  <2> QED
    BY <2>2, <2>3
<1>9. CASE PutToDestroy(p)
  BY <1>4, <1>9 DEF PutToDestroy, Goto, CallersType
<1> QED
  BY <1>6, <1>7, <1>8, <1>9

(* The second half of Put: the container joins the list of its function.        *)
LEMMA PutIdleOwned ==
  ASSUME TypeInv, NEW w, NEW x, Owned(w, x), NEW p \in Callers, PutIdle(p)
  PROVE  \E w2, x2 : Owned(w2, x2)'
<1> USE DEF TypeInv, TypeOK
<1>1. OnlyCaller(p)
  BY CallerFrame DEF Invocation
<1>2. /\ pc[p] = "append" /\ pc'[p] = "uncount" /\ UNCHANGED <<shelves, usableIPs, leaked, fields>>
  BY DEF PutIdle, Goto, CallersType, shelves, fields, prewarmVars, deleteVars, reapVars, ctrVars
<1>3. pc[p] \in Hands /\ pc'[p] \notin Hands
  BY <1>2 DEF Hands
<1>4. PICK c, k : c = ctr[p] /\ k = key[p]
  OBVIOUS
<1>5. c \in IPs /\ k \in Keys /\ w[c] = "ctr" /\ Fields("ctr", p, c)
  BY <1>3, <1>4, HandFields
<1>6. idles' = [idles EXCEPT ![k] = Append(idles[k], c)]
  <2>1. initializedFor[c] = k
    BY <1>2, <1>4, <1>5 DEF Fields, InHand
  <2> QED
    BY <1>4, <2>1 DEF PutIdle
<1>7. PICK w2, x2 : Moved(w, x, c, "idle", k, w2, x2)
  BY DEF Moved
<1>8. InIdles(w2, x2)'
  <2>1. /\ w \in [IPs -> Kinds] /\ DOMAIN x = IPs /\ InLists(w, x, "idle", Keys, idles)
        /\ idles \in [Keys -> Seq(IPs)] /\ "idle" \in Kinds
    BY DEF Owned, Placement, InIdles, IdlesType, Kinds
  <2>2. InLists(w2, x2, "idle", Keys, [idles EXCEPT ![k] = Append(idles[k], c)])
    BY <1>5, <1>7, <2>1, ListGains
  <2> QED
    BY <1>6, <2>2 DEF InIdles
<1>9. InHands(w2, x2)'
  BY <1>1, <1>3, <1>4, <1>7, HandLoses DEF Owned, Kinds
<1>10. Placement(w2, x2)'
  BY <1>2, <1>5, <1>7, <1>8, <1>9, Bystanders DEF Owned, Placement, Kinds, shelves
<1>11. OtherHands(w, x, c) /\ OnlyContainer(c)
  BY <1>1, <1>2, <1>4, OthersStand DEF Owned, OnlyContainer, fields
<1>12. Fields("idle", k, c)'
  BY <1>2, <1>4, <1>5 DEF Fields, InHand, Loaded, PauseAt, NoRulesAt, fields
<1>13. \A d \in IPs : Fields(w2[d], x2[d], d)'
  BY <1>5, <1>7, <1>11, <1>12, FieldsFrame DEF Kinds
<1> QED
  BY <1>10, <1>13 DEF Owned

--------------------------------------------------------------------------------
(* Steps of the background goroutines and of Shutdown.                          *)

(* A container that nobody has in hands is removed.                             *)
LEMMA RemovedFromStore ==
  ASSUME TypeInv, NEW w, NEW x, Owned(w, x), NEW c \in IPs, w[c] \notin {"usable", "leaked", "ctr", "toDelete"},
         UNCHANGED callerVars, Remove(c) \/ CleanupContainer(c), pausing' = pausing \ {c},
         \A kind \in {"usable", "leaked"} : \A w2, x2 : Moved(w, x, c, kind, c, w2, x2) =>
           /\ InReap(w2)' /\ InDeleting(w2)' /\ InCreating(w2)' /\ InSpace(w2)'
           /\ InIdles(w2, x2)' /\ InPrewarmed(w2, x2)'
  PROVE  \E w2, x2 : Owned(w2, x2)'
<1>1. PICK kind \in {"usable", "leaked"} :
         /\ OnlyContainer(c)
         /\ \A i : Fields(kind, i, c)'
         /\ \A w2 : w2 = [w EXCEPT ![c] = kind] => InUsable(w2)' /\ InLeaked(w2)'
  BY Removal
<1>2. PICK w2, x2 : Moved(w, x, c, kind, c, w2, x2)
  BY DEF Moved
<1>3. InUsable(w2)' /\ InLeaked(w2)'
  BY <1>1, <1>2 DEF Moved
<1>4. /\ InReap(w2)' /\ InDeleting(w2)' /\ InCreating(w2)' /\ InSpace(w2)'
      /\ InIdles(w2, x2)' /\ InPrewarmed(w2, x2)'
  BY <1>2
<1>5. InToDelete(w2, x2)'
  BY <1>2, Bystanders DEF Owned, callerVars, Kinds
<1>6. InHands(w2, x2)'
  BY <1>2, Bystanders DEF Owned, callerVars, Kinds
<1>7. OtherHands(w, x, c)
  BY DEF OtherHands, callerVars
<1>8. \A d \in IPs : Fields(w2[d], x2[d], d)'
  BY <1>1, <1>2, <1>7, FieldsFrame DEF Kinds
<1>9. w2 \in [IPs -> Kinds] /\ DOMAIN x2 = IPs /\ x2 = [d \in IPs |-> x2[d]]
  BY <1>2, Bystanders DEF Owned, Kinds
<1> QED
  BY <1>3, <1>4, <1>5, <1>6, <1>8, <1>9 DEF Owned, Placement

(* The goroutine that removes evicted containers.                               *)
LEMMA DeleterOwned ==
  ASSUME TypeInv, NEW w, NEW x, Owned(w, x), Deleter
  PROVE  \E w2, x2 : Owned(w2, x2)'
<1> USE DEF TypeInv, TypeOK
<1>1. UNCHANGED callerVars /\ UNCHANGED <<toReap, creating, reconciler, idles, prewarmed>>
  BY DEF Deleter, DeleterReceive, DeleterRemove, DeleterStop, idleVars, prewarmVars, reapVars
<1>2. w \in [IPs -> Kinds] /\ DOMAIN x = IPs
  BY DEF Owned, Placement
<1>3. CASE DeleterReceive
  <2>1. PICK c, t : c = Head(deleteForSpace) /\ t = Tail(deleteForSpace)
    OBVIOUS
  <2>2. /\ deleting = NoCtr /\ deleting' = c /\ deleteForSpace' = t /\ deleteForSpace # <<>>
        /\ deleteForSpace \in Seq(IPs) /\ UNCHANGED <<usableIPs, leaked, fields>>
    BY <1>3, <2>1 DEF DeleterReceive, DeletionType, ctrVars, fields
  <2>3. Shortened(t, deleteForSpace, c) /\ c \in Range(deleteForSpace) /\ c \in IPs
    BY <2>1, <2>2, TailDistinct, TailType DEF Owned, Placement, InSpace
  <2>4. w[c] = "deleteForSpace" /\ \A d \in IPs : w[d] # "deleting"
    BY <2>2, <2>3, ContainerAssumption DEF Owned, Placement, InSpace, InDeleting
  <2>5. PICK w2, x2 : Moved(w, x, c, "deleting", c, w2, x2)
    BY DEF Moved
  <2>6. \A d \in IPs : w2[d] = IF d = c THEN "deleting" ELSE w[d]
    BY <1>2, <2>5 DEF Moved
  <2>7. InSpace(w2)'
    BY <2>2, <2>3, <2>6 DEF InSpace, Shortened, Owned, Placement
  <2>8. InDeleting(w2)'
    BY <2>2, <2>4, <2>6 DEF InDeleting
  <2>9. Placement(w2, x2)'
    BY <1>1, <2>2, <2>3, <2>4, <2>5, <2>7, <2>8, Bystanders DEF Owned, Placement, Kinds, callerVars
  <2>10. OtherHands(w, x, c) /\ OnlyContainer(c)
    BY <1>1, <2>2 DEF OtherHands, OnlyContainer, callerVars, fields
  <2>11. Fields("deleting", c, c)'
    <3>1. Fields("deleteForSpace", x[c], c)
      BY <2>3, <2>4 DEF Owned
    <3> QED
      BY <2>2, <3>1 DEF Fields, PauseAt, NoRulesAt, fields
  <2>12. \A d \in IPs : Fields(w2[d], x2[d], d)'
    BY <2>3, <2>5, <2>10, <2>11, FieldsFrame DEF Kinds
  <2> QED
    BY <2>9, <2>12 DEF Owned
<1>4. CASE DeleterRemove
  <2>1. PICK c \in IPs : c = deleting
    BY <1>4 DEF DeleterRemove
  <2>2. /\ Remove(c) \/ CleanupContainer(c)
        /\ pausing' = pausing \ {c} /\ deleting' = NoCtr /\ UNCHANGED deleteForSpace
    BY <1>4, <2>1 DEF DeleterRemove, UnpauseAndRemove, UnpauseIfNeeded
  <2>3. w[c] = "deleting" /\ \A d \in IPs : d # c => w[d] # "deleting"
    BY <2>1 DEF Owned, Placement, InDeleting
  <2>4. ASSUME NEW kind \in {"usable", "leaked"}, NEW w2, NEW x2, Moved(w, x, c, kind, c, w2, x2)
        PROVE  /\ InReap(w2)' /\ InDeleting(w2)' /\ InCreating(w2)' /\ InSpace(w2)'
               /\ InIdles(w2, x2)' /\ InPrewarmed(w2, x2)'
    <3>1. \A d \in IPs : w2[d] = IF d = c THEN kind ELSE w[d]
      BY <1>2, <2>4 DEF Moved
    <3>2. InDeleting(w2)'
      BY <2>2, <2>3, <3>1, ContainerAssumption DEF InDeleting
    <3> QED
      BY <1>1, <2>2, <2>3, <2>4, <3>2, Bystanders DEF Owned, Kinds
  <2> QED
    BY <1>1, <2>2, <2>3, <2>4, RemovedFromStore
<1>5. CASE DeleterStop
  <2>1. /\ deleting = NoCtr /\ deleting' = "stopped"
        /\ UNCHANGED <<deleteForSpace, usableIPs, leaked, fields>>
    BY <1>5 DEF DeleterStop, ctrVars, fields
  <2>2. InDeleting(w)'
    BY <2>1, ContainerAssumption DEF Owned, Placement, InDeleting
  <2>3. InHands(w, x)'
    BY <1>1 DEF Owned, Placement, InHands, HasCtr, callerVars
  <2>4. Placement(w, x)'
    BY <1>1, <2>1, <2>2, <2>3 DEF Owned, Placement, callerVars, InUsable, InLeaked, InReap, InCreating,
                                  InSpace, InIdles, InPrewarmed, InToDelete
  <2>5. \A d \in IPs : Fields(w[d], x[d], d)'
    BY <1>1, <2>1 DEF Owned, callerVars, Fields, InHand, PauseAt, NoRulesAt, fields
  <2> QED
    BY <2>4, <2>5 DEF Owned
<1> QED
  BY <1>3, <1>4, <1>5 DEF Deleter

(* The reaper.                                                                  *)
LEMMA ReaperOwned ==
  ASSUME TypeInv, NEW w, NEW x, Owned(w, x), ReapLock \/ Reap \/ ReaperStop
  PROVE  \E w2, x2 : Owned(w2, x2)'
<1> USE DEF TypeInv, TypeOK
<1>1. UNCHANGED callerVars /\ UNCHANGED <<deleteForSpace, deleting, creating, reconciler, prewarmed>>
  BY DEF ReapLock, Reap, ReapCollect, ReapUnlock, ReapRemove, ReapDone, ReaperStop, deleteVars, prewarmVars
<1>2. w \in [IPs -> Kinds] /\ DOMAIN x = IPs
  BY DEF Owned, Placement
<1>3. CASE ReapLock \/ ReapUnlock \/ ReapDone \/ ReaperStop
  <2>1. UNCHANGED <<idles, toReap, usableIPs, leaked, fields>>
    BY <1>3 DEF ReapLock, ReapUnlock, ReapDone, ReaperStop, idleVars, reapVars, ctrVars, fields
  <2>2. creating' # NoCtr <=> reconciler' = "creating"
    BY <1>1 DEF Owned, Placement, InCreating
  <2> QED
    BY <1>1, <2>1, <2>2, StaysAll
<1>4. CASE ReapCollect
  <2>1. PICK k \in Keys : /\ idles[k] # <<>> /\ idles' = [idles EXCEPT ![k] = Tail(idles[k])]
                          /\ toReap' = toReap \cup {Head(idles[k])}
    BY <1>4 DEF ReapCollect, Reapable, DropHead
  <2>2. PICK c : c = Head(idles[k])
    OBVIOUS
  <2>3. idles \in [Keys -> Seq(IPs)] /\ InLists(w, x, "idle", Keys, idles) /\ UNCHANGED <<usableIPs, leaked, fields>>
    BY <1>4 DEF IdlesType, Owned, Placement, InIdles, ReapCollect, ctrVars, fields
  <2>4. c \in IPs /\ w[c] = "idle" /\ x[c] = k
    BY <2>1, <2>2, <2>3, HeadPlace
  <2>5. PICK w2, x2 : Moved(w, x, c, "toReap", c, w2, x2)
    BY DEF Moved
  <2>6. InIdles(w2, x2)'
    <3>1. "idle" \in Kinds /\ "toReap" \in Kinds \ {"idle"}
      BY DEF Kinds
    <3>2. InLists(w2, x2, "idle", Keys, [idles EXCEPT ![k] = Tail(idles[k])])
      BY <1>2, <2>1, <2>2, <2>3, <2>5, <3>1, HeadLeaves
    <3> QED
      BY <2>1, <3>2 DEF InIdles
  <2>7. InReap(w2)'
    BY <1>2, <2>1, <2>2, <2>4, <2>5 DEF InReap, Moved, Owned, Placement
  <2>8. Placement(w2, x2)'
    BY <1>1, <2>3, <2>4, <2>5, <2>6, <2>7, Bystanders DEF Owned, Placement, Kinds, callerVars
  <2>9. OtherHands(w, x, c) /\ OnlyContainer(c)
    BY <1>1, <2>3 DEF OtherHands, OnlyContainer, callerVars, fields
  <2>10. Fields("toReap", c, c)'
    <3>1. Fields("idle", k, c)
      BY <2>4 DEF Owned
    <3> QED
      BY <2>3, <3>1 DEF Fields, PauseAt, NoRulesAt, fields
  <2>11. \A d \in IPs : Fields(w2[d], x2[d], d)'
    BY <2>4, <2>5, <2>9, <2>10, FieldsFrame DEF Kinds
  <2> QED
    BY <2>8, <2>11 DEF Owned
<1>5. CASE ReapRemove
  <2>1. PICK c \in toReap : /\ Remove(c) \/ CleanupContainer(c)
                            /\ pausing' = pausing \ {c} /\ toReap' = toReap \ {c}
    BY <1>5 DEF ReapRemove, UnpauseAndRemove, UnpauseIfNeeded
  <2>2. c \in IPs /\ w[c] = "toReap" /\ UNCHANGED idles
    BY <1>5 DEF DeletionType, Owned, Placement, InReap, ReapRemove, idleVars
  <2>3. ASSUME NEW kind \in {"usable", "leaked"}, NEW w2, NEW x2, Moved(w, x, c, kind, c, w2, x2)
        PROVE  /\ InReap(w2)' /\ InDeleting(w2)' /\ InCreating(w2)' /\ InSpace(w2)'
               /\ InIdles(w2, x2)' /\ InPrewarmed(w2, x2)'
    <3>1. InReap(w2)'
      BY <1>2, <2>1, <2>2, <2>3 DEF InReap, Moved, Owned, Placement
    <3> QED
      BY <1>1, <2>2, <2>3, <3>1, Bystanders DEF Owned, Kinds
  <2> QED
    BY <1>1, <2>1, <2>2, <2>3, RemovedFromStore
<1> QED
  BY <1>3, <1>4, <1>5 DEF Reap

(* The prewarm reconciler.                                                      *)
LEMMA ReconcilerOwned ==
  ASSUME TypeInv, NEW w, NEW x, Owned(w, x), Reconciler
  PROVE  \E w2, x2 : Owned(w2, x2)'
<1> USE DEF TypeInv, TypeOK
<1>1. UNCHANGED callerVars /\ UNCHANGED <<deleteForSpace, deleting, toReap, idles, pausing>>
  BY DEF Reconciler, ReconcilePlan, PrewarmCreate, PrewarmCreated, ReconcileDone, ReconcilerStop, idleVars,
         deleteVars, reapVars, ctrVars
<1>2. /\ w \in [IPs -> Kinds] /\ DOMAIN x = IPs
      /\ creating # NoCtr <=> reconciler = "creating"
  BY DEF Owned, Placement, InCreating
<1>3. CASE ReconcilePlan \/ ReconcileDone \/ ReconcilerStop
  <2>1. UNCHANGED <<prewarmed, creating, usableIPs, leaked, fields>>
    BY <1>3 DEF ReconcilePlan, ReconcileDone, ReconcilerStop, ctrVars, fields
  <2>2. reconciler # "creating" /\ reconciler' # "creating"
    BY <1>3 DEF ReconcilePlan, ReconcileDone, ReconcilerStop
  <2> QED
    BY <1>1, <1>2, <2>1, <2>2, StaysAll
<1>4. CASE PrewarmCreate
  <2>1. UNCHANGED <<prewarmed, leaked, fields>> /\ creating = NoCtr
    BY <1>2, <1>4 DEF PrewarmCreate, fields
  <2>2. CASE UNCHANGED creating
    <3>1. ASSUME NEW pk \in PrewarmKeys, NEW c \in IPs PROVE creating # [pk |-> pk, c |-> c]
      BY <2>1, ContainerAssumption
    <3>2. UNCHANGED usableIPs /\ reconciler' = "waiting"
      BY <1>4, <2>2, <3>1 DEF PrewarmCreate, Retry, ContainersType
    <3> QED
      BY <1>1, <2>1, <2>2, <3>2, StaysAll
  <2>3. CASE ~UNCHANGED creating
    <3>1. PICK pk \in PrewarmKeys, c \in usableIPs :
              /\ usableIPs' = usableIPs \ {c} /\ creating' = [pk |-> pk, c |-> c] /\ reconciler' = "creating"
      BY <1>4, <2>3 DEF PrewarmCreate
    <3>2. c \in IPs /\ w[c] = "usable" /\ creating' # NoCtr /\ creating'.c = c
      BY <3>1, ContainerAssumption DEF ContainersType, Owned, Placement, InUsable
    <3>3. PICK w2, x2 : Moved(w, x, c, "creating", c, w2, x2)
      BY DEF Moved
    <3>4. \A d \in IPs : w2[d] = IF d = c THEN "creating" ELSE w[d]
      BY <1>2, <3>3 DEF Moved
    <3>5. InUsable(w2)' /\ InCreating(w2)'
      BY <2>1, <3>1, <3>2, <3>4 DEF InUsable, InCreating, Owned, Placement
    <3>6. Placement(w2, x2)'
      BY <1>1, <2>1, <3>2, <3>3, <3>5, Bystanders DEF Owned, Placement, Kinds, callerVars
    <3>7. OtherHands(w, x, c) /\ OnlyContainer(c)
      BY <1>1, <2>1 DEF OtherHands, OnlyContainer, callerVars, fields
    <3>8. Fields("creating", c, c)'
      <4>1. Fields("usable", x[c], c)
        BY <3>2 DEF Owned
      <4> QED
        BY <2>1, <4>1 DEF Fields, PauseAt, NoRulesAt, fields
    <3>9. \A d \in IPs : Fields(w2[d], x2[d], d)'
      BY <3>2, <3>3, <3>7, <3>8, FieldsFrame DEF Kinds
    <3> QED
      BY <3>6, <3>9 DEF Owned
  <2> QED
    BY <2>2, <2>3
<1>5. CASE PrewarmCreated
  <2>1. reconciler = "creating" /\ creating' = NoCtr /\ creating \in [pk : PrewarmKeys, c : IPs]
    BY <1>5 DEF PrewarmCreated
  <2>2. PICK c \in IPs, pk \in PrewarmKeys : c = creating.c /\ pk = creating.pk
    BY <2>1
  <2>3. w[c] = "creating" /\ \A d \in IPs : d # c => w[d] # "creating"
    BY <1>2, <2>1, <2>2 DEF Owned, Placement, InCreating
  <2>4. Fields("creating", x[c], c)
    BY <2>3 DEF Owned
  <2>5. CASE CleanupContainer(c) /\ Retry /\ UNCHANGED prewarmed
    <3>1. reconciler' = "waiting" /\ pausing' = pausing \ {c}
      BY <1>1, <2>4, <2>5 DEF Retry, Fields, PauseAt
    <3>2. ASSUME NEW kind \in {"usable", "leaked"}, NEW w2, NEW x2, Moved(w, x, c, kind, c, w2, x2)
          PROVE  /\ InReap(w2)' /\ InDeleting(w2)' /\ InCreating(w2)' /\ InSpace(w2)'
                 /\ InIdles(w2, x2)' /\ InPrewarmed(w2, x2)'
      <4>1. InCreating(w2)'
        BY <1>2, <2>1, <2>3, <3>1, <3>2 DEF InCreating, Moved
      <4> QED
        BY <1>1, <2>3, <2>5, <3>2, <4>1, Bystanders DEF Owned, Kinds
    <3> QED
      BY <1>1, <2>3, <2>5, <3>1, <3>2, RemovedFromStore
  <2>6. CASE ~(CleanupContainer(c) /\ Retry /\ UNCHANGED prewarmed)
    <3>1. /\ memory' = [memory EXCEPT ![c] = Memory[pk]]
          /\ prewarmed' = [prewarmed EXCEPT ![pk] = Append(prewarmed[pk], c)]
          /\ reconciler' = "planned" /\ UNCHANGED <<usableIPs, leaked, initializedFor, loaded, firewalled>>
      BY <1>5, <2>2, <2>6 DEF PrewarmCreated, Provisioned
    <3>2. PICK w2, x2 : Moved(w, x, c, "prewarmed", pk, w2, x2)
      BY DEF Moved
    <3>3. InCreating(w2)'
      BY <1>2, <2>1, <2>3, <3>1, <3>2 DEF InCreating, Moved
    <3>4. InPrewarmed(w2, x2)'
      <4>1. /\ prewarmed \in [PrewarmKeys -> Seq(IPs)] /\ InLists(w, x, "prewarmed", PrewarmKeys, prewarmed)
            /\ "prewarmed" \in Kinds
        BY DEF PrewarmType, Owned, Placement, InPrewarmed, Kinds
      <4>2. InLists(w2, x2, "prewarmed", PrewarmKeys, [prewarmed EXCEPT ![pk] = Append(prewarmed[pk], c)])
        BY <1>2, <2>3, <3>2, <4>1, ListGains
      <4> QED
        BY <3>1, <4>2 DEF InPrewarmed
    <3>5. Placement(w2, x2)'
      BY <1>1, <2>3, <3>1, <3>2, <3>3, <3>4, Bystanders DEF Owned, Placement, Kinds, callerVars
    <3>6. OtherHands(w, x, c) /\ OnlyContainer(c)
      BY <1>1, <3>1 DEF OtherHands, OnlyContainer, callerVars, ContainersType
    <3>7. Fields("prewarmed", pk, c)'
      BY <1>1, <2>4, <3>1 DEF Fields, PauseAt, NoRulesAt, ContainersType
    <3>8. \A d \in IPs : Fields(w2[d], x2[d], d)'
      BY <3>2, <3>6, <3>7, FieldsFrame DEF Kinds
    <3> QED
      BY <3>5, <3>8 DEF Owned
  <2> QED
    BY <2>5, <2>6
<1> QED
  BY <1>3, <1>4, <1>5 DEF Reconciler

(* Shutdown.                                                                    *)
LEMMA ShutdownOwned ==
  ASSUME TypeInv, NEW w, NEW x, Owned(w, x), Shutdown \/ ShutDown
  PROVE  \E w2, x2 : Owned(w2, x2)'
<1> USE DEF TypeInv, TypeOK
<1>1. UNCHANGED callerVars /\ UNCHANGED <<deleteForSpace, deleting, toReap, creating, reconciler>>
  BY DEF Shutdown, ShutDown, ShutdownWait, ShutdownIdle, ShutdownPrewarmed, ShutdownDone, prewarmVars,
         deleteVars, reapVars
<1>2. w \in [IPs -> Kinds] /\ DOMAIN x = IPs
  BY DEF Owned, Placement
<1>3. CASE Shutdown \/ ShutdownWait \/ ShutdownDone
  <2>1. UNCHANGED <<idles, prewarmed, usableIPs, leaked, fields>>
    BY <1>3 DEF Shutdown, ShutdownWait, ShutdownDone, idleVars, prewarmVars, ctrVars, fields
  <2>2. creating' # NoCtr <=> reconciler' = "creating"
    BY <1>1 DEF Owned, Placement, InCreating
  <2> QED
    BY <1>1, <2>1, <2>2, StaysAll
<1>4. CASE ShutdownIdle
  <2>1. PICK k \in Keys : /\ idles[k] # <<>> /\ idles' = [idles EXCEPT ![k] = Tail(idles[k])]
                          /\ UnpauseAndRemove(Head(idles[k]))
    BY <1>4 DEF ShutdownIdle
  <2>2. PICK c : c = Head(idles[k])
    OBVIOUS
  <2>3. /\ idles \in [Keys -> Seq(IPs)] /\ InLists(w, x, "idle", Keys, idles) /\ UNCHANGED prewarmed
        /\ Remove(c) \/ CleanupContainer(c)
        /\ pausing' = pausing \ {c}
    BY <1>4, <2>1, <2>2 DEF IdlesType, Owned, Placement, InIdles, ShutdownIdle, prewarmVars, UnpauseAndRemove,
                            UnpauseIfNeeded
  <2>4. c \in IPs /\ w[c] = "idle" /\ x[c] = k
    BY <2>1, <2>2, <2>3, HeadPlace
  <2>5. ASSUME NEW kind \in {"usable", "leaked"}, NEW w2, NEW x2, Moved(w, x, c, kind, c, w2, x2)
        PROVE  /\ InReap(w2)' /\ InDeleting(w2)' /\ InCreating(w2)' /\ InSpace(w2)'
               /\ InIdles(w2, x2)' /\ InPrewarmed(w2, x2)'
    <3>1. "idle" \in Kinds /\ kind \in Kinds \ {"idle"}
      BY DEF Kinds
    <3>2. InLists(w2, x2, "idle", Keys, [idles EXCEPT ![k] = Tail(idles[k])])
      BY <1>2, <2>1, <2>2, <2>3, <2>5, <3>1, HeadLeaves
    <3>3. InIdles(w2, x2)'
      BY <2>1, <3>2 DEF InIdles
    <3> QED
      BY <1>1, <2>3, <2>4, <2>5, <3>3, Bystanders DEF Owned, Kinds
  <2> QED
    BY <1>1, <2>3, <2>4, <2>5, RemovedFromStore
<1>5. CASE ShutdownPrewarmed
  <2>1. PICK pk \in PrewarmKeys : /\ prewarmed[pk] # <<>> /\ Remove(Head(prewarmed[pk]))
                                  /\ prewarmed' = [prewarmed EXCEPT ![pk] = Tail(prewarmed[pk])]
    BY <1>5 DEF ShutdownPrewarmed
  <2>2. PICK c : c = Head(prewarmed[pk])
    OBVIOUS
  <2>3. /\ prewarmed \in [PrewarmKeys -> Seq(IPs)] /\ InLists(w, x, "prewarmed", PrewarmKeys, prewarmed)
        /\ UNCHANGED <<idles, pausing>> /\ Remove(c)
    BY <1>5, <2>1, <2>2 DEF PrewarmType, Owned, Placement, InPrewarmed, ShutdownPrewarmed, idleVars
  <2>4. c \in IPs /\ w[c] = "prewarmed" /\ x[c] = pk
    BY <2>1, <2>2, <2>3, HeadPlace
  <2>5. pausing' = pausing \ {c}
    <3>1. Fields("prewarmed", pk, c)
      BY <2>4 DEF Owned
    <3> QED
      BY <2>3, <3>1 DEF Fields, PauseAt
  <2>6. ASSUME NEW kind \in {"usable", "leaked"}, NEW w2, NEW x2, Moved(w, x, c, kind, c, w2, x2)
        PROVE  /\ InReap(w2)' /\ InDeleting(w2)' /\ InCreating(w2)' /\ InSpace(w2)'
               /\ InIdles(w2, x2)' /\ InPrewarmed(w2, x2)'
    <3>1. "prewarmed" \in Kinds /\ kind \in Kinds \ {"prewarmed"}
      BY DEF Kinds
    <3>2. InLists(w2, x2, "prewarmed", PrewarmKeys, [prewarmed EXCEPT ![pk] = Tail(prewarmed[pk])])
      BY <1>2, <2>1, <2>2, <2>3, <2>6, <3>1, HeadLeaves
    <3>3. InPrewarmed(w2, x2)'
      BY <2>1, <3>2 DEF InPrewarmed
    <3> QED
      BY <1>1, <2>3, <2>4, <2>6, <3>3, Bystanders DEF Owned, Kinds
  <2> QED
    BY <1>1, <2>3, <2>4, <2>5, <2>6, RemovedFromStore
<1> QED
  BY <1>3, <1>4, <1>5 DEF ShutDown

--------------------------------------------------------------------------------
(* The invariant.                                                               *)

(* At first every IP is usable.                                                 *)
LEMMA InitOwner == Init => OwnerInv
<1> SUFFICES ASSUME Init PROVE OwnerInv
  OBVIOUS
<1>1. PICK w, x : w = [c \in IPs |-> "usable"] /\ x = [c \in IPs |-> c]
  OBVIOUS
<1>2. /\ \A k \in Keys : idles[k] = <<>>
      /\ \A pk \in PrewarmKeys : prewarmed[pk] = <<>>
      /\ \A p \in Callers : toDelete[p] = <<>>
      /\ deleteForSpace = <<>>
  BY DEF Init
<1>3. IsInjective(<<>>) /\ Range(<<>>) = {}
  BY DEF IsInjective, Range
<1>4. /\ w \in [IPs -> Kinds] /\ DOMAIN x = IPs /\ x = [c \in IPs |-> x[c]]
      /\ \A c \in IPs : w[c] = "usable"
  BY <1>1 DEF Kinds
<1>5. InIdles(w, x) /\ InPrewarmed(w, x) /\ InToDelete(w, x) /\ InSpace(w)
  BY <1>2, <1>3, <1>4 DEF InIdles, InPrewarmed, InToDelete, InSpace, InLists
<1>6. InUsable(w) /\ InLeaked(w) /\ InReap(w) /\ InDeleting(w) /\ InCreating(w)
  BY <1>4, ContainerAssumption DEF Init, InUsable, InLeaked, InReap, InDeleting, InCreating
<1>7. InHands(w, x)
  BY <1>4 DEF Init, InHands, HasCtr
<1>8. \A c \in IPs : Fields(w[c], x[c], c)
  BY <1>4 DEF Init, Fields, PauseAt, NoRulesAt
<1>9. MemOK
  BY DEF Init, MemOK
<1> QED
  BY <1>4, <1>5, <1>6, <1>7, <1>8, <1>9, InitTypeInv DEF OwnerInv, Owned, Placement

(* The memory an invocation asked for is what it returns.                       *)
LEMMA MemStep ==
  ASSUME TypeInv, MemOK, NEW w, NEW x, Owned(w, x), NEW p \in Callers,
         (\E k \in Keys : Get(p, k)) \/ Invocation(p)
  PROVE  MemOK'
<1> USE DEF TypeInv, TypeOK, CallersType, Goto
<1>1. OnlyCaller(p)
  BY CallerFrame
<1>2. pc'[p] # "idle" => mem'[p] = MemoryOf(key'[p])
  <2>1. ASSUME NEW k \in Keys, Get(p, k) PROVE mem'[p] = MemoryOf(key'[p])
    BY <2>1 DEF Get
  <2>2. CASE Release(p)
    BY <2>2 DEF Release
  <2>3. CASE PutToDestroy(p) \/ Put(p)
    <3>1. pc[p] \in {"init", "run"} /\ mem'[p] = memory[ctr[p]] /\ key' = key
      BY <2>3 DEF PutToDestroy, Put
    <3>2. pc[p] \in Hands
      BY <3>1 DEF Hands
    <3>3. InHand(ctr[p], pc[p], key[p])
      BY <3>2, HandFields DEF Fields
    <3> QED
      BY <3>1, <3>3 DEF InHand
  <2>4. CASE Count(p) \/ LookupWarm(p) \/ LookupCold(p) \/ EvictOne(p) \/ Send(p) \/ TakePrewarm(p)
             \/ Poke(p) \/ Create(p)
    <3>1. pc[p] # "idle" /\ UNCHANGED <<mem, key>>
      BY <2>4 DEF Count, LookupWarm, LookupCold, EvictOne, Send, TakePrewarm, Poke, Create
    <3> QED
      BY <3>1 DEF MemOK
  <2>5. CASE Created(p) \/ Unpause(p) \/ Firewall(p) \/ Initialize(p) \/ PutIdle(p) \/ Uncount(p)
    <3>1. pc[p] # "idle" /\ UNCHANGED <<mem, key>>
      BY <2>5 DEF Created, Unpause, Firewall, Initialize, PutIdle, Uncount
    <3> QED
      BY <3>1 DEF MemOK
  <2> QED
    BY <2>1, <2>2, <2>3, <2>4, <2>5 DEF Invocation
<1> QED
  BY <1>1, <1>2 DEF OnlyCaller, MemOK, MemoryOf

(* Every step keeps an assignment of the containers to their places.            *)
LEMMA StepOwner == OwnerInv /\ [Next]_vars => OwnerInv'
<1> SUFFICES ASSUME OwnerInv, [Next]_vars PROVE OwnerInv'
  OBVIOUS
<1>1. TypeInv /\ MemOK /\ TypeInv'
  BY StepTypeInv DEF OwnerInv
<1>2. PICK w, x : Owned(w, x)
  BY DEF OwnerInv
<1>3. ASSUME NEW p \in Callers, (\E k \in Keys : Get(p, k)) \/ Invocation(p)
      PROVE  MemOK' /\ \E w2, x2 : Owned(w2, x2)'
  <2>1. MemOK'
    BY <1>1, <1>2, <1>3, MemStep
  <2>2. \E w2, x2 : Owned(w2, x2)'
    BY <1>1, <1>2, <1>3, InvocationSteps, StillSteps, InHandSteps, LookupWarmOwned, EvictOwned, SendOwned,
       TakePrewarmOwned, CreateOwned, HandledOwned, PutIdleOwned DEF OnIdles, OnPrewarmed, OnContainer
  <2> QED
    BY <2>1, <2>2
<1>4. CASE Grant
  <2>1. PICK p \in Callers : /\ pc[p] = "wait" /\ pc' = [pc EXCEPT ![p] = "count"]
                             /\ UNCHANGED <<key, mem, seen, ctr, toDelete>>
    <3>1. Head(waiters) \in Callers /\ pc[Head(waiters)] = "wait"
      BY <1>1, <1>4, TailType DEF Grant, TypeInv, TypeOK, CapacityType, WaitersOK
    <3> QED
      BY <1>4, <3>1 DEF Grant, Goto
  <2>2. OnlyCaller(p) /\ pc[p] \notin Hands /\ pc'[p] \notin Hands /\ UNCHANGED <<stores, fields>>
    BY <1>1, <1>4, <2>1 DEF Grant, OnlyCaller, Hands, stores, fields, idleVars, prewarmVars, deleteVars,
                            reapVars, ctrVars, TypeInv, TypeOK, CallersType
  <2>3. MemOK'
    BY <1>1, <2>1 DEF MemOK, MemoryOf, TypeInv, TypeOK, CallersType
  <2> QED
    BY <1>1, <1>2, <2>2, <2>3, StaysElsewhere DEF OwnerInv
<1>5. CASE Deleter \/ ReapLock \/ Reap \/ ReaperStop \/ Reconciler \/ Shutdown \/ ShutDown
  <2>1. MemOK'
    BY <1>1, <1>5, BackgroundFrame DEF MemOK, callerVars
  <2> QED
    BY <1>1, <1>2, <1>5, <2>1, DeleterOwned, ReaperOwned, ReconcilerOwned, ShutdownOwned DEF OwnerInv
<1>6. CASE UNCHANGED vars
  <2>1. MemOK'
    BY <1>1, <1>6 DEF MemOK, vars
  <2>2. creating' # NoCtr <=> reconciler' = "creating"
    BY <1>2, <1>6 DEF Owned, Placement, InCreating, vars
  <2>3. Owned(w, x)'
    BY <1>2, <1>6, <2>2, StaysAll DEF vars, callerVars, fields
  <2> QED
    BY <1>1, <2>1, <2>3 DEF OwnerInv
<1> QED
  BY <1>1, <1>3, <1>4, <1>5, <1>6 DEF Next, OwnerInv

(* Every container has a place of its own and the fields its place requires, in  *)
(* every reachable state of a pool of any size.                                 *)
THEOREM OwnerInvariance == Spec => []OwnerInv
  BY InitOwner, StepOwner, PTL DEF Spec

--------------------------------------------------------------------------------
(* What the assignment says about the pool.                                     *)

(* Whatever fails, is evicted, reaped or cleaned up, an IP whose per-container   *)
(* firewall rules are still installed is never handed to a new container.       *)
THEOREM RulesAlwaysBlock == Spec => []RulesBlockIP
<1>1. OwnerInv => RulesBlockIP
  <2> SUFFICES ASSUME OwnerInv PROVE RulesBlockIP
    OBVIOUS
  <2>1. PICK w, x : Owned(w, x)
    BY DEF OwnerInv
  <2>2. TypeInv
    BY DEF OwnerInv
  <2>3. ASSUME NEW c \in usableIPs PROVE c \notin firewalled
    <3>1. c \in IPs
      BY <2>2 DEF TypeInv, TypeOK, ContainersType
    <3>2. w[c] = "usable"
      BY <2>1, <3>1 DEF Owned, Placement, InUsable
    <3> QED
      BY <2>1, <3>1, <3>2 DEF Owned, Fields, NoRulesAt
  <2>4. ASSUME NEW p \in Callers, pc[p] \in {"creating", "fwCold", "fwPrewarm"} PROVE ctr[p] \notin firewalled
    <3>1. p \in HasCtr /\ ctr[p] \in IPs
      BY <2>2, <2>4 DEF HasCtr, TypeInv, CallerOK
    <3>2. w[ctr[p]] = "ctr" /\ x[ctr[p]] = p
      BY <2>1, <3>1 DEF Owned, Placement, InHands
    <3> QED
      BY <2>1, <2>4, <3>1, <3>2 DEF Owned, Fields, NoRulesAt
  <2> QED
    BY <2>3, <2>4 DEF RulesBlockIP
<1> QED
  BY <1>1, OwnerInvariance, PTL

(* Exactly the containers that will meet an UnpauseIfNeeded, or are idle until   *)
(* one, have a scheduled pause: no UnpauseIfNeeded of Get, the reaper, the       *)
(* remover or Shutdown blocks for want of a PauseEventually, and no pause is     *)
(* left behind in a container that was lent or removed.                          *)
THEOREM PauseAlwaysMatched == Spec => []PauseMatched
<1>1. OwnerInv => PauseMatched
  <2> SUFFICES ASSUME OwnerInv PROVE PauseMatched
    OBVIOUS
  <2>1. PICK w, x : Owned(w, x)
    BY DEF OwnerInv
  <2>2. TypeInv /\ TypeOK
    BY DEF OwnerInv, TypeInv
  <2> DEFINE handed == {ctr[p] : p \in {q \in Callers : pc[q] \in {"unpause", "append"}}}
             evicted == UNION {Range(toDelete[p]) : p \in Callers}
             places == IdleSet \cup toReap \cup Range(deleteForSpace) \cup ({deleting} \cap IPs)
                         \cup evicted \cup handed
  <2>3. places \subseteq IPs
    <3>1. IdleSet \subseteq IPs /\ toReap \subseteq IPs
      BY <2>2, IdleSetType DEF TypeOK, DeletionType
    <3>2. Range(deleteForSpace) \subseteq IPs /\ evicted \subseteq IPs
      BY <2>2 DEF TypeOK, DeletionType, CallersType, Range
    <3>3. handed \subseteq IPs
      BY <2>2 DEF TypeInv, CallerOK
    <3> QED
      BY <3>1, <3>2, <3>3
  <2>4. ASSUME NEW c \in IPs PROVE c \in pausing <=> c \in places
    <3>1. c \in IdleSet <=> w[c] = "idle"
      BY <2>1 DEF Owned, Placement, InIdles, InLists, IdleSet
    <3>2. c \in evicted <=> w[c] = "toDelete"
      BY <2>1 DEF Owned, Placement, InToDelete, InLists
    <3>3. /\ c \in toReap <=> w[c] = "toReap"
          /\ c \in Range(deleteForSpace) <=> w[c] = "deleteForSpace"
          /\ c \in {deleting} \cap IPs <=> w[c] = "deleting"
      BY <2>1 DEF Owned, Placement, InReap, InSpace, InDeleting
    <3>4. c \in handed <=> w[c] = "ctr" /\ pc[x[c]] \in {"unpause", "append"}
      BY <2>1 DEF Owned, Placement, InHands, HasCtr
    <3>5. c \in pausing <=> PauseAt(w[c], pc[x[c]])
      BY <2>1 DEF Owned, Fields
    <3> HIDE DEF handed, evicted
    <3> QED
      BY <3>1, <3>2, <3>3, <3>4, <3>5 DEF PauseAt
  <2>5. pausing \subseteq IPs
    BY <2>2 DEF TypeOK, ContainersType
  <2>6. PauseMatched <=> pausing = places
    BY DEF PauseMatched
  <2> HIDE DEF places
  <2> QED
    BY <2>3, <2>4, <2>5, <2>6
<1> QED
  BY <1>1, OwnerInvariance, PTL

\* S has one slot of the kind for each container that is in a place of the kind.
Slotted(S, kind, w) ==
  /\ \A s \in S : s[1] = kind /\ s[3] \in IPs /\ w[s[3]] = kind
  /\ \A s, t \in S : s[3] = t[3] => s = t
  /\ \A c \in IPs : w[c] = kind => \E s \in S : s[3] = c

\* The slots of a family of lists.
SlotsOf(kind, I, lists) == UNION {{<<kind, <<k, i>>, lists[k][i]>> : i \in DOMAIN lists[k]} : k \in I}

(* A family of lists that agrees with the assignment has one slot for each of    *)
(* its containers.                                                              *)
LEMMA ListSlots ==
  ASSUME NEW kind, NEW I, NEW lists \in [I -> Seq(IPs)], NEW w, NEW x, InLists(w, x, kind, I, lists)
  PROVE  Slotted(SlotsOf(kind, I, lists), kind, w)
<1> DEFINE slots == SlotsOf(kind, I, lists)
<1>1. \A s \in slots : \E k \in I : \E i \in DOMAIN lists[k] : s = <<kind, <<k, i>>, lists[k][i]>>
  BY DEF SlotsOf
<1>2. \A k \in I : \A i \in DOMAIN lists[k] : <<kind, <<k, i>>, lists[k][i]>> \in slots
  BY DEF SlotsOf
<1> HIDE DEF slots
<1>3. \A k \in I : \A i \in DOMAIN lists[k] :
        lists[k][i] \in IPs /\ w[lists[k][i]] = kind /\ x[lists[k][i]] = k
  BY DEF InLists, Range
<1>4. \A s \in slots : s[1] = kind /\ s[3] \in IPs /\ w[s[3]] = kind
  BY <1>1, <1>3
<1>5. ASSUME NEW s \in slots, NEW t \in slots, s[3] = t[3] PROVE s = t
  <2>1. PICK k \in I : \E i \in DOMAIN lists[k] : s = <<kind, <<k, i>>, lists[k][i]>>
    BY <1>1
  <2>2. PICK i \in DOMAIN lists[k] : s = <<kind, <<k, i>>, lists[k][i]>>
    BY <2>1
  <2>3. PICK l \in I : \E j \in DOMAIN lists[l] : t = <<kind, <<l, j>>, lists[l][j]>>
    BY <1>1
  <2>4. PICK j \in DOMAIN lists[l] : t = <<kind, <<l, j>>, lists[l][j]>>
    BY <2>3
  <2>5. lists[k][i] = lists[l][j]
    BY <1>5, <2>2, <2>4
  <2>6. k = l
    BY <1>3, <2>5
  <2>7. i = j
    BY <2>5, <2>6 DEF InLists, IsInjective
  <2> QED
    BY <2>2, <2>4, <2>6, <2>7
<1>6. ASSUME NEW c \in IPs, w[c] = kind PROVE \E s \in slots : s[3] = c
  <2>1. PICK k \in I : c \in Range(lists[k])
    BY <1>6 DEF InLists
  <2>2. PICK i \in DOMAIN lists[k] : lists[k][i] = c
    BY <2>1 DEF Range
  <2> QED
    BY <1>2, <2>2
<1>7. Slotted(slots, kind, w)
  BY <1>4, <1>5, <1>6 DEF Slotted
<1> QED
  BY <1>7 DEF slots

\* The slots of a family of containers f, indexed by J, which agrees with the assignment.
Indexed(S, kind, J, f) ==
  /\ \A s \in S : \E i \in J : s = <<kind, i, f[i]>>
  /\ \A i \in J : <<kind, i, f[i]>> \in S
Agrees(J, f, kind, w) ==
  /\ \A i \in J : f[i] \in IPs /\ w[f[i]] = kind
  /\ \A i, j \in J : f[i] = f[j] => i = j
  /\ \A c \in IPs : w[c] = kind => \E i \in J : f[i] = c

(* Such a family has one slot for each of its containers.                       *)
LEMMA IndexedSlots ==
  ASSUME NEW S, NEW kind, NEW J, NEW f, NEW w, Indexed(S, kind, J, f), Agrees(J, f, kind, w)
  PROVE  Slotted(S, kind, w)
<1>1. \A s \in S : s[1] = kind /\ s[3] \in IPs /\ w[s[3]] = kind
  BY DEF Indexed, Agrees
<1>2. ASSUME NEW s \in S, NEW t \in S, s[3] = t[3] PROVE s = t
  <2>1. PICK i \in J : s = <<kind, i, f[i]>>
    BY DEF Indexed
  <2>2. PICK j \in J : t = <<kind, j, f[j]>>
    BY DEF Indexed
  <2>3. i = j
    BY <1>2, <2>1, <2>2 DEF Agrees
  <2> QED
    BY <2>1, <2>2, <2>3
<1>3. ASSUME NEW c \in IPs, w[c] = kind PROVE \E s \in S : s[3] = c
  <2>1. PICK i \in J : f[i] = c
    BY <1>3 DEF Agrees
  <2>2. <<kind, i, f[i]>> \in S
    BY DEF Indexed
  <2> QED
    BY <2>1, <2>2
<1> QED
  BY <1>1, <1>2, <1>3 DEF Slotted

(* So has a set of containers.                                                  *)
LEMMA SetSlots ==
  ASSUME NEW kind, NEW C, C \subseteq IPs, NEW w, \A c \in IPs : w[c] = kind <=> c \in C
  PROVE  Slotted({<<kind, c, c>> : c \in C}, kind, w)
<1> DEFINE slots == {<<kind, c, c>> : c \in C}
           name  == [c \in C |-> c]
<1>1. Indexed(slots, kind, C, name)
  BY DEF Indexed
<1>2. Agrees(C, name, kind, w)
  BY DEF Agrees
<1> HIDE DEF name
<1> QED
  BY <1>1, <1>2, IndexedSlots, Zenon

(* Every container is usable, given up or in exactly one place, in every         *)
(* reachable state: none is lent twice, none is idle and being deleted, and no   *)
(* error path of Get, Put, the reaper, the reconciler or Shutdown loses one.     *)
THEOREM AlwaysSoleOwner == Spec => []SoleOwner
<1>1. OwnerInv => SoleOwner
  <2> SUFFICES ASSUME OwnerInv PROVE SoleOwner
    OBVIOUS
  <2>1. PICK w, x : Owned(w, x)
    BY DEF OwnerInv
  <2>2. TypeInv /\ TypeOK /\ Placement(w, x)
    BY <2>1 DEF OwnerInv, TypeInv, Owned
  <2> DEFINE usable    == {<<"usable", c, c>> : c \in usableIPs}
             lost      == {<<"leaked", c, c>> : c \in leaked}
             idle      == SlotsOf("idle", Keys, idles)
             warm      == SlotsOf("prewarmed", PrewarmKeys, prewarmed)
             evicted   == SlotsOf("toDelete", Callers, toDelete)
             sent      == {<<"deleteForSpace", i, deleteForSpace[i]>> : i \in DOMAIN deleteForSpace}
             handed    == {<<"ctr", p, ctr[p]>> : p \in HasCtr}
             reaped    == {<<"toReap", c, c>> : c \in toReap}
             removed   == {<<"deleting", c, c>> : c \in {deleting} \cap IPs}
             created   == {<<"creating", r.pk, r.c>> : r \in {creating} \ {NoCtr}}
  <2>3. Slots = usable \cup lost \cup idle \cup warm \cup evicted \cup sent \cup handed \cup reaped
                  \cup removed \cup created
    BY DEF Slots, SlotsOf
  <2>4. Slotted(idle, "idle", w)
    <3>1. idles \in [Keys -> Seq(IPs)] /\ InLists(w, x, "idle", Keys, idles)
      BY <2>2 DEF TypeOK, IdlesType, Placement, InIdles
    <3> QED
      BY <3>1, ListSlots
  <2>5. Slotted(warm, "prewarmed", w)
    <3>1. prewarmed \in [PrewarmKeys -> Seq(IPs)] /\ InLists(w, x, "prewarmed", PrewarmKeys, prewarmed)
      BY <2>2 DEF TypeOK, PrewarmType, Placement, InPrewarmed
    <3> QED
      BY <3>1, ListSlots
  <2>6. Slotted(evicted, "toDelete", w)
    <3>1. toDelete \in [Callers -> Seq(IPs)] /\ InLists(w, x, "toDelete", Callers, toDelete)
      BY <2>2 DEF TypeOK, CallersType, Placement, InToDelete
    <3> QED
      BY <3>1, ListSlots
  <2>7. Slotted(usable, "usable", w) /\ Slotted(lost, "leaked", w)
    <3>1. usableIPs \subseteq IPs /\ leaked \subseteq IPs
      BY <2>2 DEF TypeOK, ContainersType
    <3>2. \A c \in IPs : w[c] = "usable" <=> c \in usableIPs
      BY <2>2 DEF Placement, InUsable
    <3>3. \A c \in IPs : w[c] = "leaked" <=> c \in leaked
      BY <2>2 DEF Placement, InLeaked
    <3> QED
      BY <3>1, <3>2, <3>3, SetSlots, Zenon
  <2>8. Slotted(reaped, "toReap", w) /\ Slotted(removed, "deleting", w)
    <3>1. toReap \subseteq IPs /\ {deleting} \cap IPs \subseteq IPs
      BY <2>2 DEF TypeOK, DeletionType
    <3>2. \A c \in IPs : w[c] = "toReap" <=> c \in toReap
      BY <2>2 DEF Placement, InReap
    <3>3. \A c \in IPs : w[c] = "deleting" <=> c \in {deleting} \cap IPs
      BY <2>2 DEF Placement, InDeleting
    <3> QED
      BY <3>1, <3>2, <3>3, SetSlots, Zenon
  <2>9. Slotted(handed, "ctr", w)
    <3>1. Agrees(HasCtr, ctr, "ctr", w)
      <4>1. \A p \in HasCtr : ctr[p] \in IPs /\ w[ctr[p]] = "ctr" /\ x[ctr[p]] = p
        BY <2>2 DEF TypeInv, CallerOK, HasCtr, Placement, InHands
      <4>2. \A c \in IPs : w[c] = "ctr" => x[c] \in HasCtr /\ ctr[x[c]] = c
        BY <2>2 DEF Placement, InHands
      <4> QED
        BY <4>1, <4>2 DEF Agrees
    <3>2. Indexed(handed, "ctr", HasCtr, ctr)
      BY DEF Indexed
    <3> QED
      BY <3>1, <3>2, IndexedSlots, Zenon
  <2>10. Slotted(sent, "deleteForSpace", w)
    <3>1. Agrees(DOMAIN deleteForSpace, deleteForSpace, "deleteForSpace", w)
      <4>1. \A i \in DOMAIN deleteForSpace : deleteForSpace[i] \in IPs
                                               /\ w[deleteForSpace[i]] = "deleteForSpace"
        BY <2>2 DEF TypeOK, DeletionType, Placement, InSpace, Range
      <4>2. \A i, j \in DOMAIN deleteForSpace : deleteForSpace[i] = deleteForSpace[j] => i = j
        BY <2>2 DEF Placement, InSpace, IsInjective
      <4>3. \A c \in IPs : w[c] = "deleteForSpace" => \E i \in DOMAIN deleteForSpace : deleteForSpace[i] = c
        BY <2>2 DEF Placement, InSpace, Range
      <4> QED
        BY <4>1, <4>2, <4>3 DEF Agrees
    <3>2. Indexed(sent, "deleteForSpace", DOMAIN deleteForSpace, deleteForSpace)
      BY DEF Indexed
    <3> QED
      BY <3>1, <3>2, IndexedSlots, Zenon
  <2>11. Slotted(created, "creating", w)
    <3>1. creating # NoCtr => creating \in [pk : PrewarmKeys, c : IPs]
      BY <2>2 DEF TypeOK, PrewarmType
    <3>2. creating # NoCtr => creating.c \in IPs /\ w[creating.c] = "creating"
      BY <2>2, <3>1 DEF Placement, InCreating
    <3>3. \A c \in IPs : w[c] = "creating" => creating # NoCtr /\ creating.c = c
      BY <2>2 DEF Placement, InCreating
    <3>4. \A s \in created : s = <<"creating", creating.pk, creating.c>> /\ creating # NoCtr
      OBVIOUS
    <3>5. creating # NoCtr => <<"creating", creating.pk, creating.c>> \in created
      OBVIOUS
    <3> HIDE DEF created
    <3> QED
      BY <3>2, <3>3, <3>4, <3>5 DEF Slotted
  <2> HIDE DEF usable, lost, idle, warm, evicted, sent, handed, reaped, removed, created
  <2>12. ASSUME NEW c \in IPs PROVE \E s \in Slots : s[3] = c
    <3>1. w[c] \in Kinds
      BY <2>2 DEF Placement
    <3> QED
      BY <2>3, <2>4, <2>5, <2>6, <2>7, <2>8, <2>9, <2>10, <2>11, <3>1 DEF Slotted, Kinds
  <2>13. ASSUME NEW s \in Slots, NEW t \in Slots, s[3] = t[3] PROVE s = t
    <3>1. s[1] = w[s[3]] /\ t[1] = w[t[3]]
      BY <2>3, <2>4, <2>5, <2>6, <2>7, <2>8, <2>9, <2>10, <2>11 DEF Slotted
    <3>2. s[1] = t[1]
      BY <2>13, <3>1
    <3> QED
      BY <2>3, <2>4, <2>5, <2>6, <2>7, <2>8, <2>9, <2>10, <2>11, <2>13, <3>2 DEF Slotted
  <2> QED
    BY <2>12, <2>13 DEF SoleOwner
<1> QED
  BY <1>1, OwnerInvariance, PTL

--------------------------------------------------------------------------------
(* The memory accounts.  A sum over a set is the number of its units, so that    *)
(* each step is a change of one summand.                                         *)

\* What p contributes to the sum of the sizes over S.
Share(S, size, p) == IF p \in S THEN size[p] ELSE 0

(* There are finitely many units.                                               *)
LEMMA UnitsFinite ==
  ASSUME NEW S, IsFiniteSet(S), NEW size
  PROVE  IsFiniteSet(Units(S, size)) /\ Cardinality(Units(S, size)) \in Nat
<1>1. IsFiniteSet(1..MaxMemory)
  BY FS_Interval, BoundAssumption
<1>2. IsFiniteSet(S \X (1..MaxMemory))
  BY <1>1, FS_Product
<1>3. Units(S, size) \in SUBSET (S \X (1..MaxMemory))
  BY DEF Units
<1> QED
  BY <1>2, <1>3, FS_Subset, FS_CardinalityType

(* A sum is the share of one element and the sum over the others.               *)
LEMMA UnitsSplit ==
  ASSUME NEW S, IsFiniteSet(S), NEW size, NEW p, p \in S => size[p] \in 0..MaxMemory
  PROVE  Cardinality(Units(S, size)) = Cardinality(Units(S \ {p}, size)) + Share(S, size, p)
<1>1. CASE p \notin S
  <2>1. S \ {p} = S
    BY <1>1
  <2> QED
    BY <1>1, <2>1, UnitsFinite DEF Share
<1>2. CASE p \in S
  <2> DEFINE own  == {p} \X (1..size[p])
             rest == Units(S \ {p}, size)
  <2>1. IsFiniteSet(S \ {p})
    BY FS_RemoveElement
  <2>2. IsFiniteSet(rest) /\ Cardinality(rest) \in Nat
    BY <2>1, UnitsFinite
  <2>3. IsFiniteSet(own) /\ Cardinality(own) = size[p]
    <3>1. size[p] \in Nat /\ 1 \in Int
      BY <1>2, BoundAssumption
    <3>2. IsFiniteSet(1..size[p]) /\ Cardinality(1..size[p]) = size[p]
      BY <3>1, FS_Interval
    <3>3. IsFiniteSet({p}) /\ Cardinality({p}) = 1
      BY FS_Singleton
    <3>4. IsFiniteSet(own) /\ Cardinality(own) = Cardinality({p}) * Cardinality(1..size[p])
      BY <3>2, <3>3, FS_Product
    <3> QED
      BY <3>1, <3>2, <3>3, <3>4
  <2>4. Units(S, size) = rest \cup own
    <3>1. \A i \in 1..MaxMemory : i <= size[p] <=> i \in 1..size[p]
      BY <1>2, BoundAssumption
    <3>2. 1..size[p] \subseteq 1..MaxMemory
      BY <1>2, BoundAssumption
    <3> QED
      BY <1>2, <3>1, <3>2 DEF Units
  <2>5. rest \cap own = {}
    BY DEF Units
  <2> HIDE DEF own, rest
  <2>6. Cardinality(Units(S, size)) = Cardinality(rest) + Cardinality(own)
    <3>1. Cardinality(rest \cup own) = Cardinality(rest) + Cardinality(own) - Cardinality(rest \cap own)
      BY <2>2, <2>3, FS_Union
    <3>2. Cardinality(rest \cap own) = 0
      BY <2>5, FS_EmptySet
    <3>3. Cardinality(own) \in Nat
      BY <2>3, FS_CardinalityType
    <3> QED
      BY <2>2, <2>4, <3>1, <3>2, <3>3
  <2> QED
    BY <1>2, <2>3, <2>6 DEF rest, Share
<1> QED
  BY <1>1, <1>2

(* Sums over sets that differ in one element differ in its share.               *)
LEMMA UnitsChange ==
  ASSUME NEW S, IsFiniteSet(S), NEW T, IsFiniteSet(T), NEW size, NEW size2, NEW p,
         \A q : q # p => (q \in S <=> q \in T),
         \A q \in S : q # p => size2[q] = size[q],
         p \in S => size[p] \in 0..MaxMemory, p \in T => size2[p] \in 0..MaxMemory
  PROVE  Cardinality(Units(T, size2)) =
           Cardinality(Units(S, size)) - Share(S, size, p) + Share(T, size2, p)
<1>1. Units(S \ {p}, size) = Units(T \ {p}, size2)
  BY DEF Units
<1>2. /\ Cardinality(Units(S, size)) = Cardinality(Units(S \ {p}, size)) + Share(S, size, p)
      /\ Cardinality(Units(T, size2)) = Cardinality(Units(T \ {p}, size2)) + Share(T, size2, p)
  BY UnitsSplit
<1>3. Cardinality(Units(S \ {p}, size)) \in Nat
  BY FS_RemoveElement, UnitsFinite
<1>4. Share(S, size, p) \in Int /\ Share(T, size2, p) \in Int
  BY BoundAssumption DEF Share
<1> QED
  BY <1>1, <1>2, <1>3, <1>4

(* A sum over fewer elements is not larger.                                     *)
LEMMA UnitsMonotone ==
  ASSUME NEW S, IsFiniteSet(S), NEW T, T \subseteq S, NEW size
  PROVE  Cardinality(Units(T, size)) <= Cardinality(Units(S, size))
<1>1. Units(T, size) \in SUBSET Units(S, size)
  BY DEF Units
<1> QED
  BY <1>1, UnitsFinite, FS_Subset

(* An empty sum.                                                                *)
LEMMA UnitsEmpty ==
  ASSUME NEW size
  PROVE  Cardinality(Units({}, size)) = 0
<1>1. Units({}, size) = {}
  BY DEF Units
<1> QED
  BY <1>1, FS_EmptySet

--------------------------------------------------------------------------------
(* The inductive invariant.                                                     *)

\* The locations where an invocation holds nothing of the semaphore, where it is not in
\* inFlightMemory, and where it has no container in addition to the idle ones.
Away      == {"idle", "wait", "oversize"}
Uncounted == Away \cup {"count", "release"}
Unplaced  == Uncounted \cup {"lookup", "evict", "uncount"}
\* What the invocations elsewhere ask for, and what the idle containers occupy.
Elsewhere(L) == {p \in Callers : pc[p] \notin L}
Total(L)  == Cardinality(Units(Elsewhere(L), mem))
IdleTotal == Cardinality(Units(IdleSet, memory))

\* Nobody who asks for more than there is gets past Acquire, hence none returns a container.
MemFits  == \A p \in Callers : pc[p] \notin {"idle", "oversize"} => mem[p] \in 1..MaxMemory
IdlesFit == \A k \in Keys : idles[k] # <<>> => MemoryOf(k) <= MaxMemory
\* The three accounts.
CountersExact == inFlight = Total(Away) /\ inFlight <= MaxMemory /\ inFlightMemory = Total(Uncounted)
IdlesExact    == phase \in {"running", "closing"} => idlesMemory = IdleTotal
\* What an invocation took for the memory in flight includes its own and fits the invoker.
SeenBetween   == \A p \in Callers : pc[p] \in {"lookup", "evict"} => mem[p] <= seen[p] /\ seen[p] <= MaxMemory
\* Who holds idlesMux over several steps; nobody does once Shutdown was called.
MuxHeld == /\ \A p \in Callers : pc[p] = "evict" <=> idlesMux = p
           /\ reaper = "locked" <=> idlesMux = Reaper
           /\ phase # "running" => \A p \in Callers : pc[p] = "idle"
\* The loop that makes space goes on only as long as there is too little.
Evicting == \A p \in Callers : pc[p] = "evict" => ~Fits(p, idlesMemory)

AccountInv ==
  /\ OwnerInv /\ MemFits /\ IdlesFit /\ CountersExact /\ IdlesExact /\ SeenBetween /\ MuxHeld /\ Evicting
  /\ MemoryBound

(* The sums of the properties are those of the invariant.                       *)
LEMMA Sums ==
  /\ Cardinality(Units(Holding, mem)) = Total(Away)
  /\ Cardinality(Units(Counted, mem)) = Total(Uncounted)
  /\ Cardinality(Units(Placed, mem)) = Total(Unplaced)
<1>1. Holding = Elsewhere(Away)
  BY DEF Holding, Elsewhere, Away
<1>2. Counted = Elsewhere(Uncounted)
  BY DEF Counted, Elsewhere, Away, Uncounted
<1>3. Placed = Elsewhere(Unplaced)
  BY DEF Placed, Counted, Elsewhere, Away, Uncounted, Unplaced
<1> QED
  BY <1>1, <1>2, <1>3 DEF Total

(* Fewer locations, no less memory.                                             *)
LEMMA Totals ==
  /\ Total(Unplaced) \in Nat /\ Total(Uncounted) \in Nat /\ Total(Away) \in Nat
  /\ Total(Unplaced) <= Total(Uncounted) /\ Total(Uncounted) <= Total(Away)
<1>1. \A L : IsFiniteSet(Elsewhere(L))
  BY FiniteAssumption, FS_Subset DEF Elsewhere
<1>2. Elsewhere(Unplaced) \subseteq Elsewhere(Uncounted) /\ Elsewhere(Uncounted) \subseteq Elsewhere(Away)
  BY DEF Elsewhere, Unplaced, Uncounted
<1> QED
  BY <1>1, <1>2, UnitsFinite, UnitsMonotone DEF Total

(* A step of one invocation changes the sums by what it asks for.               *)
LEMMA TotalStep ==
  ASSUME TypeOK, NEW p \in Callers, OnlyCaller(p), MemFits, MemFits', NEW L, {"idle", "oversize"} \subseteq L
  PROVE  Total(L)' = Total(L) - (IF pc[p] \in L THEN 0 ELSE mem[p]) + (IF pc'[p] \in L THEN 0 ELSE mem'[p])
<1>1. PICK S, T, m, n : S = Elsewhere(L) /\ T = Elsewhere(L)' /\ m = mem /\ n = mem'
  OBVIOUS
<1>2. IsFiniteSet(S) /\ IsFiniteSet(T)
  BY <1>1, FiniteAssumption, FS_Subset DEF Elsewhere
<1>3. \A q : q # p => (q \in S <=> q \in T)
  BY <1>1 DEF Elsewhere, OnlyCaller
<1>4. \A q \in S : q # p => n[q] = m[q]
  BY <1>1 DEF Elsewhere, OnlyCaller
<1>5. /\ p \in S <=> pc[p] \notin L
      /\ p \in T <=> pc'[p] \notin L
  BY <1>1 DEF Elsewhere
<1>6. /\ p \in S => m[p] \in 0..MaxMemory
      /\ p \in T => n[p] \in 0..MaxMemory
  BY <1>1, <1>5, BoundAssumption DEF MemFits
<1>7. Cardinality(Units(T, n)) = Cardinality(Units(S, m)) - Share(S, m, p) + Share(T, n, p)
  BY <1>2, <1>3, <1>4, <1>6, UnitsChange
<1>8. Total(L) = Cardinality(Units(S, m))
  BY <1>1 DEF Total
<1>9. Total(L)' = Cardinality(Units(T, n))
  BY <1>1 DEF Total, Units
<1> QED
  BY <1>1, <1>5, <1>7, <1>8, <1>9 DEF Share

--------------------------------------------------------------------------------
(* The semaphore and inFlightMemory.                                            *)

\* What the steps of an invocation do to the semaphore and to inFlightMemory.
Acquires(p) == /\ pc[p] \in {"idle", "wait"} /\ pc'[p] = "count"
               /\ inFlight' = inFlight + mem'[p] /\ inFlight' <= MaxMemory /\ UNCHANGED inFlightMemory
Queues(p)   == /\ pc[p] = "idle" /\ pc'[p] \in {"wait", "oversize"}
               /\ pc'[p] = "wait" => mem'[p] <= MaxMemory
               /\ UNCHANGED <<inFlight, inFlightMemory>>
Counts(p)   == /\ pc[p] = "count" /\ pc'[p] = "lookup"
               /\ inFlightMemory' = inFlightMemory + mem[p] /\ seen'[p] = inFlightMemory'
               /\ UNCHANGED inFlight /\ key'[p] = key[p]
Uncounts(p) == /\ pc[p] = "uncount" /\ pc'[p] = "release"
               /\ inFlightMemory' = inFlightMemory - mem[p]
               /\ UNCHANGED inFlight /\ key'[p] = key[p]
Releases(p) == /\ pc[p] = "release" /\ pc'[p] = "idle"
               /\ inFlight' = inFlight - mem[p] /\ UNCHANGED inFlightMemory
Works(p)    == /\ pc[p] \in Locations \ Uncounted /\ pc'[p] \in Locations \ Uncounted
               /\ UNCHANGED <<inFlight, inFlightMemory>> /\ key'[p] = key[p]
               /\ pc'[p] # "lookup" /\ (pc'[p] = "evict" => pc[p] \in {"lookup", "evict"} /\ seen'[p] = seen[p])

(* A step of an invocation does one of these things.                            *)
LEMMA CapacitySteps ==
  ASSUME TypeInv, NEW p \in Callers, (\E k \in Keys : Get(p, k)) \/ Invocation(p)
  PROVE  Acquires(p) \/ Queues(p) \/ Counts(p) \/ Uncounts(p) \/ Releases(p) \/ Works(p)
<1> USE DEF TypeInv, TypeOK, CallersType, Goto
<1>1. ASSUME NEW k \in Keys, Get(p, k) PROVE Acquires(p) \/ Queues(p)
  <2>1. /\ pc[p] = "idle" /\ mem'[p] = MemoryOf(k) /\ Acquire(p, MemoryOf(k)) /\ UNCHANGED inFlightMemory
        /\ MemoryOf(k) \in Nat
    BY <1>1, KeyAssumption DEF Get, MemoryOf
  <2> QED
    BY <2>1 DEF Acquire, Room, semVars, Acquires, Queues, CapacityType
<1>2. Count(p) => Counts(p)
  BY DEF Count, Counts, semVars
<1>3. Uncount(p) => Uncounts(p)
  BY DEF Uncount, Uncounts, semVars
<1>4. Release(p) => Releases(p)
  BY DEF Release, Releases, semVars
<1> USE DEF Works, Locations, Uncounted, Away, semVars
<1>5. CASE LookupWarm(p) \/ LookupCold(p) \/ Send(p) \/ TakePrewarm(p) \/ Poke(p)
  <2>1. CASE LookupWarm(p)
    BY <2>1 DEF LookupWarm
  <2>2. CASE LookupCold(p)
    BY <2>2 DEF LookupCold
  <2>3. CASE Send(p) \/ TakePrewarm(p) \/ Poke(p)
    BY <2>3 DEF Send, TakePrewarm, Poke
  <2> QED
    BY <1>5, <2>1, <2>2, <2>3
<1>6. CASE EvictOne(p)
  <2>1. pc[p] = "evict" /\ UNCHANGED <<inFlight, inFlightMemory, key>>
    BY <1>6 DEF EvictOne
  <2>2. pc'[p] \in {"uncount", "send"} \/ (pc'[p] = "evict" /\ UNCHANGED seen)
    BY <1>6, <2>1 DEF EvictOne
  <2> QED
    BY <2>1, <2>2
<1>7. CASE Create(p) \/ Created(p) \/ Unpause(p)
  BY <1>7 DEF Create, Created, Unpause
<1>8. CASE Firewall(p) \/ Initialize(p)
  BY <1>8 DEF Firewall, Initialize, AfterFirewall
<1>9. CASE PutToDestroy(p) \/ Put(p) \/ PutIdle(p)
  BY <1>9 DEF PutToDestroy, Put, PutIdle
<1> QED
  BY <1>1, <1>2, <1>3, <1>4, <1>5, <1>6, <1>7, <1>8, <1>9 DEF Invocation

\* The invariant's part on the semaphore and inFlightMemory.
CapacityInv == MemFits /\ CountersExact /\ SeenBetween

(* The accounts stay exact when an invocation takes a step.                     *)
LEMMA CapacityStep ==
  ASSUME OwnerInv, OwnerInv', CapacityInv, NEW p \in Callers, OnlyCaller(p),
         Acquires(p) \/ Queues(p) \/ Counts(p) \/ Uncounts(p) \/ Releases(p) \/ Works(p)
  PROVE  CapacityInv' /\ (Works(p) => mem'[p] = mem[p])
<1> USE DEF CapacityInv
<1>1. TypeOK /\ TypeOK' /\ MemOK /\ MemOK'
  BY DEF OwnerInv, TypeInv
<1>2. mem[p] \in Nat /\ mem'[p] \in Nat /\ seen[p] \in Int /\ seen'[p] \in Int /\ inFlight \in Int
      /\ inFlight' \in Int /\ inFlightMemory \in Int /\ inFlightMemory' \in Int
  BY <1>1 DEF TypeOK, CallersType, CapacityType
<1>3. pc[p] # "idle" /\ pc'[p] # "idle" /\ key'[p] = key[p] => mem'[p] = mem[p]
  BY <1>1 DEF MemOK, MemoryOf
<1>4. pc'[p] # "idle" => mem'[p] >= 1
  <2>1. pc'[p] # "idle" => key'[p] \in Keys
    BY DEF OwnerInv, TypeInv, CallerOK
  <2> QED
    BY <1>1, <2>1, KeyAssumption DEF MemOK, MemoryOf
<1>5. pc'[p] \notin {"idle", "oversize"} => mem'[p] \in 1..MaxMemory
  <2>1. CASE Acquires(p)
    <3>1. 0 <= inFlight
      BY Totals DEF CountersExact
    <3> QED
      BY <1>2, <1>4, <2>1, <3>1, BoundAssumption DEF Acquires
  <2>2. CASE Queues(p)
    BY <1>2, <1>4, <2>2, BoundAssumption DEF Queues
  <2>3. CASE Counts(p) \/ Uncounts(p) \/ Works(p)
    BY <1>3, <2>3 DEF Counts, Uncounts, Works, Locations, Uncounted, Away, MemFits
  <2> QED
    BY <2>1, <2>2, <2>3 DEF Releases
<1>6. MemFits'
  BY <1>5 DEF MemFits, OnlyCaller
<1> DEFINE before(L) == IF pc[p] \in L THEN 0 ELSE mem[p]
           after(L) == IF pc'[p] \in L THEN 0 ELSE mem'[p]
<1>7. /\ Total(Away)' = Total(Away) - before(Away) + after(Away)
      /\ Total(Uncounted)' = Total(Uncounted) - before(Uncounted) + after(Uncounted)
  BY <1>1, <1>6, TotalStep DEF Away, Uncounted
<1>8. Total(Away) \in Nat /\ Total(Uncounted) \in Nat
  BY Totals
<1>9. CountersExact'
  <2>1. CASE Acquires(p) \/ Queues(p)
    BY <1>2, <1>7, <1>8, <2>1 DEF Acquires, Queues, Away, Uncounted, CountersExact
  <2>4. CASE Releases(p)
    BY <1>2, <1>7, <1>8, <2>4, BoundAssumption DEF Releases, Away, Uncounted, CountersExact
  <2>2. CASE Counts(p) \/ Uncounts(p)
    BY <1>2, <1>3, <1>7, <1>8, <2>2 DEF Counts, Uncounts, Away, Uncounted, CountersExact
  <2>3. CASE Works(p)
    BY <1>2, <1>3, <1>7, <1>8, <2>3 DEF Works, Away, Uncounted, CountersExact
  <2> QED
    BY <2>1, <2>2, <2>3, <2>4
<1>10. pc'[p] \in {"lookup", "evict"} => mem'[p] <= seen'[p] /\ seen'[p] <= MaxMemory
  <2>1. CASE Counts(p)
    <3>1. inFlightMemory' <= inFlight' /\ 0 <= inFlightMemory
      <4>1. (Total(Uncounted) <= Total(Away))'
        BY Totals, PTL
      <4> QED
        BY <1>8, <1>9, <4>1 DEF CountersExact
    <3> QED
      BY <1>2, <1>3, <1>9, <2>1, <3>1, BoundAssumption DEF Counts, CountersExact
  <2>2. CASE Works(p)
    BY <1>3, <2>2 DEF Works, Locations, Uncounted, Away, SeenBetween
  <2> QED
    BY <2>1, <2>2 DEF Acquires, Queues, Uncounts, Releases
<1>11. SeenBetween'
  BY <1>10 DEF SeenBetween, OnlyCaller
<1> QED
  BY <1>3, <1>6, <1>9, <1>11 DEF Works, Locations, Uncounted, Away

--------------------------------------------------------------------------------
(* The idle pool.                                                               *)

\* A step takes a container of function k out of the idle pool, or adds one.
Takes(k) == /\ idles[k] # <<>>
            /\ \E c \in Range(idles[k]) :
                 \E t : Shortened(t, idles[k], c) /\ idles' = [idles EXCEPT ![k] = t]
Adds(k)  == \E c \in IPs \ IdleSet : idles' = [idles EXCEPT ![k] = Append(idles[k], c)]

\* An idle container is in one list and has the memory of its function.
IdlesSound ==
  /\ IdleSet \subseteq IPs /\ IsFiniteSet(IdleSet) /\ memory \in [IPs -> Nat]
  /\ \A k \in Keys : idles[k] \in Seq(IPs) /\ IsInjective(idles[k]) /\ Range(idles[k]) \subseteq IdleSet
  /\ \A c \in IdleSet : \E k \in Keys : c \in Range(idles[k])
  /\ \A k \in Keys : \A c \in Range(idles[k]) : memory[c] = MemoryOf(k)
  /\ \A j, k \in Keys : \A c \in Range(idles[k]) : c \in Range(idles[j]) => j = k

(* That follows from the assignment of containers to places.                    *)
LEMMA IdleMemory == OwnerInv => IdlesSound
<1> SUFFICES ASSUME OwnerInv PROVE IdlesSound
  OBVIOUS
<1>1. PICK w, x : Owned(w, x)
  BY DEF OwnerInv
<1>2. TypeOK
  BY DEF OwnerInv, TypeInv
<1>3. IdleSet \subseteq IPs
  BY <1>2, IdleSetType
<1>4. IsFiniteSet(IdleSet)
  BY <1>3, FiniteAssumption, FS_Subset
<1>5. \A k \in Keys : \A c \in Range(idles[k]) : c \in IPs /\ w[c] = "idle" /\ x[c] = k
  BY <1>1, <1>2 DEF TypeOK, IdlesType, Range, Owned, Placement, InIdles, InLists
<1>6. \A k \in Keys : \A c \in Range(idles[k]) : memory[c] = MemoryOf(k)
  BY <1>1, <1>5 DEF Owned, Fields
<1>7. \A k \in Keys : idles[k] \in Seq(IPs) /\ IsInjective(idles[k]) /\ Range(idles[k]) \subseteq IdleSet
  BY <1>1, <1>2 DEF TypeOK, IdlesType, IdleSet, Owned, Placement, InIdles, InLists
<1>8. \A c \in IdleSet : \E k \in Keys : c \in Range(idles[k])
  BY DEF IdleSet
<1> QED
  BY <1>2, <1>3, <1>4, <1>5, <1>6, <1>7, <1>8 DEF TypeOK, ContainersType, IdlesSound

(* The memory of the idle pool stays while its lists do, whatever happens to the *)
(* other containers.                                                            *)
LEMMA IdlesKept ==
  ASSUME OwnerInv, OwnerInv', UNCHANGED idles
  PROVE  IdleTotal' = IdleTotal
<1>1. IdlesSound
  BY IdleMemory
<1>2. IdlesSound'
  BY IdleMemory, PTL
<1>3. PICK S, m, n : S = IdleSet /\ m = memory /\ n = memory'
  OBVIOUS
<1>4. IdleSet' = S
  BY <1>3 DEF IdleSet
<1>5. \A c \in S : n[c] = m[c]
  BY <1>1, <1>2, <1>3 DEF IdlesSound, MemoryOf
<1>6. Units(S, m) = Units(S, n)
  BY <1>5 DEF Units
<1> QED
  BY <1>3, <1>4, <1>6 DEF IdleTotal, Units

(* It loses the memory of one function with a container that is taken.          *)
LEMMA IdlesLose ==
  ASSUME OwnerInv, OwnerInv', IdlesFit, NEW k \in Keys, Takes(k)
  PROVE  IdleTotal' = IdleTotal - MemoryOf(k)
<1>1. IdlesSound
  BY IdleMemory
<1>2. IdlesSound'
  BY IdleMemory, PTL
<1>3. PICK c \in Range(idles[k]) : \E t : Shortened(t, idles[k], c) /\ idles' = [idles EXCEPT ![k] = t]
  BY DEF Takes
<1>4. PICK t : Shortened(t, idles[k], c) /\ idles' = [idles EXCEPT ![k] = t]
  BY <1>3
<1>5. PICK S, T, m, n : S = IdleSet /\ T = IdleSet' /\ m = memory /\ n = memory'
  OBVIOUS
<1>6. \A j \in Keys : idles'[j] = IF j = k THEN t ELSE idles[j]
  BY <1>4 DEF OwnerInv, TypeInv, TypeOK, IdlesType
<1>7. c \in S /\ c \notin T
  <2>1. c \in S
    BY <1>1, <1>5 DEF IdlesSound
  <2>2. ASSUME NEW j \in Keys PROVE c \notin Range(idles'[j])
    <3>1. j # k => c \notin Range(idles[j])
      BY <1>1 DEF IdlesSound
    <3> QED
      BY <1>4, <1>6, <3>1 DEF Shortened
  <2>3. c \in T => \E j \in Keys : c \in Range(idles'[j])
    BY <1>5 DEF IdleSet
  <2> QED
    BY <2>1, <2>2, <2>3
<1>8. ASSUME NEW q, q # c PROVE q \in S <=> q \in T
  <2>1. \A j \in Keys : q \in Range(idles[j]) <=> q \in Range(idles'[j])
    BY <1>4, <1>6, <1>8 DEF Shortened
  <2>2. q \in S <=> \E j \in Keys : q \in Range(idles[j])
    BY <1>5 DEF IdleSet
  <2>3. q \in T <=> \E j \in Keys : q \in Range(idles'[j])
    BY <1>5 DEF IdleSet
  <2> QED
    BY <2>1, <2>2, <2>3
<1>9. \A q \in S : q # c => n[q] = m[q]
  <2> SUFFICES ASSUME NEW q \in S, q # c PROVE n[q] = m[q]
    OBVIOUS
  <2>1. PICK j \in Keys : q \in Range(idles[j]) /\ m[q] = MemoryOf(j)
    BY <1>1, <1>5 DEF IdlesSound
  <2>2. q \in Range(idles'[j])
    BY <1>4, <1>6, <2>1 DEF Shortened
  <2> QED
    BY <1>2, <1>5, <2>1, <2>2 DEF IdlesSound, MemoryOf
<1>10. m[c] = MemoryOf(k) /\ m[c] \in 0..MaxMemory
  <2>1. MemoryOf(k) <= MaxMemory
    BY DEF IdlesFit, Takes
  <2>2. MemoryOf(k) \in Nat
    BY KeyAssumption DEF MemoryOf
  <2> QED
    BY <1>1, <1>5, <2>1, <2>2, BoundAssumption DEF IdlesSound
<1>11. IsFiniteSet(S) /\ IsFiniteSet(T)
  BY <1>1, <1>2, <1>5 DEF IdlesSound
<1>12. Cardinality(Units(T, n)) = Cardinality(Units(S, m)) - Share(S, m, c) + Share(T, n, c)
  BY <1>7, <1>8, <1>9, <1>10, <1>11, UnitsChange
<1>13. Share(S, m, c) = MemoryOf(k) /\ Share(T, n, c) = 0
  BY <1>7, <1>10 DEF Share
<1>14. IdleTotal = Cardinality(Units(S, m)) /\ Cardinality(Units(S, m)) \in Nat
  BY <1>5, <1>11, UnitsFinite DEF IdleTotal
<1>15. IdleTotal' = Cardinality(Units(T, n))
  BY <1>5 DEF IdleTotal, Units
<1> QED
  BY <1>10, <1>12, <1>13, <1>14, <1>15

(* And it gains it with one that is returned.                                   *)
LEMMA IdlesGain ==
  ASSUME OwnerInv, OwnerInv', NEW k \in Keys, Adds(k), MemoryOf(k) <= MaxMemory
  PROVE  IdleTotal' = IdleTotal + MemoryOf(k)
<1>1. IdlesSound
  BY IdleMemory
<1>2. IdlesSound'
  BY IdleMemory, PTL
<1>3. PICK c \in IPs \ IdleSet : idles' = [idles EXCEPT ![k] = Append(idles[k], c)]
  BY DEF Adds
<1>4. PICK S, T, m, n : S = IdleSet /\ T = IdleSet' /\ m = memory /\ n = memory'
  OBVIOUS
<1>5. \A j \in Keys : idles'[j] = IF j = k THEN Append(idles[k], c) ELSE idles[j]
  BY <1>3 DEF OwnerInv, TypeInv, TypeOK, IdlesType
<1>6. \A d : d \in Range(Append(idles[k], c)) <=> d \in Range(idles[k]) \/ d = c
  <2>1. c \notin Range(idles[k]) /\ idles[k] \in Seq(IPs) /\ IsInjective(idles[k])
    BY <1>1, <1>3 DEF IdlesSound
  <2> QED
    BY <2>1, AppendDistinct
<1>7. c \notin S /\ c \in T /\ n[c] = MemoryOf(k)
  <2>1. c \in Range(idles'[k])
    BY <1>5, <1>6
  <2> QED
    BY <1>2, <1>3, <1>4, <2>1 DEF IdlesSound, MemoryOf
<1>8. ASSUME NEW q, q # c PROVE q \in S <=> q \in T
  <2>1. \A j \in Keys : q \in Range(idles[j]) <=> q \in Range(idles'[j])
    BY <1>5, <1>6, <1>8
  <2>2. q \in S <=> \E j \in Keys : q \in Range(idles[j])
    BY <1>4 DEF IdleSet
  <2>3. q \in T <=> \E j \in Keys : q \in Range(idles'[j])
    BY <1>4 DEF IdleSet
  <2> QED
    BY <2>1, <2>2, <2>3
<1>9. \A q \in S : q # c => n[q] = m[q]
  <2> SUFFICES ASSUME NEW q \in S, q # c PROVE n[q] = m[q]
    OBVIOUS
  <2>1. PICK j \in Keys : q \in Range(idles[j]) /\ m[q] = MemoryOf(j)
    BY <1>1, <1>4 DEF IdlesSound
  <2>2. q \in Range(idles'[j])
    BY <1>5, <1>6, <2>1
  <2> QED
    BY <1>2, <1>4, <2>1, <2>2 DEF IdlesSound, MemoryOf
<1>10. MemoryOf(k) \in 0..MaxMemory
  BY KeyAssumption, BoundAssumption DEF MemoryOf
<1>11. IsFiniteSet(S) /\ IsFiniteSet(T)
  BY <1>1, <1>2, <1>4 DEF IdlesSound
<1>12. Cardinality(Units(T, n)) = Cardinality(Units(S, m)) - Share(S, m, c) + Share(T, n, c)
  BY <1>7, <1>8, <1>9, <1>10, <1>11, UnitsChange
<1>13. Share(S, m, c) = 0 /\ Share(T, n, c) = MemoryOf(k)
  BY <1>7 DEF Share
<1>14. IdleTotal = Cardinality(Units(S, m)) /\ Cardinality(Units(S, m)) \in Nat
  BY <1>4, <1>11, UnitsFinite DEF IdleTotal
<1>15. IdleTotal' = Cardinality(Units(T, n))
  BY <1>4 DEF IdleTotal, Units
<1> QED
  BY <1>10, <1>12, <1>13, <1>14, <1>15

--------------------------------------------------------------------------------
(* The loop that makes space.                                                   *)

(* It never finds the idle pool empty: what it took for the memory in flight      *)
(* fits the invoker, so with nothing idle there would be space.                  *)
LEMMA NeverEmpty == AccountInv => SpaceCanBeMade
<1> SUFFICES ASSUME AccountInv, NEW p \in Callers, pc[p] = "evict", IdleSet = {} PROVE FALSE
  BY DEF SpaceCanBeMade
<1>1. phase = "running"
  BY DEF AccountInv, MuxHeld
<1>2. idlesMemory = 0
  BY <1>1, UnitsEmpty DEF AccountInv, IdlesExact, IdleTotal
<1>3. seen[p] \in Int /\ seen[p] <= MaxMemory
  BY DEF AccountInv, SeenBetween, OwnerInv, TypeInv, TypeOK, CallersType
<1>4. Fits(p, idlesMemory)
  BY <1>2, <1>3, BoundAssumption DEF Fits
<1> QED
  BY <1>4 DEF AccountInv, Evicting

\* What the steps of an invocation do to the idle pool.
Reuses(p)  == /\ pc[p] = "lookup" /\ pc'[p] = "unpause" /\ idlesMux = Unlocked /\ UNCHANGED idlesMux
              /\ Takes(key[p]) /\ idlesMemory' = idlesMemory - MemoryOf(key[p])
Places(p)  == /\ pc[p] = "lookup" /\ pc'[p] = "prewarm" /\ idlesMux = Unlocked /\ UNCHANGED idlesMux
              /\ Fits(p, idlesMemory) /\ UNCHANGED <<idles, idlesMemory>>
Locks(p)   == /\ pc[p] = "lookup" /\ pc'[p] = "evict" /\ idlesMux = Unlocked /\ idlesMux' = p
              /\ ~Fits(p, idlesMemory) /\ UNCHANGED <<idles, idlesMemory, seen>>
Evicts(p)  == /\ pc[p] = "evict" /\ \E k \in Keys : Takes(k) /\ idlesMemory' = idlesMemory - MemoryOf(k)
              /\ \/ /\ idlesMemory' + seen[p] <= MaxMemory
                    /\ pc'[p] = "send" /\ idlesMux' = Unlocked
                 \/ /\ ~(idlesMemory' + seen[p] <= MaxMemory)
                    /\ pc'[p] = "evict" /\ UNCHANGED <<idlesMux, seen>>
Returns(p) == /\ pc[p] = "append" /\ pc'[p] = "uncount" /\ idlesMux = Unlocked /\ UNCHANGED idlesMux
              /\ Adds(key[p]) /\ idlesMemory' = idlesMemory + MemoryOf(key[p])
Leaves(p)  == /\ pc[p] # "evict" /\ pc'[p] # "evict" /\ (pc[p] \in Unplaced => pc'[p] \in Unplaced)
              /\ UNCHANGED <<idles, idlesMemory, idlesMux>>

(* The first container of an idle list leaves with the memory of its function.   *)
LEMMA DropHeadTakes ==
  ASSUME OwnerInv, NEW k \in Keys, idles[k] # <<>>, DropHead(k)
  PROVE  Takes(k) /\ idlesMemory' = idlesMemory - MemoryOf(k)
<1>1. IdlesSound
  BY IdleMemory
<1>2. PICK c, t : c = Head(idles[k]) /\ t = Tail(idles[k])
  OBVIOUS
<1>3. Shortened(t, idles[k], c) /\ c \in Range(idles[k])
  BY <1>1, <1>2, TailDistinct DEF IdlesSound
<1>4. memory[c] = MemoryOf(k)
  BY <1>1, <1>3 DEF IdlesSound
<1> QED
  BY <1>2, <1>3, <1>4 DEF DropHead, Takes

(* A step of an invocation does one of these things.                            *)
LEMMA PoolSteps ==
  ASSUME AccountInv, NEW p \in Callers, (\E k \in Keys : Get(p, k)) \/ Invocation(p)
  PROVE  Reuses(p) \/ Places(p) \/ Locks(p) \/ Evicts(p) \/ Returns(p) \/ Leaves(p)
<1>0. OwnerInv /\ TypeInv /\ TypeOK /\ IdlesSound
  BY IdleMemory DEF AccountInv, OwnerInv, TypeInv
<1> USE <1>0 DEF TypeOK, CallersType, Goto
<1>1. CASE LookupWarm(p)
  <2>1. PICK k, c, t : k = key[p] /\ c = idles[k][Len(idles[k])] /\ t = SubSeq(idles[k], 1, Len(idles[k]) - 1)
    OBVIOUS
  <2>2. k \in Keys /\ idles[k] # <<>> /\ idles' = [idles EXCEPT ![k] = t] /\ idlesMemory' = idlesMemory - memory[c]
    BY <1>1, <2>1 DEF LookupWarm, TypeInv, CallerOK
  <2>3. Shortened(t, idles[k], c) /\ c \in Range(idles[k])
    BY <2>1, <2>2, FrontDistinct DEF IdlesSound
  <2>4. memory[c] = MemoryOf(k)
    BY <2>2, <2>3 DEF IdlesSound
  <2>5. Takes(k) /\ idlesMemory' = idlesMemory - MemoryOf(k)
    BY <2>2, <2>3, <2>4 DEF Takes
  <2>6. pc[p] = "lookup" /\ pc'[p] = "unpause" /\ idlesMux = Unlocked /\ UNCHANGED idlesMux
    BY <1>1 DEF LookupWarm
  <2> QED
    BY <2>1, <2>5, <2>6 DEF Reuses
<1>2. CASE LookupCold(p)
  BY <1>2 DEF LookupCold, Places, Locks
<1>3. CASE EvictOne(p)
  <2>1. IdleSet # {} /\ pc[p] = "evict"
    BY <1>3, NeverEmpty DEF SpaceCanBeMade, EvictOne
  <2>2. PICK k \in LongestUnused :
          /\ DropHead(k)
          /\ IF Fits(p, idlesMemory')
               THEN idlesMux' = Unlocked /\ Goto(p, "send")
               ELSE UNCHANGED <<idlesMux, seen, pc>>
    BY <1>3, <2>1 DEF EvictOne
  <2>3. k \in Keys /\ idles[k] # <<>>
    BY DEF LongestUnused
  <2>4. Takes(k) /\ idlesMemory' = idlesMemory - MemoryOf(k)
    BY <2>2, <2>3, DropHeadTakes
  <2> QED
    BY <2>1, <2>2, <2>3, <2>4 DEF Evicts, Fits
<1>4. CASE PutIdle(p)
  <2>1. PICK w, x : Owned(w, x)
    BY DEF OwnerInv
  <2>2. PICK c : c = ctr[p]
    OBVIOUS
  <2>3. pc[p] = "append" /\ pc'[p] = "uncount" /\ idlesMux = Unlocked /\ UNCHANGED idlesMux
    BY <1>4 DEF PutIdle
  <2>4. c \in IPs /\ key[p] \in Keys /\ w[c] = "ctr" /\ Fields("ctr", p, c)
    BY <2>1, <2>2, <2>3, HandFields DEF Hands
  <2>5. initializedFor[c] = key[p] /\ memory[c] = MemoryOf(key[p])
    BY <2>1, <2>3, <2>4, HandFields DEF Owned, Fields, InHand, Placement, InHands
  <2>6. c \notin IdleSet
    BY <2>1, <2>4 DEF Owned, Placement, InIdles, InLists, IdleSet
  <2>7. idles' = [idles EXCEPT ![key[p]] = Append(idles[key[p]], c)] /\ idlesMemory' = idlesMemory + memory[c]
    BY <1>4, <2>2, <2>5 DEF PutIdle
  <2> QED
    BY <2>3, <2>4, <2>5, <2>6, <2>7 DEF Returns, Adds
<1> USE DEF Unplaced, Uncounted, Away, Leaves
<1>5. ASSUME NEW k \in Keys, Get(p, k) PROVE Leaves(p)
  BY <1>5 DEF Get, Acquire, idleVars
<1>6. CASE Count(p) \/ Uncount(p) \/ Release(p)
  BY <1>6 DEF Count, Uncount, Release, idleVars
<1>7. CASE Send(p) \/ TakePrewarm(p) \/ Poke(p)
  BY <1>7 DEF Send, TakePrewarm, Poke, idleVars
<1>8. CASE Create(p) \/ Created(p) \/ Unpause(p)
  BY <1>8 DEF Create, Created, Unpause, idleVars
<1>9. CASE Firewall(p) \/ Initialize(p)
  BY <1>9 DEF Firewall, Initialize, AfterFirewall, idleVars
<1>10. CASE PutToDestroy(p) \/ Put(p)
  BY <1>10 DEF PutToDestroy, Put, idleVars
<1> QED
  BY <1>1, <1>2, <1>3, <1>4, <1>5, <1>6, <1>7, <1>8, <1>9, <1>10 DEF Invocation

(* An invocation leaves the reaper and the phase alone.                         *)
LEMMA CallerLeaves ==
  ASSUME NEW p \in Callers, (\E k \in Keys : Get(p, k)) \/ Invocation(p)
  PROVE  UNCHANGED reaper /\ UNCHANGED phase
<1>1. CASE Send(p) \/ Put(p)
  BY <1>1 DEF Send, Put, envVars, reapVars
<1> QED
  BY <1>1, InvocationSteps, OnCapacityFrame, OnIdlesFrame, OnPrewarmedFrame, OnContainerFrame
     DEF envVars, reapVars

(* The invariant when one invocation takes a step.                              *)
LEMMA OneCaller ==
  ASSUME AccountInv, OwnerInv', NEW p \in Callers, OnlyCaller(p), phase = "running",
         UNCHANGED reaper, UNCHANGED phase,
         Acquires(p) \/ Queues(p) \/ Counts(p) \/ Uncounts(p) \/ Releases(p) \/ Works(p),
         Reuses(p) \/ Places(p) \/ Locks(p) \/ Evicts(p) \/ Returns(p) \/ Leaves(p)
  PROVE  AccountInv'
<1>1. OwnerInv /\ TypeInv /\ TypeOK /\ CapacityInv
  BY DEF AccountInv, OwnerInv, TypeInv, CapacityInv
<1>2. OnlyCaller(p)
  OBVIOUS
<1>3. UNCHANGED reaper /\ UNCHANGED phase
  OBVIOUS
<1>4. Acquires(p) \/ Queues(p) \/ Counts(p) \/ Uncounts(p) \/ Releases(p) \/ Works(p)
  OBVIOUS
<1>5. CapacityInv' /\ (Works(p) => mem'[p] = mem[p])
  BY <1>1, <1>4, CapacityStep
<1>6. Reuses(p) \/ Places(p) \/ Locks(p) \/ Evicts(p) \/ Returns(p) \/ Leaves(p)
  OBVIOUS
<1>7. phase = "running" /\ idlesMemory = IdleTotal
  BY DEF AccountInv, IdlesExact
<1>8. p \notin {Unlocked, Reaper} /\ \A q \in Callers : q \notin {Unlocked, Reaper}
  BY ContainerAssumption DEF Unlocked, Reaper
<1>9. MuxHeld'
  <2>1. /\ \A q \in Callers : pc[q] = "evict" <=> idlesMux = q
        /\ reaper = "locked" <=> idlesMux = Reaper
    BY DEF AccountInv, MuxHeld
  <2>2. pc'[p] = "evict" <=> idlesMux' = p
    BY <1>6, <1>8, <2>1 DEF Reuses, Places, Locks, Evicts, Returns, Leaves
  <2>3. \A q \in Callers \ {p} : pc'[q] = "evict" <=> idlesMux' = q
    BY <1>2, <1>6, <1>8, <2>1 DEF OnlyCaller, Reuses, Places, Locks, Evicts, Returns, Leaves
  <2>4. reaper' = "locked" <=> idlesMux' = Reaper
    BY <1>3, <1>6, <1>8, <2>1 DEF Reuses, Places, Locks, Evicts, Returns, Leaves, Unlocked, Reaper
  <2> QED
    BY <1>3, <1>7, <2>2, <2>3, <2>4 DEF MuxHeld
<1>10. /\ \/ UNCHANGED <<idles, idlesMemory>>
          \/ \E k \in Keys : Takes(k) /\ idlesMemory' = idlesMemory - MemoryOf(k)
          \/ \E k \in Keys : Adds(k) /\ MemoryOf(k) <= MaxMemory /\ idlesMemory' = idlesMemory + MemoryOf(k)
  <2>1. pc[p] \in {"lookup", "append"} => key[p] \in Keys /\ MemoryOf(key[p]) <= MaxMemory
    BY <1>1, BoundAssumption DEF TypeInv, CallerOK, OwnerInv, MemOK, CapacityInv, MemFits
  <2> QED
    BY <1>6, <2>1 DEF Reuses, Places, Locks, Evicts, Returns, Leaves
<1>11. IdlesFit'
  <2>1. IdlesFit
    BY DEF AccountInv
  <2>2. CASE UNCHANGED idles
    BY <2>1, <2>2 DEF IdlesFit, MemoryOf
  <2>3. ASSUME NEW k \in Keys, Takes(k) PROVE IdlesFit'
    <3>1. \A j \in Keys \ {k} : idles'[j] = idles[j]
      BY <1>1, <2>3 DEF Takes, TypeOK, IdlesType
    <3> QED
      BY <2>1, <2>3, <3>1 DEF IdlesFit, Takes, MemoryOf
  <2>4. ASSUME NEW k \in Keys, Adds(k), MemoryOf(k) <= MaxMemory PROVE IdlesFit'
    <3>1. \A j \in Keys \ {k} : idles'[j] = idles[j]
      BY <1>1, <2>4 DEF Adds, TypeOK, IdlesType
    <3> QED
      BY <2>1, <2>4, <3>1 DEF IdlesFit, MemoryOf
  <2> QED
    BY <1>10, <2>2, <2>3, <2>4
<1>12. IdlesExact'
  <2>1. IdleTotal \in Int
    BY <1>1, <1>7 DEF TypeOK, IdlesType
  <2>2. idlesMemory' = IdleTotal'
    BY <1>1, <1>7, <1>10, <2>1, IdlesKept, IdlesLose, IdlesGain DEF AccountInv
  <2> QED
    BY <2>2 DEF IdlesExact
<1>13. Evicting'
  <2> SUFFICES ASSUME NEW q \in Callers, pc'[q] = "evict" PROVE ~(idlesMemory' + seen'[q] <= MaxMemory)
    BY DEF Evicting, Fits
  <2>1. CASE q = p
    BY <1>6, <2>1 DEF Reuses, Places, Locks, Evicts, Returns, Leaves, Fits
  <2>2. CASE q # p
    <3>1. pc[q] = "evict" /\ seen'[q] = seen[q]
      BY <1>2, <2>2 DEF OnlyCaller
    <3>2. idlesMux = q /\ (pc[p] = "evict" => idlesMux = p)
      BY <3>1 DEF AccountInv, MuxHeld
    <3>3. UNCHANGED idlesMemory
      BY <1>6, <1>8, <2>2, <3>2 DEF Reuses, Places, Locks, Evicts, Returns, Leaves
    <3> QED
      BY <3>1, <3>3 DEF AccountInv, Evicting, Fits
  <2> QED
    BY <2>1, <2>2
<1>14. MemoryBound'
  <2>1. Total(Unplaced)' = Total(Unplaced) - (IF pc[p] \in Unplaced THEN 0 ELSE mem[p])
                              + (IF pc'[p] \in Unplaced THEN 0 ELSE mem'[p])
    BY <1>1, <1>2, <1>5, TotalStep DEF CapacityInv, Unplaced, Uncounted, Away
  <2>2. Total(Unplaced) \in Nat /\ Total(Unplaced)' \in Nat /\ Total(Unplaced)' <= MaxMemory
    <3>1. Total(Unplaced) \in Nat
      BY Totals
    <3>2. /\ (Total(Unplaced) \in Nat)' /\ (Total(Uncounted) \in Nat)' /\ (Total(Away) \in Nat)'
          /\ (Total(Unplaced) <= Total(Uncounted))' /\ (Total(Uncounted) <= Total(Away))'
      BY Totals, PTL
    <3> QED
      BY <1>5, <3>1, <3>2, BoundAssumption DEF CapacityInv, CountersExact
  <2>3. idlesMemory + Total(Unplaced) < 2 * MaxMemory
    BY Sums DEF AccountInv, MemoryBound
  <2>4. mem[p] \in Nat /\ mem'[p] \in Nat /\ seen[p] \in Int /\ idlesMemory \in Int /\ MaxMemory \in Nat
    BY <1>1, BoundAssumption DEF TypeOK, CallersType, IdlesType, OwnerInv, TypeInv
  <2>5. pc[p] # "idle" => mem[p] = MemoryOf(key[p])
    BY DEF AccountInv, OwnerInv, MemOK
  <2>6. idlesMemory' + Total(Unplaced)' < 2 * MaxMemory
    <3>1. CASE Reuses(p) \/ Returns(p)
      <4>1. Works(p)
        BY <1>4, <3>1 DEF Reuses, Returns, Acquires, Queues, Counts, Uncounts, Releases
      <4> QED
        BY <1>5, <2>1, <2>2, <2>3, <2>4, <2>5, <3>1, <4>1 DEF Reuses, Returns, Unplaced, Uncounted, Away
    <3>2. CASE Places(p)
      <4>1. seen[p] >= 1
        BY <2>4, <3>2 DEF Places, AccountInv, SeenBetween, MemFits
      <4> QED
        BY <2>2, <2>4, <3>2, <4>1 DEF Places, Fits
    <3>3. CASE Evicts(p)
      <4>1. seen[p] >= 1
        BY <2>4, <3>3 DEF Evicts, AccountInv, SeenBetween, MemFits
      <4>2. PICK k \in Keys : idlesMemory' = idlesMemory - MemoryOf(k)
        BY <3>3 DEF Evicts
      <4>3. MemoryOf(k) \in Nat
        BY KeyAssumption DEF MemoryOf
      <4>4. CASE pc'[p] = "send"
        BY <2>2, <2>4, <3>3, <4>1, <4>2, <4>3, <4>4 DEF Evicts
      <4>5. CASE pc'[p] = "evict"
        BY <2>1, <2>2, <2>3, <2>4, <3>3, <4>2, <4>3, <4>5 DEF Evicts, Unplaced
      <4> QED
        BY <3>3, <4>4, <4>5 DEF Evicts
    <3>4. CASE Locks(p)
      BY <2>1, <2>2, <2>3, <2>4, <3>4 DEF Locks, Unplaced
    <3>5. CASE Leaves(p)
      <4>1. CASE pc'[p] \in Unplaced
        BY <2>1, <2>2, <2>3, <2>4, <3>5, <4>1 DEF Leaves
      <4>2. CASE pc'[p] \notin Unplaced
        <5>1. pc[p] \notin Unplaced
          BY <3>5, <4>2 DEF Leaves
        <5>2. Works(p)
          BY <1>4, <4>2, <5>1 DEF Acquires, Queues, Counts, Uncounts, Releases, Unplaced, Uncounted, Away
        <5> QED
          BY <1>5, <2>1, <2>2, <2>3, <2>4, <3>5, <4>2, <5>1, <5>2 DEF Leaves
      <4> QED
        BY <4>1, <4>2
    <3> QED
      BY <1>6, <3>1, <3>2, <3>3, <3>4, <3>5
  <2>7. (Cardinality(Units(Placed, mem)) = Total(Unplaced))'
    BY Sums, PTL
  <2> QED
    BY <2>6, <2>7 DEF MemoryBound
<1> QED
  BY <1>5, <1>9, <1>11, <1>12, <1>13, <1>14 DEF AccountInv, CapacityInv

(* Get and the steps of an invocation.                                          *)
LEMMA InvocationAccounts ==
  ASSUME AccountInv, OwnerInv', NEW p \in Callers, (\E k \in Keys : Get(p, k)) \/ Invocation(p)
  PROVE  AccountInv'
<1>1. TypeInv
  BY DEF AccountInv, OwnerInv
<1>2. phase = "running"
  <2>1. pc[p] = "idle" => \E k \in Keys : Get(p, k)
    BY DEF Invocation, Count, LookupWarm, LookupCold, EvictOne, Send, TakePrewarm, Poke, Create, Created, Unpause,
           Firewall, Initialize, PutToDestroy, Put, PutIdle, Uncount, Release
  <2> QED
    BY <2>1 DEF AccountInv, MuxHeld, Get
<1> QED
  BY <1>1, <1>2, CallerFrame, CallerLeaves, CapacitySteps, PoolSteps, OneCaller

(* The semaphore wakes the first of those that wait.                            *)
LEMMA GrantAccounts ==
  ASSUME AccountInv, OwnerInv', Grant
  PROVE  AccountInv'
<1>1. TypeInv /\ TypeOK
  BY DEF AccountInv, OwnerInv, TypeInv
<1>2. PICK p : p = Head(waiters)
  OBVIOUS
<1>3. p \in Callers /\ pc[p] = "wait"
  BY <1>1, <1>2, TailType DEF Grant, TypeInv, TypeOK, CapacityType, WaitersOK
<1>4. /\ pc' = [pc EXCEPT ![p] = "count"] /\ Room(mem[p]) /\ inFlight' = inFlight + mem[p]
      /\ UNCHANGED <<key, mem, seen, ctr, toDelete, inFlightMemory, idles, idlesMemory, idlesMux, reaper, phase>>
  BY <1>2 DEF Grant, Goto, idleVars, reapVars, envVars
<1>5. Acquires(p)
  BY <1>1, <1>3, <1>4 DEF Acquires, Room, TypeOK, CallersType
<1>6. Leaves(p)
  BY <1>1, <1>3, <1>4 DEF Leaves, Unplaced, Uncounted, TypeOK, CallersType
<1>7. OnlyCaller(p)
  BY <1>1, <1>3, <1>4 DEF OnlyCaller, TypeOK, CallersType
<1>8. phase = "running"
  BY <1>3 DEF AccountInv, MuxHeld
<1> QED
  BY <1>3, <1>4, <1>5, <1>6, <1>7, <1>8, OneCaller

--------------------------------------------------------------------------------
(* The background goroutines and Shutdown.                                      *)

Background == Deleter \/ ReapLock \/ Reap \/ ReaperStop \/ Reconciler \/ Shutdown \/ ShutDown

\* What they do to the idle pool, to its lock and to the phase.
Reaps     == reaper = "locked" /\ \E k \in Keys : Takes(k) /\ idlesMemory' = idlesMemory - MemoryOf(k)
Empties   == /\ phase = "deleting" /\ UNCHANGED <<phase, idlesMemory>>
             /\ \E k \in Keys : idles[k] # <<>> /\ idles' = [idles EXCEPT ![k] = Tail(idles[k])]
LocksIdle == idlesMux = Unlocked /\ idlesMux' = Reaper /\ reaper' = "locked"
Unlocks   == reaper = "locked" /\ idlesMux' = Unlocked /\ reaper' = "deleting"
KeepsLock == UNCHANGED idlesMux /\ (reaper' = "locked" <=> reaper = "locked")

(* Each of their steps does one of these things to each of them.                *)
LEMMA BackgroundSteps ==
  ASSUME OwnerInv, Background
  PROVE  /\ UNCHANGED <<idles, idlesMemory>> \/ Reaps \/ Empties
         /\ LocksIdle \/ Unlocks \/ KeepsLock
         /\ \/ UNCHANGED phase
            \/ phase' \in {"deleting", "down"} /\ phase # "running"
            \/ phase = "running" /\ phase' = "closing" /\ \A p \in Callers : pc[p] = "idle"
<1>1. CASE Deleter
  BY <1>1 DEF Deleter, DeleterReceive, DeleterRemove, DeleterStop, idleVars, reapVars, envVars, KeepsLock
<1>2. CASE ReapLock
  BY <1>2 DEF ReapLock, LocksIdle, envVars
<1>3. CASE ReapCollect
  <2>1. PICK k \in Keys : idles[k] # <<>> /\ DropHead(k)
    BY <1>3 DEF ReapCollect, Reapable
  <2>2. Reaps
    BY <1>3, <2>1, DropHeadTakes DEF Reaps, ReapCollect
  <2> QED
    BY <1>3, <2>2 DEF ReapCollect, envVars, KeepsLock
<1>4. CASE ReapUnlock
  BY <1>4 DEF ReapUnlock, Unlocks, envVars
<1>5. CASE ReapRemove \/ ReapDone \/ ReaperStop
  BY <1>5 DEF ReapRemove, ReapDone, ReaperStop, idleVars, envVars, KeepsLock
<1>6. CASE Reconciler
  BY <1>6 DEF Reconciler, ReconcilePlan, PrewarmCreate, PrewarmCreated, ReconcileDone, ReconcilerStop,
              idleVars, reapVars, envVars, KeepsLock
<1>7. CASE Shutdown
  BY <1>7 DEF Shutdown, idleVars, reapVars, KeepsLock
<1>8. CASE ShutdownWait \/ ShutdownDone \/ ShutdownPrewarmed
  BY <1>8 DEF ShutdownWait, ShutdownDone, ShutdownPrewarmed, idleVars, reapVars, KeepsLock
<1>9. CASE ShutdownIdle
  BY <1>9 DEF ShutdownIdle, reapVars, KeepsLock, Empties
<1> QED
  BY <1>1, <1>2, <1>3, <1>4, <1>5, <1>6, <1>7, <1>8, <1>9 DEF Background, Reap, ShutDown

(* The invariant when one of them takes a step.                                 *)
LEMMA BackgroundAccounts ==
  ASSUME AccountInv, OwnerInv', Background
  PROVE  AccountInv'
<1>1. OwnerInv /\ TypeOK
  BY DEF AccountInv, OwnerInv, TypeInv
<1>2. UNCHANGED <<callerVars, inFlight, inFlightMemory>>
  BY BackgroundFrame DEF Background, semVars
<1>3. MemFits' /\ SeenBetween' /\ \A L : Total(L)' = Total(L)
  BY <1>2 DEF callerVars, AccountInv, MemFits, SeenBetween, Total, Elsewhere, Units
<1>4. CountersExact'
  BY <1>2, <1>3 DEF AccountInv, CountersExact
<1>5. /\ UNCHANGED <<idles, idlesMemory>> \/ Reaps \/ Empties
      /\ LocksIdle \/ Unlocks \/ KeepsLock
      /\ \/ UNCHANGED phase
         \/ phase' \in {"deleting", "down"} /\ phase # "running"
         \/ phase = "running" /\ phase' = "closing" /\ \A p \in Callers : pc[p] = "idle"
  BY <1>1, BackgroundSteps
<1>6. \A p \in Callers : p \notin {Unlocked, Reaper}
  BY ContainerAssumption DEF Unlocked, Reaper
<1>7. MuxHeld'
  BY <1>2, <1>5, <1>6 DEF callerVars, AccountInv, MuxHeld, LocksIdle, Unlocks, KeepsLock, Unlocked, Reaper
<1>8. IdlesFit'
  <2>1. \A k \in Keys : idles'[k] # <<>> => idles[k] # <<>>
    <3>1. CASE UNCHANGED idles
      BY <3>1
    <3>2. ASSUME NEW k \in Keys, Takes(k) \/ (idles[k] # <<>> /\ idles' = [idles EXCEPT ![k] = Tail(idles[k])])
          PROVE  \A j \in Keys : idles'[j] # <<>> => idles[j] # <<>>
      BY <1>1, <3>2 DEF Takes, TypeOK, IdlesType
    <3> QED
      BY <1>5, <3>1, <3>2 DEF Reaps, Empties
  <2> QED
    BY <2>1 DEF AccountInv, IdlesFit, MemoryOf
<1>9. IdlesExact'
  <2> SUFFICES ASSUME phase' \in {"running", "closing"} PROVE idlesMemory' = IdleTotal'
    BY DEF IdlesExact
  <2>1. phase \in {"running", "closing"}
    BY <1>1, <1>5 DEF TypeOK, EnvironmentType
  <2>2. idlesMemory = IdleTotal
    BY <2>1 DEF AccountInv, IdlesExact
  <2> QED
    BY <1>1, <1>5, <2>1, <2>2, IdlesKept, IdlesLose DEF AccountInv, Reaps, Empties
<1>10. idlesMemory' \in Int /\ idlesMemory \in Int /\ idlesMemory' <= idlesMemory
  <2>1. \A k \in Keys : MemoryOf(k) \in Nat
    BY KeyAssumption DEF MemoryOf
  <2> QED
    BY <1>1, <1>5, <2>1 DEF TypeOK, IdlesType, Reaps, Empties
<1>11. Evicting'
  <2> SUFFICES ASSUME NEW p \in Callers, pc[p] = "evict" PROVE ~(idlesMemory' + seen[p] <= MaxMemory)
    BY <1>2 DEF callerVars, Evicting, Fits
  <2>1. idlesMux = p /\ phase = "running" /\ reaper # "locked"
    BY <1>6 DEF AccountInv, MuxHeld
  <2>2. UNCHANGED idlesMemory
    BY <1>5, <2>1 DEF Reaps, Empties
  <2> QED
    BY <2>2 DEF AccountInv, Evicting, Fits
<1>12. MemoryBound'
  <2>1. idlesMemory + Total(Unplaced) < 2 * MaxMemory
    BY Sums DEF AccountInv, MemoryBound
  <2>2. Total(Unplaced) \in Nat /\ MaxMemory \in Nat
    BY Totals, BoundAssumption
  <2>3. idlesMemory' + Total(Unplaced)' < 2 * MaxMemory
    BY <1>3, <1>10, <2>1, <2>2
  <2>4. (Cardinality(Units(Placed, mem)) = Total(Unplaced))'
    BY Sums, PTL
  <2> QED
    BY <2>3, <2>4 DEF MemoryBound
<1> QED
  BY <1>3, <1>4, <1>7, <1>8, <1>9, <1>11, <1>12 DEF AccountInv

--------------------------------------------------------------------------------
(* The accounts are exact in every reachable state.                             *)

(* They are at first.                                                           *)
LEMMA InitAccounts == Init => AccountInv
<1> SUFFICES ASSUME Init PROVE AccountInv
  OBVIOUS
<1>1. OwnerInv
  BY InitOwner
<1>2. \A p \in Callers : pc[p] = "idle"
  BY DEF Init
<1>3. Total(Away) = 0 /\ Total(Uncounted) = 0 /\ Total(Unplaced) = 0
  <2>1. \A L : "idle" \in L => Elsewhere(L) = {}
    BY <1>2 DEF Elsewhere
  <2> QED
    BY <2>1, UnitsEmpty DEF Total, Away, Uncounted, Unplaced
<1>4. IdleTotal = 0
  <2>1. IdleSet = {}
    BY DEF Init, IdleSet, Range
  <2> QED
    BY <2>1, UnitsEmpty DEF IdleTotal
<1>5. MemFits /\ IdlesFit /\ SeenBetween /\ Evicting
  BY <1>2 DEF Init, MemFits, IdlesFit, SeenBetween, Evicting
<1>6. CountersExact /\ IdlesExact
  BY <1>3, <1>4, BoundAssumption DEF Init, CountersExact, IdlesExact
<1>7. MuxHeld
  BY <1>2, ContainerAssumption, BoundAssumption DEF Init, MuxHeld, Unlocked, Reaper
<1>8. MemoryBound
  BY <1>3, Sums, BoundAssumption DEF Init, MemoryBound
<1> QED
  BY <1>1, <1>5, <1>6, <1>7, <1>8 DEF AccountInv

(* And they stay so.                                                            *)
LEMMA StepAccounts == AccountInv /\ [Next]_vars => AccountInv'
<1> SUFFICES ASSUME AccountInv, [Next]_vars PROVE AccountInv'
  OBVIOUS
<1>1. OwnerInv'
  BY StepOwner DEF AccountInv
<1>2. CASE UNCHANGED vars
  BY <1>1, <1>2 DEF vars, AccountInv, MemFits, IdlesFit, CountersExact, IdlesExact, SeenBetween, MuxHeld, Evicting,
                    MemoryBound, Total, Elsewhere, IdleTotal, IdleSet, Units, Fits, Placed, Counted, MemoryOf
<1> QED
  BY <1>1, <1>2, InvocationAccounts, GrantAccounts, BackgroundAccounts DEF Next, Background

(* The inductive invariant of the accounts holds in every reachable state.      *)
THEOREM AccountInvariance == Spec => []AccountInv
  BY InitAccounts, StepAccounts, PTL DEF Spec

(* The semaphore and inFlightMemory hold exactly what the invocations under way  *)
(* have acquired, the semaphore is never overdrawn, and idlesMemory, on which    *)
(* evictions are decided, is the memory of the idle lists, for any number of     *)
(* invocations, functions and containers and on every error path.                *)
THEOREM AccountsAlwaysExact == Spec => []AccountsExact
<1>1. AccountInv => AccountsExact
  BY Sums DEF AccountInv, AccountsExact, OwnerInv, TypeInv, CountersExact, IdlesExact, IdleTotal
<1> QED
  BY <1>1, AccountInvariance, PTL

(* The loop of getContainer that makes space always finds a container to evict:  *)
(* the defensive return that would leave idlesMux locked is dead code.           *)
THEOREM SpaceCanAlwaysBeMade == Spec => []SpaceCanBeMade
  BY NeverEmpty, AccountInvariance, PTL

(* Idle containers and those of invocations stay below twice maxMemory, however  *)
(* stale the memory in flight is that each Get bases its eviction on.            *)
THEOREM MemoryAlwaysBounded == Spec => []MemoryBound
<1>1. AccountInv => MemoryBound
  BY DEF AccountInv
<1> QED
  BY <1>1, AccountInvariance, PTL

--------------------------------------------------------------------------------
(* The pool implements ContainerLease.                                          *)

(* The variables of the lease have the types it expects.                        *)
LEMMA LeaseTypes ==
  TypeInv => /\ LeaseLent \in [Callers -> IPs \cup {NoCtr}] /\ LeaseFunction \in [Callers -> Keys \cup {NoKey}]
             /\ loaded \in [IPs -> Keys \cup {NoKey}]
             /\ \A p \in Callers : LeaseLent[p] = (IF p \in Lessees THEN ctr[p] ELSE NoCtr)
             /\ \A p \in Callers : LeaseFunction[p] = (IF p \in Lessees THEN key[p] ELSE NoKey)
             /\ \A p \in Lessees : p \in Callers /\ ctr[p] \in IPs /\ key[p] \in Keys
  BY DEF TypeInv, TypeOK, CallersType, ContainersType, CallerOK, Lessees, LeaseLent, LeaseFunction

(* What is lent is in the hands of one invocation.                              *)
LEMMA LentOnce ==
  ASSUME OwnerInv, NEW w, NEW x, Owned(w, x), NEW c \in IPs
  PROVE  /\ w[c] # "ctr" => c \notin Range(LeaseLent)
         /\ \A p \in HasCtr \ Lessees : c = ctr[p] => c \notin Range(LeaseLent)
<1>1. TypeInv
  BY DEF OwnerInv
<1>2. \A q \in Lessees : q \in HasCtr
  BY DEF Lessees, HasCtr
<1>3. \A q \in HasCtr : w[ctr[q]] = "ctr" /\ x[ctr[q]] = q
  BY DEF Owned, Placement, InHands
<1>4. c \in Range(LeaseLent) => \E q \in Lessees : c = ctr[q]
  BY <1>1, LeaseTypes, ContainerAssumption DEF Range
<1> QED
  BY <1>2, <1>3, <1>4

(* A container that nobody has, if it goes, is discarded.                       *)
LEMMA GoneIsDiscarded ==
  ASSUME TypeInv, NEW c \in IPs, c \notin Range(LeaseLent), Remove(c) \/ CleanupContainer(c),
         UNCHANGED LeaseLent, UNCHANGED LeaseFunction, UNCHANGED LeaseRunning
  PROVE  Lease!Next \/ UNCHANGED Lease!vars
<1>1. loaded' = [loaded EXCEPT ![c] = NoKey]
  BY DEF Remove, CleanupContainer, Removed, Leaked, Forgotten
<1>2. CASE loaded[c] = NoKey
  <2>1. loaded' = loaded
    BY <1>1, <1>2, LeaseTypes
  <2> QED
    BY <2>1 DEF Lease!vars
<1>3. CASE loaded[c] # NoKey
  <2>1. Lease!Discard(c)
    BY <1>1, <1>3 DEF Lease!Discard, Lease!Range, Range
  <2> QED
    BY <2>1 DEF Lease!Next
<1> QED
  BY <1>2, <1>3

(* At first nothing is lent.                                                    *)
LEMMA InitLease == Init => Lease!Init
  BY DEF Init, Lease!Init, Lessees, LeaseLent, LeaseFunction, LeaseRunning

(* What is lent stays within the memory of the invoker.                         *)
LEMMA LentFits == AccountInv => Cardinality(Lease!InUse(LeaseFunction)) <= MaxMemory
<1> SUFFICES ASSUME AccountInv PROVE Cardinality(Lease!InUse(LeaseFunction)) <= MaxMemory
  OBVIOUS
<1>1. TypeInv /\ MemOK /\ inFlight = Total(Away) /\ inFlight <= MaxMemory
  BY DEF AccountInv, OwnerInv, CountersExact
<1>2. ASSUME NEW p \in Callers, LeaseFunction[p] # NoKey
      PROVE  p \in Elsewhere(Away) /\ mem[p] = MemoryOf(LeaseFunction[p])
  <2>1. p \in Lessees /\ LeaseFunction[p] = key[p]
    BY <1>1, <1>2, LeaseTypes
  <2> QED
    BY <1>1, <2>1 DEF Lessees, Elsewhere, Away, MemOK
<1>3. Lease!InUse(LeaseFunction) \in SUBSET Units(Elsewhere(Away), mem)
  BY <1>2 DEF Lease!InUse, Units
<1>4. IsFiniteSet(Units(Elsewhere(Away), mem))
  <2>1. IsFiniteSet(Elsewhere(Away))
    BY FiniteAssumption, FS_Subset DEF Elsewhere
  <2> QED
    BY <2>1, UnitsFinite
<1>5. /\ Cardinality(Lease!InUse(LeaseFunction)) <= Total(Away)
      /\ Cardinality(Lease!InUse(LeaseFunction)) \in Nat /\ Total(Away) \in Nat
  BY <1>3, <1>4, FS_Subset, FS_CardinalityType DEF Total
<1> QED
  BY <1>1, <1>5, BoundAssumption

\* What is lent changes for p alone, or not at all.
LendsTo(p)  == /\ LeaseLent' = [LeaseLent EXCEPT ![p] = ctr'[p]]
               /\ LeaseFunction' = [LeaseFunction EXCEPT ![p] = key'[p]]
               /\ LeaseRunning' = IF pc'[p] = "run" THEN LeaseRunning \cup {p} ELSE LeaseRunning
GivesBack(p) == /\ LeaseLent' = [LeaseLent EXCEPT ![p] = NoCtr]
                /\ LeaseFunction' = [LeaseFunction EXCEPT ![p] = NoKey]
                /\ LeaseRunning' = LeaseRunning \ {p}
LendsNone   == UNCHANGED LeaseLent /\ UNCHANGED LeaseFunction /\ UNCHANGED LeaseRunning

(* Whether an invocation has its container depends on its location alone.       *)
LEMMA LeaseFrame ==
  ASSUME TypeInv, TypeInv', NEW p \in Callers, OnlyCaller(p)
  PROVE  /\ p \notin Lessees /\ p \notin Lessees' => LendsNone
         /\ p \notin Lessees /\ p \in Lessees' => LendsTo(p)
         /\ p \in Lessees /\ p \notin Lessees' => GivesBack(p)
<1>1. \A q \in Callers \ {p} : q \in Lessees <=> q \in Lessees'
  BY DEF OnlyCaller, Lessees
<1>2. \A q \in Callers \ {p} : q \in LeaseRunning <=> q \in LeaseRunning'
  BY DEF OnlyCaller, LeaseRunning
<1>3. /\ p \in LeaseRunning <=> pc[p] = "run"
      /\ p \in LeaseRunning' <=> pc'[p] = "run"
      /\ p \in Lessees <=> pc[p] \in {"init", "run"}
      /\ p \in Lessees' <=> pc'[p] \in {"init", "run"}
      /\ LeaseRunning \subseteq Callers /\ LeaseRunning' \subseteq Callers
  BY DEF Lessees, LeaseRunning
<1>4. \A q \in Callers \ {p} : key'[q] = key[q] /\ ctr'[q] = ctr[q]
  BY DEF OnlyCaller
<1>5. /\ LeaseLent' = [q \in Callers |-> IF q \in Lessees' THEN ctr'[q] ELSE NoCtr]
      /\ LeaseFunction' = [q \in Callers |-> IF q \in Lessees' THEN key'[q] ELSE NoKey]
  BY DEF LeaseLent, LeaseFunction
<1>6. CASE p \notin Lessees /\ p \notin Lessees'
  <2>1. UNCHANGED LeaseLent /\ UNCHANGED LeaseFunction
    BY <1>1, <1>4, <1>5, <1>6 DEF LeaseLent, LeaseFunction
  <2>2. UNCHANGED LeaseRunning
    BY <1>2, <1>3, <1>6
  <2> QED
    BY <1>6, <2>1, <2>2 DEF LendsNone
<1>7. CASE p \notin Lessees /\ p \in Lessees'
  <2>1. LeaseLent' = [LeaseLent EXCEPT ![p] = ctr'[p]]
    BY <1>1, <1>4, <1>5, <1>7 DEF LeaseLent
  <2>2. LeaseFunction' = [LeaseFunction EXCEPT ![p] = key'[p]]
    BY <1>1, <1>4, <1>5, <1>7 DEF LeaseFunction
  <2>3. LeaseRunning' = IF pc'[p] = "run" THEN LeaseRunning \cup {p} ELSE LeaseRunning
    BY <1>2, <1>3, <1>7
  <2> QED
    BY <1>7, <2>1, <2>2, <2>3 DEF LendsTo
<1>8. CASE p \in Lessees /\ p \notin Lessees'
  <2>1. LeaseLent' = [LeaseLent EXCEPT ![p] = NoCtr]
    BY <1>1, <1>4, <1>5, <1>8 DEF LeaseLent
  <2>2. LeaseFunction' = [LeaseFunction EXCEPT ![p] = NoKey]
    BY <1>1, <1>4, <1>5, <1>8 DEF LeaseFunction
  <2>3. LeaseRunning' = LeaseRunning \ {p}
    BY <1>2, <1>3, <1>8
  <2> QED
    BY <1>8, <2>1, <2>2, <2>3 DEF GivesBack
<1> QED
  BY <1>6, <1>7, <1>8

(* Get returns: the container is lent, and to nobody else.                      *)
LEMMA FirewallLends ==
  ASSUME AccountInv, AccountInv', NEW p \in Callers, OnlyCaller(p),
         pc[p] \in {"fwWarm", "fwPrewarm", "fwCold"}, pc'[p] = AfterFirewall(pc[p]),
         key'[p] = key[p], ctr'[p] = ctr[p], UNCHANGED loaded
  PROVE  Lease!Lend(p)
<1>1. TypeInv /\ TypeInv' /\ OwnerInv
  BY DEF AccountInv, OwnerInv
<1>2. PICK w, x : Owned(w, x)
  BY <1>1 DEF OwnerInv
<1>3. PICK c, k : c = ctr[p] /\ k = key[p]
  OBVIOUS
<1>4. c \in IPs /\ k \in Keys /\ loaded[c] = IF pc[p] = "fwWarm" THEN k ELSE NoKey
  BY <1>1, <1>2, <1>3, HandFields DEF Hands, Fields, InHand, Loaded
<1>5. p \notin Lessees /\ p \in Lessees' /\ p \in HasCtr
  BY DEF Lessees, AfterFirewall, HasCtr
<1>6. LendsTo(p) /\ LeaseLent[p] = NoCtr
  BY <1>1, <1>5, LeaseFrame, LeaseTypes
<1>7. c \notin Lease!Range(LeaseLent)
  BY <1>1, <1>2, <1>3, <1>4, <1>5, LentOnce DEF Lease!Range, Range
<1>8. LeaseLent' # LeaseLent
  <2>1. LeaseLent'[p] = c
    BY <1>1, <1>3, <1>6, LeaseTypes DEF LendsTo
  <2> QED
    BY <1>4, <1>6, <2>1, ContainerAssumption
<1>9. Lease!Cardinality(Lease!InUse(LeaseFunction')) <= MaxMemory
  <2>1. (Cardinality(Lease!InUse(LeaseFunction)) <= MaxMemory)'
    BY LentFits, PTL
  <2> QED
    BY <2>1 DEF Lease!InUse, Lease!Cardinality, Cardinality
<1>10. \/ loaded[c] = k /\ LeaseRunning' = LeaseRunning \cup {p}
       \/ loaded[c] = NoKey /\ UNCHANGED LeaseRunning
  BY <1>4, <1>6 DEF LendsTo, AfterFirewall
<1>11. LeaseLent' = [LeaseLent EXCEPT ![p] = c] /\ LeaseFunction' = [LeaseFunction EXCEPT ![p] = k]
  BY <1>3, <1>6 DEF LendsTo
<1>12. \E j \in Keys, d \in IPs \ Lease!Range(LeaseLent) :
          /\ LeaseLent' = [LeaseLent EXCEPT ![p] = d] /\ LeaseFunction' = [LeaseFunction EXCEPT ![p] = j]
          /\ \/ loaded[d] = j /\ LeaseRunning' = LeaseRunning \cup {p}
             \/ loaded[d] = NoKey /\ UNCHANGED LeaseRunning
  <2> HIDE DEF Lease!Range
  <2> QED
    BY <1>4, <1>7, <1>10, <1>11
<1> QED
  BY <1>6, <1>8, <1>9, <1>12, Zenon DEF Lease!Lend

(* A step of an invocation is a step of the lease, or invisible to it.          *)
LEMMA InvocationLease ==
  ASSUME AccountInv, AccountInv', NEW p \in Callers, (\E k \in Keys : Get(p, k)) \/ Invocation(p)
  PROVE  Lease!Next \/ UNCHANGED Lease!vars
<1>1. TypeInv /\ TypeInv' /\ OwnerInv /\ TypeOK
  BY DEF AccountInv, OwnerInv, TypeInv
<1>2. PICK w, x : Owned(w, x)
  BY <1>1 DEF OwnerInv
<1>3. OnlyCaller(p)
  BY <1>1, CallerFrame
<1>4. /\ p \in Lessees <=> pc[p] \in {"init", "run"}
      /\ p \in Lessees' <=> pc'[p] \in {"init", "run"}
      /\ p \in HasCtr <=> pc[p] \in Hands
  BY DEF Lessees, HasCtr, Hands
<1>5. p \in HasCtr => ctr[p] \in IPs /\ key[p] \in Keys
  BY <1>1, HandType
<1>6. ASSUME pc[p] \in Hands \ {"init", "run"}, pc'[p] = "uncount", CleanupContainer(ctr[p])
      PROVE  Lease!Next \/ UNCHANGED Lease!vars
  <2>1. LendsNone
    BY <1>1, <1>3, <1>4, <1>6, LeaseFrame
  <2>2. ctr[p] \in IPs /\ ctr[p] \notin Range(LeaseLent)
    BY <1>1, <1>2, <1>4, <1>5, <1>6, LentOnce
  <2> QED
    BY <1>1, <1>6, <2>1, <2>2, GoneIsDiscarded DEF LendsNone
<1>7. ASSUME UNCHANGED loaded, pc[p] \notin {"init", "run"}, pc'[p] \notin {"init", "run"}
      PROVE  UNCHANGED Lease!vars
  <2>1. LendsNone
    BY <1>1, <1>3, <1>4, <1>7, LeaseFrame
  <2> QED
    BY <1>7, <2>1 DEF LendsNone, Lease!vars
<1> USE DEF Goto, TypeOK, CallersType
<1>8. CASE OnCapacity(p) \/ OnIdles(p) \/ OnPrewarmed(p) \/ Send(p) \/ Create(p)
  <2>1. UNCHANGED loaded
    BY <1>8, OnCapacityFrame, OnIdlesFrame, OnPrewarmedFrame DEF ctrVars, Send, Create
  <2>2. pc[p] \notin {"init", "run"} /\ pc'[p] \notin {"init", "run"}
    <3>1. CASE OnCapacity(p)
      BY <1>1, <3>1 DEF OnCapacity, Get, Acquire, Count, Uncount, Release
    <3>2. CASE OnIdles(p)
      BY <1>1, <3>2 DEF OnIdles, LookupWarm, LookupCold, EvictOne, PutIdle
    <3>3. CASE OnPrewarmed(p) \/ Send(p) \/ Create(p)
      BY <1>1, <3>3 DEF OnPrewarmed, TakePrewarm, Poke, Send, Create
    <3> QED
      BY <1>8, <3>1, <3>2, <3>3
  <2> QED
    BY <1>7, <2>1, <2>2
<1>9. CASE Created(p)
  <2>1. CASE CleanupContainer(ctr[p]) /\ pc' = [pc EXCEPT ![p] = "uncount"]
    BY <1>1, <1>6, <1>9, <2>1 DEF Created, Hands
  <2>2. CASE UNCHANGED loaded /\ pc' = [pc EXCEPT ![p] = "fwCold"]
    BY <1>1, <1>7, <1>9, <2>2 DEF Created
  <2> QED
    BY <1>9, <2>1, <2>2 DEF Created
<1>10. CASE Unpause(p)
  <2>1. CASE CleanupContainer(ctr[p]) /\ pc' = [pc EXCEPT ![p] = "uncount"]
    BY <1>1, <1>6, <1>10, <2>1 DEF Unpause, Hands
  <2>2. CASE UNCHANGED loaded /\ pc' = [pc EXCEPT ![p] = "fwWarm"]
    BY <1>1, <1>7, <1>10, <2>2 DEF Unpause
  <2> QED
    BY <1>10, <2>1, <2>2 DEF Unpause
<1>11. CASE Firewall(p)
  <2>1. CASE CleanupContainer(ctr[p]) /\ pc' = [pc EXCEPT ![p] = "uncount"]
    BY <1>1, <1>6, <1>11, <2>1 DEF Firewall, Hands
  <2>2. CASE UNCHANGED <<loaded, ctr>> /\ pc' = [pc EXCEPT ![p] = AfterFirewall(pc[p])]
    <3>1. pc[p] \in {"fwWarm", "fwPrewarm", "fwCold"} /\ UNCHANGED key /\ pc'[p] = AfterFirewall(pc[p])
      BY <1>1, <1>11, <2>2 DEF Firewall
    <3>2. Lease!Lend(p)
      BY <1>3, <2>2, <3>1, FirewallLends
    <3> QED
      BY <3>2 DEF Lease!Next
  <2> QED
    BY <1>11, <2>1, <2>2 DEF Firewall
<1>12. CASE Initialize(p)
  <2>1. /\ pc[p] = "init" /\ pc'[p] = "run" /\ UNCHANGED <<key, ctr>> /\ loaded' = [loaded EXCEPT ![ctr[p]] = key[p]]
    BY <1>1, <1>12 DEF Initialize
  <2>2. ctr[p] \in IPs /\ loaded[ctr[p]] = NoKey /\ LeaseLent[p] = ctr[p] /\ LeaseFunction[p] = key[p]
    BY <1>1, <1>2, <1>4, <2>1, HandFields, LeaseTypes DEF Hands, Fields, InHand, Loaded
  <2>3. \A q \in Callers : pc'[q] = IF q = p THEN "run" ELSE pc[q]
    BY <1>3, <2>1 DEF OnlyCaller
  <2>4. Lessees' = Lessees /\ LeaseRunning' = LeaseRunning \cup {p}
    BY <2>1, <2>3 DEF Lessees, LeaseRunning
  <2>5. UNCHANGED LeaseLent /\ UNCHANGED LeaseFunction
    BY <2>1, <2>4 DEF LeaseLent, LeaseFunction
  <2>6. Lease!Load(p)
    BY <2>1, <2>2, <2>4, <2>5, ContainerAssumption DEF Lease!Load
  <2> QED
    BY <2>6 DEF Lease!Next
<1>13. CASE PutToDestroy(p)
  <2>1. pc[p] \in {"init", "run"} /\ pc'[p] = "uncount" /\ Remove(ctr[p])
    BY <1>1, <1>13 DEF PutToDestroy
  <2>2. loaded' = [loaded EXCEPT ![ctr[p]] = NoKey]
    BY <2>1 DEF Remove, Removed, Leaked, Forgotten
  <2>3. GivesBack(p) /\ LeaseLent[p] = ctr[p] /\ ctr[p] # NoCtr
    BY <1>1, <1>3, <1>4, <2>1, LeaseFrame, LeaseTypes, ContainerAssumption
  <2>4. Lease!Destroy(p)
    BY <2>2, <2>3 DEF GivesBack, Lease!Destroy, Lease!Back
  <2> QED
    BY <2>4 DEF Lease!Next
<1>14. CASE Put(p)
  <2>1. pc[p] = "run" /\ pc'[p] = "append" /\ UNCHANGED loaded
    BY <1>1, <1>14 DEF Put
  <2>2. GivesBack(p) /\ LeaseLent[p] = ctr[p] /\ ctr[p] # NoCtr
    BY <1>1, <1>3, <1>4, <2>1, LeaseFrame, LeaseTypes, ContainerAssumption
  <2>3. p \in LeaseRunning
    BY <2>1 DEF LeaseRunning
  <2>4. Lease!Return(p)
    BY <2>1, <2>2, <2>3 DEF GivesBack, Lease!Return, Lease!Back
  <2> QED
    BY <2>4 DEF Lease!Next
<1> QED
  BY <1>8, <1>9, <1>10, <1>11, <1>12, <1>13, <1>14, InvocationSteps DEF OnContainer

(* So is a step of a background goroutine or of Shutdown.                       *)
LEMMA BackgroundLease ==
  ASSUME AccountInv, Background
  PROVE  Lease!Next \/ UNCHANGED Lease!vars
<1>1. TypeInv /\ OwnerInv /\ TypeOK
  BY DEF AccountInv, OwnerInv, TypeInv
<1>2. PICK w, x : Owned(w, x)
  BY <1>1 DEF OwnerInv
<1>3. LendsNone
  BY BackgroundFrame DEF Background, callerVars, LendsNone, LeaseLent, LeaseFunction, LeaseRunning, Lessees
<1>4. ASSUME NEW c \in IPs, w[c] # "ctr", Remove(c) \/ CleanupContainer(c)
      PROVE  Lease!Next \/ UNCHANGED Lease!vars
  <2>1. c \notin Range(LeaseLent)
    BY <1>1, <1>2, <1>4, LentOnce
  <2> QED
    BY <1>1, <1>3, <1>4, <2>1, GoneIsDiscarded DEF LendsNone
<1>5. CASE UNCHANGED loaded
  BY <1>3, <1>5 DEF LendsNone, Lease!vars
<1>6. CASE DeleterRemove
  <2>1. w[deleting] # "ctr" /\ deleting \in IPs /\ (Remove(deleting) \/ CleanupContainer(deleting))
    BY <1>2, <1>6 DEF DeleterRemove, UnpauseAndRemove, Owned, Placement, InDeleting
  <2> QED
    BY <1>4, <2>1
<1>7. CASE ReapRemove
  <2>1. PICK c \in toReap : Remove(c) \/ CleanupContainer(c)
    BY <1>7 DEF ReapRemove, UnpauseAndRemove
  <2>2. c \in IPs /\ w[c] # "ctr"
    BY <1>1, <1>2 DEF TypeOK, DeletionType, Owned, Placement, InReap
  <2> QED
    BY <1>4, <2>1, <2>2
<1>8. CASE PrewarmCreated
  <2>1. creating.c \in IPs /\ w[creating.c] # "ctr"
    BY <1>1, <1>2, <1>8 DEF PrewarmCreated, TypeInv, Owned, Placement, InCreating
  <2> QED
    BY <1>4, <1>5, <1>8, <2>1 DEF PrewarmCreated
<1>9. CASE ShutdownIdle
  <2>1. PICK k \in Keys : /\ idles[k] # <<>>
                          /\ Remove(Head(idles[k])) \/ CleanupContainer(Head(idles[k]))
    BY <1>9 DEF ShutdownIdle, UnpauseAndRemove
  <2>2. Head(idles[k]) \in IPs /\ w[Head(idles[k])] = "idle"
    BY <1>1, <1>2, <2>1, HeadPlace DEF TypeOK, IdlesType, Owned, Placement, InIdles
  <2> QED
    BY <1>4, <2>1, <2>2
<1>10. CASE ShutdownPrewarmed
  <2>1. PICK pk \in PrewarmKeys : prewarmed[pk] # <<>> /\ Remove(Head(prewarmed[pk]))
    BY <1>10 DEF ShutdownPrewarmed
  <2>2. Head(prewarmed[pk]) \in IPs /\ w[Head(prewarmed[pk])] = "prewarmed"
    BY <1>1, <1>2, <2>1, HeadPlace DEF TypeOK, PrewarmType, Owned, Placement, InPrewarmed
  <2> QED
    BY <1>4, <2>1, <2>2
<1>11. CASE DeleterReceive \/ DeleterStop \/ ReapLock \/ ReapCollect \/ ReapUnlock \/ ReapDone \/ ReaperStop
  BY <1>5, <1>11 DEF DeleterReceive, DeleterStop, ReapLock, ReapCollect, ReapUnlock, ReapDone, ReaperStop, ctrVars
<1>12. CASE ReconcilePlan \/ PrewarmCreate \/ ReconcileDone \/ ReconcilerStop
  BY <1>5, <1>12 DEF ReconcilePlan, PrewarmCreate, ReconcileDone, ReconcilerStop, ctrVars
<1>13. CASE Shutdown \/ ShutdownWait \/ ShutdownDone
  BY <1>5, <1>13 DEF Shutdown, ShutdownWait, ShutdownDone, ctrVars
<1> QED
  BY <1>6, <1>7, <1>8, <1>9, <1>10, <1>11, <1>12, <1>13 DEF Background, Deleter, Reap, Reconciler, ShutDown

(* Every step of the pool implements a step of the lease.                       *)
LEMMA StepLease == AccountInv /\ AccountInv' /\ [Next]_vars => [Lease!Next]_(Lease!vars)
<1> SUFFICES ASSUME AccountInv, AccountInv', [Next]_vars PROVE Lease!Next \/ UNCHANGED Lease!vars
  OBVIOUS
<1>1. CASE UNCHANGED vars
  BY <1>1 DEF vars, Lease!vars, LeaseLent, LeaseFunction, LeaseRunning, Lessees
<1>2. CASE Grant
  <2>1. Head(waiters) \in Callers /\ pc[Head(waiters)] = "wait" /\ TypeOK
    BY <1>2, TailType DEF Grant, AccountInv, OwnerInv, TypeInv, TypeOK, CapacityType, WaitersOK
  <2>2. \A q \in Callers : pc'[q] \in {"init", "run"} <=> pc[q] \in {"init", "run"}
    BY <1>2, <2>1 DEF Grant, Goto, TypeOK, CallersType
  <2>3. \A q \in Callers : pc'[q] = "run" <=> pc[q] = "run"
    BY <1>2, <2>1 DEF Grant, Goto, TypeOK, CallersType
  <2>4. UNCHANGED <<key, ctr, loaded>> /\ Lessees' = Lessees /\ LeaseRunning' = LeaseRunning
    BY <1>2, <2>2, <2>3 DEF Grant, ctrVars, Lessees, LeaseRunning
  <2> QED
    BY <2>4 DEF Lease!vars, LeaseLent, LeaseFunction
<1> QED
  BY <1>1, <1>2, InvocationLease, BackgroundLease DEF Next, Background

(* The pool is an implementation of ContainerLease: whatever is evicted, reaped, *)
(* prewarmed or fails, an invocation gets a container that no other has, that is *)
(* new or loaded with its own function, once, within the memory of the invoker.  *)
THEOREM PoolImplementsLease == Spec => ImplementsLease
  BY InitLease, StepLease, AccountInvariance, PTL DEF Spec, ImplementsLease, Lease!Spec

--------------------------------------------------------------------------------
(* The stock of prewarm containers.                                             *)

\* The reconciler never plans more than is missing, and has planned what it creates.
PlanOK == phase = "running" => /\ \A pk \in PrewarmKeys : necessary[pk] >= 0
                               /\ reconciler = "creating" => necessary[creating.pk] > 0

\* A poke for the kind is buffered or about to be sent.
PokeDue(pk) == prewarmPoke \/ \E p \in Callers : pc[p] = "poke" /\ PrewarmKey[key[p]] = pk
Stock(pk)   == Len(prewarmed[pk]) + necessary[pk]

\* NoLostPoke in these terms.
StockKept == phase = "running" => \A pk \in PrewarmKeys : /\ Stock(pk) <= Stemcells[pk]
                                                          /\ Stock(pk) < Stemcells[pk] => PokeDue(pk)
StockInv  == TypeInv /\ PlanOK /\ StockKept

(* The types behind it.                                                         *)
LEMMA StockTypes ==
  TypeInv => \A pk \in PrewarmKeys : /\ Stemcells[pk] \in Nat /\ necessary[pk] \in Int /\ prewarmed[pk] \in Seq(IPs)
                                     /\ Len(prewarmed[pk]) \in Nat /\ Stock(pk) \in Int
<1> SUFFICES ASSUME TypeInv, NEW pk \in PrewarmKeys
             PROVE  /\ Stemcells[pk] \in Nat /\ necessary[pk] \in Int /\ prewarmed[pk] \in Seq(IPs)
                    /\ Len(prewarmed[pk]) \in Nat /\ Stock(pk) \in Int
  OBVIOUS
<1>1. Stemcells[pk] \in Nat /\ necessary[pk] \in Int /\ prewarmed[pk] \in Seq(IPs)
  BY KeyAssumption DEF TypeInv, TypeOK, PrewarmType
<1>2. Len(prewarmed[pk]) \in Nat
  BY <1>1
<1> QED
  BY <1>1, <1>2 DEF Stock

(* The stock when an invocation takes a step.                                   *)
LEMMA InvocationStock ==
  ASSUME StockInv, TypeInv', NEW p \in Callers, (\E k \in Keys : Get(p, k)) \/ Invocation(p)
  PROVE  PlanOK' /\ StockKept'
<1>1. TypeInv /\ TypeOK /\ PlanOK /\ StockKept
  BY DEF StockInv, TypeInv
<1>2. OnlyCaller(p) /\ UNCHANGED phase
  BY <1>1, CallerFrame, CallerLeaves
<1> USE DEF Goto, TypeOK, CallersType
<1>3. CASE TakePrewarm(p) /\ prewarmed[PrewarmKey[key[p]]] # <<>>
  <2>1. PICK pk : pk = PrewarmKey[key[p]]
    OBVIOUS
  <2>2. key[p] \in Keys /\ pk \in PrewarmKeys
    BY <1>1, <1>3, <2>1, KeyAssumption DEF TypeInv, CallerOK, TakePrewarm
  <2>3. /\ pc[p] = "prewarm" /\ pc'[p] = "poke" /\ UNCHANGED <<key, prewarmPoke, reconciler, necessary, creating>>
        /\ prewarmed' = [prewarmed EXCEPT ![pk] = Tail(prewarmed[pk])]
    BY <1>1, <1>3, <2>1 DEF TakePrewarm
  <2>4. Len(Tail(prewarmed[pk])) = Len(prewarmed[pk]) - 1 /\ Len(prewarmed[pk]) \in Nat
    BY <1>1, <1>3, <2>1, <2>2, StockTypes, TailType
  <2>5. PokeDue(pk)'
    BY <2>1, <2>3 DEF PokeDue
  <2>6. \A j \in PrewarmKeys : PokeDue(j) => PokeDue(j)'
    BY <1>2, <2>3 DEF PokeDue, OnlyCaller
  <2>7. Stock(pk)' = Stock(pk) - 1
    <3>1. prewarmed'[pk] = Tail(prewarmed[pk]) /\ necessary'[pk] = necessary[pk]
      BY <1>1, <2>2, <2>3 DEF PrewarmType
    <3>2. necessary[pk] \in Int
      BY <1>1, <2>2, StockTypes
    <3> QED
      BY <2>4, <3>1, <3>2 DEF Stock
  <2>8. \A j \in PrewarmKeys \ {pk} : Stock(j)' = Stock(j)
    BY <1>1, <2>2, <2>3 DEF Stock, PrewarmType
  <2>9. \A j \in PrewarmKeys : Stock(j) \in Int /\ Stemcells[j] \in Int
    BY <1>1, StockTypes
  <2>10. StockKept'
    <3> SUFFICES ASSUME phase = "running", NEW j \in PrewarmKeys
                 PROVE  Stock(j)' <= Stemcells[j] /\ (Stock(j)' < Stemcells[j] => PokeDue(j)')
      BY <1>2 DEF StockKept
    <3>1. Stock(j) <= Stemcells[j] /\ (Stock(j) < Stemcells[j] => PokeDue(j))
      BY <1>1 DEF StockKept
    <3>2. CASE j = pk
      BY <2>5, <2>7, <2>9, <3>1, <3>2
    <3>3. CASE j # pk
      BY <2>6, <2>8, <2>9, <3>1, <3>3
    <3> QED
      BY <3>2, <3>3
  <2> QED
    BY <1>1, <1>2, <2>3, <2>10 DEF PlanOK
<1>4. CASE Poke(p)
  <2>1. prewarmPoke' = TRUE /\ UNCHANGED <<prewarmed, necessary, reconciler, creating>>
    BY <1>4 DEF Poke, Poked
  <2>2. StockKept'
    BY <1>1, <1>2, <2>1 DEF StockKept, Stock, PokeDue
  <2> QED
    BY <1>1, <1>2, <2>1, <2>2 DEF PlanOK
<1>5. CASE ~Poke(p) /\ ~(TakePrewarm(p) /\ prewarmed[PrewarmKey[key[p]]] # <<>>)
  <2>1. UNCHANGED <<prewarmed, prewarmPoke, reconciler, necessary, creating>>
    BY <1>5, InvocationSteps, OnCapacityFrame, OnIdlesFrame, OnContainerFrame
       DEF OnPrewarmed, TakePrewarm, Send, Put, prewarmVars
  <2>2. pc[p] # "poke"
    <3>1. CASE OnCapacity(p) \/ OnIdles(p)
      BY <3>1 DEF OnCapacity, OnIdles, Get, Count, Uncount, Release, LookupWarm, LookupCold, EvictOne, PutIdle
    <3>2. CASE OnPrewarmed(p) \/ OnContainer(p) \/ Send(p) \/ Put(p)
      BY <1>5, <3>2 DEF OnPrewarmed, OnContainer, TakePrewarm, Create, Created, Unpause, Firewall, Initialize,
                        PutToDestroy, Send, Put
    <3> QED
      BY <3>1, <3>2, InvocationSteps
  <2>3. \A j \in PrewarmKeys : PokeDue(j) => PokeDue(j)'
    BY <1>2, <2>1, <2>2 DEF PokeDue, OnlyCaller
  <2>4. StockKept'
    BY <1>1, <1>2, <2>1, <2>3 DEF StockKept, Stock
  <2> QED
    BY <1>1, <1>2, <2>1, <2>4 DEF PlanOK
<1> QED
  BY <1>3, <1>4, <1>5

(* The stock when the reconciler takes a step.                                  *)
LEMMA ReconcilerStock ==
  ASSUME StockInv, TypeInv', Reconciler
  PROVE  PlanOK' /\ StockKept'
<1>1. TypeInv /\ TypeOK /\ PlanOK /\ StockKept
  BY DEF StockInv, TypeInv
<1>2. UNCHANGED <<pc, key, phase>>
  BY DEF Reconciler, ReconcilePlan, PrewarmCreate, PrewarmCreated, ReconcileDone, ReconcilerStop, callerVars, envVars
<1> SUFFICES ASSUME phase = "running"
             PROVE  /\ \A pk \in PrewarmKeys : necessary'[pk] >= 0
                    /\ reconciler' = "creating" => necessary'[creating'.pk] > 0
                    /\ \A pk \in PrewarmKeys : /\ Stock(pk)' <= Stemcells[pk]
                                               /\ Stock(pk)' < Stemcells[pk] => PokeDue(pk)'
  BY <1>2 DEF PlanOK, StockKept
<1>3. /\ \A pk \in PrewarmKeys : Stock(pk) <= Stemcells[pk] /\ necessary[pk] >= 0
      /\ \A pk \in PrewarmKeys : Stock(pk) < Stemcells[pk] => PokeDue(pk)
      /\ reconciler = "creating" => necessary[creating.pk] > 0
  <2>1. \A pk \in PrewarmKeys : Stock(pk) <= Stemcells[pk] /\ (Stock(pk) < Stemcells[pk] => PokeDue(pk))
    BY <1>1 DEF StockKept
  <2>2. (\A pk \in PrewarmKeys : necessary[pk] >= 0) /\ (reconciler = "creating" => necessary[creating.pk] > 0)
    BY <1>1 DEF PlanOK
  <2> QED
    BY <2>1, <2>2
<1>4. \A pk \in PrewarmKeys : /\ Stemcells[pk] \in Nat /\ necessary[pk] \in Int /\ prewarmed[pk] \in Seq(IPs)
                              /\ Len(prewarmed[pk]) \in Nat /\ Stock(pk) \in Int
  BY <1>1, StockTypes
<1>5. CASE ReconcilePlan
  <2>1. /\ \A pk \in PrewarmKeys : necessary'[pk] = Stemcells[pk] - Len(prewarmed[pk])
        /\ UNCHANGED prewarmed /\ reconciler' = "planned"
    BY <1>5 DEF ReconcilePlan
  <2>2. \A pk \in PrewarmKeys : Stock(pk)' = Stemcells[pk] /\ necessary'[pk] >= 0
    BY <1>3, <1>4, <2>1 DEF Stock
  <2> QED
    BY <1>4, <2>1, <2>2
<1>6. ASSUME Retry, UNCHANGED prewarmed
      PROVE  /\ \A pk \in PrewarmKeys : necessary'[pk] >= 0
             /\ reconciler' = "creating" => necessary'[creating'.pk] > 0
             /\ \A pk \in PrewarmKeys : /\ Stock(pk)' <= Stemcells[pk]
                                        /\ Stock(pk)' < Stemcells[pk] => PokeDue(pk)'
  <2>1. /\ \A pk \in PrewarmKeys : necessary'[pk] = 0
        /\ reconciler' = "waiting" /\ prewarmPoke'
    BY <1>6 DEF Retry, Poked
  <2> QED
    BY <1>3, <1>4, <1>6, <2>1 DEF Stock, PokeDue
<1>7. CASE PrewarmCreate
  <2>1. CASE Retry
    BY <1>6, <1>7, <2>1 DEF PrewarmCreate
  <2>2. PICK pk \in PrewarmKeys :
          /\ necessary[pk] > 0
          /\ Retry \/ \E c \in usableIPs : creating' = [pk |-> pk, c |-> c] /\ UNCHANGED <<prewarmPoke, necessary>>
    BY <1>7 DEF PrewarmCreate
  <2>3. UNCHANGED prewarmed
    BY <1>7 DEF PrewarmCreate
  <2>4. CASE ~Retry
    <3>1. creating'.pk = pk /\ UNCHANGED <<prewarmPoke, necessary>>
      BY <2>2, <2>4
    <3> QED
      BY <1>2, <1>3, <2>2, <2>3, <3>1 DEF Stock, PokeDue
  <2> QED
    BY <2>1, <2>4
<1>8. CASE PrewarmCreated
  <2>1. CASE Retry /\ UNCHANGED prewarmed
    BY <1>6, <2>1
  <2>2. CASE ~(Retry /\ UNCHANGED prewarmed)
    <3>1. PICK pk, c : pk = creating.pk /\ c = creating.c
      OBVIOUS
    <3>2. pk \in PrewarmKeys /\ c \in IPs /\ necessary[pk] > 0
      BY <1>1, <1>3, <1>8, <3>1 DEF PrewarmCreated, TypeInv
    <3>3. /\ prewarmed' = [prewarmed EXCEPT ![pk] = Append(prewarmed[pk], c)]
          /\ necessary' = [necessary EXCEPT ![pk] = necessary[pk] - 1]
          /\ reconciler' = "planned" /\ UNCHANGED prewarmPoke
      BY <1>8, <2>2, <3>1 DEF PrewarmCreated
    <3>4. Len(Append(prewarmed[pk], c)) = Len(prewarmed[pk]) + 1
      BY <1>4, <3>2, AppendType
    <3>5. Stock(pk)' = Stock(pk) /\ necessary'[pk] = necessary[pk] - 1
      BY <1>1, <1>4, <3>2, <3>3, <3>4 DEF Stock, TypeOK, PrewarmType
    <3>6. \A j \in PrewarmKeys \ {pk} : Stock(j)' = Stock(j) /\ necessary'[j] = necessary[j]
      BY <1>1, <3>3 DEF Stock, TypeOK, PrewarmType
    <3>7. \A j \in PrewarmKeys : PokeDue(j)' <=> PokeDue(j)
      BY <1>2, <3>3 DEF PokeDue
    <3> QED
      BY <1>3, <1>4, <3>2, <3>3, <3>5, <3>6, <3>7
  <2> QED
    BY <2>1, <2>2
<1>9. CASE ReconcileDone
  <2>1. /\ \A pk \in PrewarmKeys : necessary[pk] <= 0 /\ necessary'[pk] = 0
        /\ UNCHANGED <<prewarmed, prewarmPoke>> /\ reconciler' = "waiting"
    BY <1>9 DEF ReconcileDone
  <2>2. \A pk \in PrewarmKeys : necessary'[pk] = necessary[pk] /\ Stock(pk)' = Stock(pk)
    BY <1>3, <1>4, <2>1 DEF Stock
  <2> QED
    BY <1>2, <1>3, <2>1, <2>2 DEF PokeDue
<1>10. CASE ReconcilerStop
  BY <1>2, <1>3, <1>10 DEF ReconcilerStop, Stock, PokeDue
<1> QED
  BY <1>5, <1>7, <1>8, <1>9, <1>10 DEF Reconciler

(* In every reachable state of a running pool, a prewarm container that is        *)
(* missing and not planned for has a poke buffered or about to be sent, so no     *)
(* send that gave up on a full prewarmPoke was needed; and no more are planned    *)
(* than configured.                                                              *)
THEOREM PokeNeverLost == Spec => []NoLostPoke
<1>1. Init => StockInv
  <2> SUFFICES ASSUME Init PROVE StockInv
    OBVIOUS
  <2>1. \A pk \in PrewarmKeys : Stock(pk) = 0 /\ Stemcells[pk] \in Nat
    BY KeyAssumption DEF Init, Stock
  <2>2. StockKept
    BY <2>1 DEF Init, StockKept, PokeDue
  <2> QED
    BY <2>2, InitTypeInv DEF StockInv, PlanOK, Init
<1>2. StockInv /\ [Next]_vars => StockInv'
  <2> SUFFICES ASSUME StockInv, [Next]_vars PROVE StockInv'
    OBVIOUS
  <2>1. TypeInv'
    BY StepTypeInv DEF StockInv
  <2>2. CASE Grant
    <3>1. Head(waiters) \in Callers /\ pc[Head(waiters)] = "wait" /\ TypeOK
      BY <2>2, TailType DEF Grant, StockInv, TypeInv, TypeOK, CapacityType, WaitersOK
    <3>2. \A q \in Callers : pc'[q] = "poke" <=> pc[q] = "poke"
      BY <2>2, <3>1 DEF Grant, Goto, TypeOK, CallersType
    <3> QED
      BY <2>1, <2>2, <3>2 DEF Grant, StockInv, PlanOK, StockKept, Stock, PokeDue, prewarmVars, envVars
  <2>3. CASE Deleter \/ ReapLock \/ Reap \/ ReaperStop \/ Shutdown \/ ShutDown
    <3>1. UNCHANGED <<pc, key>>
      BY <2>3, BackgroundFrame DEF callerVars
    <3>2. phase' # "running" \/ UNCHANGED <<phase, prewarmVars>>
      BY <2>3 DEF Deleter, DeleterReceive, DeleterRemove, DeleterStop, ReapLock, Reap, ReapCollect, ReapUnlock,
                  ReapRemove, ReapDone, ReaperStop, Shutdown, ShutDown, ShutdownWait, ShutdownIdle,
                  ShutdownPrewarmed, ShutdownDone, envVars
    <3> QED
      BY <2>1, <3>1, <3>2 DEF StockInv, PlanOK, StockKept, Stock, PokeDue, prewarmVars
  <2>4. CASE UNCHANGED vars
    BY <2>1, <2>4 DEF vars, StockInv, PlanOK, StockKept, Stock, PokeDue
  <2> QED
    BY <2>1, <2>2, <2>3, <2>4, InvocationStock, ReconcilerStock DEF Next, StockInv
<1>3. StockInv => NoLostPoke
  <2> SUFFICES ASSUME StockKept PROVE NoLostPoke
    BY DEF StockInv
  <2> QED
    BY DEF StockKept, Stock, PokeDue, NoLostPoke
<1> QED
  BY <1>1, <1>2, <1>3, PTL DEF Spec

--------------------------------------------------------------------------------
(* Shutdown.                                                                    *)

\* Only the loop that makes space and the sends behind it have containers to delete.
Drained == \A p \in Callers : pc[p] \notin {"evict", "send"} => toDelete[p] = <<>>
\* Shutdown begins when no invocation is under way, and none begins after it.
Alone == phase # "running" => \A p \in Callers : pc[p] = "idle"
\* The remover returns with its channel drained, the reaper with nothing in its hands ...
Returned == /\ deleting = "stopped" => phase # "running" /\ deleteForSpace = <<>>
            /\ reaper \in {"ticking", "stopped"} => toReap = {}
\* ... and the containers in the pool are deleted when both, and the reconciler, have.
Waited == phase \in {"deleting", "down"} =>
            reconciler = "stopped" /\ deleting = "stopped" /\ reaper = "stopped"
\* Shutdown ends when both pools are empty.
Deleted == phase = "down" => /\ \A k \in Keys : idles[k] = <<>>
                             /\ \A pk \in PrewarmKeys : prewarmed[pk] = <<>>
EndInv == AccountInv /\ Drained /\ Alone /\ Returned /\ Waited /\ Deleted

(* What an invocation does to the containers that it and the remover have to delete. *)
LEMMA CallerDrains ==
  ASSUME EndInv, NEW p \in Callers, (\E k \in Keys : Get(p, k)) \/ Invocation(p)
  PROVE  /\ pc'[p] \notin {"evict", "send"} => toDelete'[p] = <<>>
         /\ UNCHANGED <<deleting, reaper, toReap, reconciler, phase>>
         /\ phase = "running"
         /\ deleting = "stopped" => UNCHANGED deleteForSpace
<1>1. TypeInv /\ TypeOK /\ CallersType /\ CallerOK(p)
  BY DEF EndInv, AccountInv, OwnerInv, TypeInv, TypeOK
<1>2. SpaceCanBeMade
  BY NeverEmpty DEF EndInv
<1>3. phase = "running"
  BY DEF EndInv, Alone, Invocation, Get, Count, LookupWarm, LookupCold, EvictOne, Send, TakePrewarm, Poke, Create,
         Created, Unpause, Firewall, Initialize, PutToDestroy, Put, PutIdle, Uncount, Release
<1>4. deleting # "stopped"
  BY <1>3 DEF EndInv, Returned
<1> USE <1>1 DEF CallersType, Goto
<1>5. CASE OnCapacity(p)
  BY <1>3, <1>5, OnCapacityFrame
     DEF OnCapacity, Get, Acquire, Count, Uncount, Release, EndInv, Drained, deleteVars, reapVars, prewarmVars, envVars
<1>6. CASE LookupWarm(p) \/ LookupCold(p) \/ PutIdle(p)
  BY <1>3, <1>6 DEF LookupWarm, LookupCold, PutIdle, EndInv, Drained, deleteVars, reapVars, prewarmVars, envVars
<1>7. CASE EvictOne(p)
  BY <1>2, <1>3, <1>7 DEF EvictOne, SpaceCanBeMade, deleteVars, reapVars, prewarmVars, envVars
<1>8. CASE OnPrewarmed(p)
  BY <1>3, <1>8 DEF OnPrewarmed, TakePrewarm, Poke, EndInv, Drained, deleteVars, reapVars, envVars
<1>9. CASE OnContainer(p)
  <2>1. UNCHANGED toDelete /\ pc[p] \notin {"evict", "send"}
    BY <1>9 DEF OnContainer, Create, Created, Unpause, Firewall, Initialize, PutToDestroy
  <2> QED
    BY <1>3, <1>9, <2>1, OnContainerFrame DEF EndInv, Drained, deleteVars, reapVars, prewarmVars
<1>10. CASE Put(p)
  BY <1>3, <1>10 DEF Put, EndInv, Drained, deleteVars, reapVars, prewarmVars, envVars
<1>11. CASE Send(p)
  <2>1. toDelete[p] \in Seq(IPs) /\ toDelete[p] # <<>>
    BY <1>11 DEF Send, CallerOK
  <2>2. Len(toDelete[p]) = 1 => Tail(toDelete[p]) = <<>>
    <3>1. ASSUME Len(toDelete[p]) = 1 PROVE Len(Tail(toDelete[p])) = 0 /\ Tail(toDelete[p]) \in Seq(IPs)
      BY <2>1, <3>1, TailType
    <3> QED
      BY <3>1, EmptySeq
  <2>3. pc'[p] = (IF Len(toDelete[p]) = 1 THEN "prewarm" ELSE "send") /\ toDelete'[p] = Tail(toDelete[p])
    BY <1>11 DEF Send
  <2> QED
    BY <1>3, <1>4, <1>11, <2>2, <2>3 DEF Send, reapVars, prewarmVars, envVars
<1> QED
  BY <1>5, <1>6, <1>7, <1>8, <1>9, <1>10, <1>11, InvocationSteps DEF OnIdles

(* While an invocation is under way nothing is shut down.                       *)
LEMMA CallerEnd ==
  ASSUME EndInv, NEW p \in Callers, (\E k \in Keys : Get(p, k)) \/ Invocation(p)
  PROVE  Drained' /\ Alone' /\ Returned' /\ Waited' /\ Deleted'
<1>1. OnlyCaller(p)
  BY CallerFrame DEF EndInv, AccountInv, OwnerInv
<1>2. phase' = "running"
  BY CallerDrains
<1>3. Drained'
  BY <1>1, CallerDrains DEF EndInv, Drained, OnlyCaller
<1> QED
  BY <1>2, <1>3, CallerDrains DEF EndInv, Alone, Returned, Waited, Deleted

(* What the background goroutines do, and when Shutdown goes on.                *)
LEMMA BackgroundEnd ==
  ASSUME EndInv, Background
  PROVE  Drained' /\ Alone' /\ Returned' /\ Waited' /\ Deleted'
<1>1. UNCHANGED <<pc, toDelete>>
  BY BackgroundFrame DEF Background, callerVars
<1>2. Drained'
  BY <1>1 DEF EndInv, Drained
<1> SUFFICES Alone' /\ Returned' /\ Waited' /\ Deleted'
  BY <1>2
<1>3. NoCtr # "stopped" /\ "stopped" \notin IPs
  BY ContainerAssumption
<1>4. TypeOK
  BY DEF EndInv, AccountInv, OwnerInv, TypeInv
<1> USE DEF EndInv, Alone, Returned, Waited, Deleted
<1>5. CASE Deleter
  BY <1>1, <1>3, <1>4, <1>5 DEF Deleter, DeleterReceive, DeleterRemove, DeleterStop, idleVars, reapVars, prewarmVars,
                          envVars, TypeOK, DeletionType
<1>6. CASE ReapLock \/ Reap \/ ReaperStop
  <2>1. UNCHANGED <<phase, deleting, deleteForSpace, reconciler, prewarmed>>
    BY <1>6 DEF ReapLock, Reap, ReapCollect, ReapUnlock, ReapRemove, ReapDone, ReaperStop, deleteVars, prewarmVars, envVars
  <2>2. reaper # "stopped" /\ phase \notin {"deleting", "down"}
    BY <1>6 DEF ReapLock, Reap, ReapCollect, ReapUnlock, ReapRemove, ReapDone, ReaperStop
  <2>3. reaper' \in {"ticking", "stopped"} => toReap' = {}
    BY <1>6 DEF ReapLock, Reap, ReapCollect, ReapUnlock, ReapRemove, ReapDone, ReaperStop
  <2> QED
    BY <1>1, <2>1, <2>2, <2>3
<1>7. CASE Reconciler
  <2>1. UNCHANGED <<phase, deleting, deleteForSpace, reaper, toReap>> /\ reconciler # "stopped"
    BY <1>7 DEF Reconciler, ReconcilePlan, PrewarmCreate, PrewarmCreated, ReconcileDone, ReconcilerStop, deleteVars,
                reapVars, envVars
  <2> QED
    BY <1>1, <2>1
<1>8. CASE Shutdown \/ ShutdownWait
  BY <1>1, <1>8 DEF Shutdown, ShutdownWait, deleteVars, reapVars, prewarmVars
<1>9. CASE ShutdownIdle \/ ShutdownPrewarmed
  BY <1>1, <1>9 DEF ShutdownIdle, ShutdownPrewarmed, deleteVars, reapVars, prewarmVars
<1>10. CASE ShutdownDone
  <2>1. \A k \in Keys : idles[k] = <<>>
    <3> SUFFICES ASSUME NEW k \in Keys, idles[k] # <<>> PROVE FALSE
      OBVIOUS
    <3>1. idles[k] \in Seq(IPs)
      BY <1>4 DEF TypeOK, IdlesType
    <3>2. 1 \in DOMAIN idles[k]
      BY <3>1
    <3>3. idles[k][1] \in IdleSet
      BY <3>2 DEF IdleSet, Range
    <3> QED
      BY <1>10, <3>3 DEF ShutdownDone
  <2> QED
    BY <1>1, <1>10, <2>1 DEF ShutdownDone, idleVars, deleteVars, reapVars, prewarmVars
<1> QED
  BY <1>5, <1>6, <1>7, <1>8, <1>9, <1>10 DEF Background, ShutDown

(* The inductive invariant of Shutdown holds initially and is kept.             *)
LEMMA InitEnd == Init => EndInv
<1> SUFFICES ASSUME Init PROVE EndInv
  OBVIOUS
<1>1. NoCtr # "stopped"
  BY ContainerAssumption
<1> QED
  BY <1>1, InitAccounts DEF Init, EndInv, Drained, Alone, Returned, Waited, Deleted

LEMMA StepEnd == EndInv /\ [Next]_vars => EndInv'
<1> SUFFICES ASSUME EndInv, [Next]_vars PROVE EndInv'
  OBVIOUS
<1>1. AccountInv'
  BY StepAccounts DEF EndInv
<1>2. CASE Grant
  <2>1. TypeInv /\ TypeOK
    BY DEF EndInv, AccountInv, OwnerInv, TypeInv
  <2>2. Head(waiters) \in Callers /\ pc[Head(waiters)] = "wait"
    BY <1>2, <2>1, TailType DEF Grant, TypeInv, TypeOK, CapacityType, WaitersOK
  <2>3. phase = "running" /\ UNCHANGED <<phase, toDelete, deleting, deleteForSpace, reaper, toReap>>
    BY <1>2, <2>2 DEF EndInv, Alone, Grant, deleteVars, reapVars, envVars
  <2>4. \A q \in Callers : pc'[q] \in {"evict", "send"} <=> pc[q] \in {"evict", "send"}
    BY <1>2, <2>1, <2>2 DEF Grant, Goto, TypeOK, CallersType
  <2> QED
    BY <1>1, <2>3, <2>4 DEF EndInv, Drained, Alone, Returned, Waited, Deleted
<1>3. CASE UNCHANGED vars
  BY <1>1, <1>3 DEF vars, EndInv, Drained, Alone, Returned, Waited, Deleted
<1> QED
  BY <1>1, <1>2, <1>3, CallerEnd, BackgroundEnd DEF Next, Background, EndInv

(* When Shutdown has returned, every container of the pool was removed, its IP  *)
(* free again and without rules, unless removing it failed, and no goroutine is *)
(* left that would pause one: whatever was idle, prewarmed, evicted, reaped or  *)
(* being created when it began, for any number of them and of failures.         *)
THEOREM NothingLeftBehind == Spec => [](phase = "down" => NothingLeft)
<1>1. EndInv => (phase = "down" => NothingLeft)
  <2> SUFFICES ASSUME EndInv, phase = "down"
               PROVE  usableIPs \cup leaked = IPs /\ pausing = {} /\ firewalled \subseteq leaked
    BY DEF NothingLeft
  <2>1. TypeInv /\ TypeOK /\ \E w, x : Owned(w, x)
    BY DEF EndInv, AccountInv, OwnerInv, TypeInv
  <2>2. PICK w, x : Owned(w, x)
    BY <2>1
  <2>3. /\ \A p \in Callers : pc[p] = "idle" /\ toDelete[p] = <<>>
        /\ deleteForSpace = <<>> /\ toReap = {} /\ deleting = "stopped" /\ reconciler = "stopped"
        /\ \A k \in Keys : idles[k] = <<>>
        /\ \A pk \in PrewarmKeys : prewarmed[pk] = <<>>
    BY DEF EndInv, Drained, Alone, Returned, Waited, Deleted
  <2>4. Range(<<>>) = {}
    BY DEF Range
  <2>5. ASSUME NEW c \in IPs PROVE w[c] \in {"usable", "leaked"}
    <3>1. w[c] \in Kinds
      BY <2>2 DEF Owned, Placement
    <3>2. w[c] # "idle" /\ w[c] # "prewarmed" /\ w[c] # "toDelete"
      BY <2>2, <2>3, <2>4 DEF Owned, Placement, InIdles, InPrewarmed, InToDelete, InLists
    <3>3. w[c] # "deleteForSpace" /\ w[c] # "toReap"
      BY <2>2, <2>3, <2>4 DEF Owned, Placement, InSpace, InReap
    <3>4. w[c] # "deleting" /\ w[c] # "creating"
      BY <2>2, <2>3, ContainerAssumption DEF Owned, Placement, InDeleting, InCreating
    <3>5. w[c] # "ctr"
      BY <2>2, <2>3 DEF Owned, Placement, InHands, HasCtr
    <3> QED
      BY <3>1, <3>2, <3>3, <3>4, <3>5 DEF Kinds
  <2>6. usableIPs \cup leaked = IPs
    <3>1. usableIPs \subseteq IPs /\ leaked \subseteq IPs
      BY <2>1 DEF TypeOK, ContainersType
    <3> QED
      BY <2>2, <2>5, <3>1 DEF Owned, Placement, InUsable, InLeaked
  <2>7. ASSUME NEW c \in IPs PROVE c \notin pausing
    BY <2>2, <2>5 DEF Owned, Fields, PauseAt
  <2>8. ASSUME NEW c \in IPs, c \notin leaked PROVE c \notin firewalled
    BY <2>2, <2>5, <2>8 DEF Owned, Placement, InLeaked, Fields, NoRulesAt
  <2>9. pausing \subseteq IPs /\ firewalled \subseteq IPs
    BY <2>1 DEF TypeOK, ContainersType
  <2> QED
    BY <2>6, <2>7, <2>8, <2>9
<1> QED
  BY <1>1, InitEnd, StepEnd, PTL DEF Spec

================================================================================
