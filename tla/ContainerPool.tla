----------------------------- MODULE ContainerPool -----------------------------
(******************************************************************************)
(* The container pool of the invoker (pkg/exec/pool.go): Get, Put and         *)
(* PutToDestroy called by concurrent invocations, and the three background    *)
(* goroutines of NewContainerPool: the idle reaper, the remover of evicted    *)
(* containers and the prewarm reconciler, and Shutdown.                       *)
(*                                                                            *)
(* A container is named by the IP address it occupies: the factory takes the  *)
(* IP out of UsableIPs before it creates the container and puts it back only  *)
(* after the container is removed.  Time is abstracted to the order of the    *)
(* lastUsed stamps.  Both critical sections that loop (making space, reaping) *)
(* hold idlesMux over several steps; every other one is a single step.        *)
(******************************************************************************)
EXTENDS Integers, Sequences, FiniteSets, Functions

CONSTANTS
  Callers,          \* goroutines that run invocations (Kafka workers, HTTP handlers)
  Keys,             \* WarmContainerKeys: namespace and function, with its revision
  PrewarmKeys,      \* PrewarmContainerKeys: kind and memory
  IPs,              \* ContainerFactory.UsableIPs at startup
  NoKey, NoCtr,     \* the zero values
  PrewarmKey,       \* [Keys -> PrewarmKeys], kind and memory limit of a function
  Memory,           \* [PrewarmKeys -> Nat], the memory of a PrewarmKey
  Stemcells,        \* [PrewarmKeys -> Nat], the configured stemcell count
  MaxMemory,        \* maxMemory, the capacity of the inFlight semaphore
  DeleteBuffer,     \* capacity of containersToDeleteForSpace (16 in the code)
  FirewallAnswers,  \* [Keys -> SUBSET BOOLEAN], what NeedsPerContainerFirewallSetup may return
  Reaping,          \* maxContainerIdleTime > 0
  ShuttingDown,     \* whether Shutdown is called
  MaxFaults         \* bound: docker and firewall calls that fail

ASSUME KeyAssumption ==
  /\ NoKey \notin Keys
  /\ PrewarmKey \in [Keys -> PrewarmKeys]
  /\ Memory \in [PrewarmKeys -> Nat \ {0}]
  /\ Stemcells \in [PrewarmKeys -> Nat]
\* The zero value and the marks of a goroutine that has returned or holds a mutex are nobody's name.
ASSUME ContainerAssumption ==
  /\ NoCtr \notin IPs \cup [pk : PrewarmKeys, c : IPs] /\ "stopped" \notin IPs \cup {NoCtr}
  /\ {"unlocked", "reaper"} \cap Callers = {}
ASSUME BoundAssumption ==
  /\ MaxMemory \in Nat \ {0} /\ DeleteBuffer \in Nat \ {0} /\ MaxFaults \in Nat
  /\ FirewallAnswers \in [Keys -> SUBSET BOOLEAN] /\ Reaping \in BOOLEAN /\ ShuttingDown \in BOOLEAN
ASSUME FiniteAssumption == IsFiniteSet(Callers) /\ IsFiniteSet(IPs)

VARIABLES
  \* one invocation: its location in the code and its local variables
  pc, key, mem, seen, ctr, toDelete,
  \* the inFlight semaphore, its FIFO of waiters, and the inFlightMemory atomic
  inFlight, waiters, inFlightMemory,
  \* the idle pool under idlesMux; older orders the lastUsed stamps
  idlesMux, idlesMemory, idles, older,
  \* prewarmed, the one-slot prewarmPoke channel, the reconciler and its plan
  prewarmed, prewarmPoke, reconciler, necessary, creating,
  \* containersToDeleteForSpace and the container its reader works on
  deleteForSpace, deleting,
  \* the reaper, the containers past olderThan and those it has to delete
  reaper, tooOld, toReap,
  \* the containers: free IPs, abandoned ones, and the fields of PooledContainer
  usableIPs, leaked, memory, initializedFor, loaded, pausing, firewalled,
  \* failures so far, progress of Shutdown, send on a closed channel
  faults, phase, panicked

callerVars  == <<pc, key, mem, seen, ctr, toDelete>>
semVars     == <<inFlight, waiters>>
idleVars    == <<idlesMux, idlesMemory, idles, older>>
prewarmVars == <<prewarmed, prewarmPoke, reconciler, necessary, creating>>
deleteVars  == <<deleteForSpace, deleting>>
reapVars    == <<reaper, tooOld, toReap>>
ctrVars     == <<usableIPs, leaked, memory, initializedFor, loaded, pausing, firewalled>>
envVars     == <<faults, phase, panicked>>
vars == <<pc, key, mem, seen, ctr, toDelete, inFlight, waiters, inFlightMemory,
          idlesMux, idlesMemory, idles, older,
          prewarmed, prewarmPoke, reconciler, necessary, creating,
          deleteForSpace, deleting, reaper, tooOld, toReap,
          usableIPs, leaked, memory, initializedFor, loaded, pausing, firewalled,
          faults, phase, panicked>>

Unlocked == "unlocked"
Reaper   == "reaper"

\* The locations of an invocation, in the order Get and Put pass through them.
Locations == {"idle", "wait", "oversize", "count", "lookup", "evict", "send", "unpause",
              "prewarm", "poke", "create", "creating", "fwWarm", "fwPrewarm", "fwCold",
              "init", "run", "append", "uncount", "release"}
\* Between Acquire and Release of the semaphore ...
Holding == {p \in Callers : pc[p] \notin {"idle", "wait", "oversize"}}
\* ... and between the two Adds on inFlightMemory.
Counted == {p \in Callers : pc[p] \notin {"idle", "wait", "oversize", "count", "release"}}
\* Invocations whose container, taken or promised, counts on top of the idle ones.
Placed  == {p \in Counted : pc[p] \notin {"lookup", "evict", "uncount"}}
\* Owners of the container in ctr[p].
HasCtr  == {p \in Callers : pc[p] \in {"unpause", "poke", "creating", "fwWarm", "fwPrewarm",
                                       "fwCold", "init", "run", "append"}}

MemoryOf(k) == Memory[PrewarmKey[k]]
IdleSet     == UNION {Range(idles[k]) : k \in Keys}
\* Containers whose lastUsed is still going to be read.
Stamped     == IdleSet \cup {ctr[p] : p \in {q \in Callers : pc[q] = "append"}}

CallersType ==
  /\ pc \in [Callers -> Locations]
  /\ key \in [Callers -> Keys \cup {NoKey}]
  /\ mem \in [Callers -> Nat]
  /\ seen \in [Callers -> Int]
  /\ ctr \in [Callers -> IPs \cup {NoCtr}]
  /\ toDelete \in [Callers -> Seq(IPs)]
CapacityType == inFlight \in Int /\ inFlightMemory \in Int /\ waiters \in Seq(Callers)
IdlesType ==
  /\ idlesMux \in Callers \cup {Unlocked, Reaper}
  /\ idlesMemory \in Int
  /\ idles \in [Keys -> Seq(IPs)]
  /\ older \in SUBSET (IPs \X IPs)
PrewarmType ==
  /\ prewarmed \in [PrewarmKeys -> Seq(IPs)]
  /\ prewarmPoke \in BOOLEAN
  /\ reconciler \in {"waiting", "planned", "creating", "stopped"}
  /\ necessary \in [PrewarmKeys -> Int]
  /\ creating \in [pk : PrewarmKeys, c : IPs] \cup {NoCtr}
DeletionType ==
  /\ deleteForSpace \in Seq(IPs) /\ Len(deleteForSpace) <= DeleteBuffer
  /\ deleting \in IPs \cup {NoCtr, "stopped"}
  /\ reaper \in {"ticking", "locked", "deleting", "stopped"}
  /\ tooOld \in SUBSET IPs /\ toReap \in SUBSET IPs
ContainersType ==
  /\ usableIPs \in SUBSET IPs /\ leaked \in SUBSET IPs
  /\ memory \in [IPs -> Nat]
  /\ initializedFor \in [IPs -> Keys \cup {NoKey}]
  /\ loaded \in [IPs -> Keys \cup {NoKey}]
  /\ pausing \in SUBSET IPs /\ firewalled \in SUBSET IPs
EnvironmentType ==
  /\ faults \in 0..MaxFaults
  /\ phase \in {"running", "closing", "deleting", "down"}
  /\ panicked \in BOOLEAN
\* The variables have their types, and the buffer of evicted containers its capacity.
TypeOK ==
  /\ CallersType /\ CapacityType /\ IdlesType /\ PrewarmType /\ DeletionType
  /\ ContainersType /\ EnvironmentType

Init ==
  /\ pc = [p \in Callers |-> "idle"]
  /\ key = [p \in Callers |-> NoKey]
  /\ mem = [p \in Callers |-> 0]
  /\ seen = [p \in Callers |-> 0]
  /\ ctr = [p \in Callers |-> NoCtr]
  /\ toDelete = [p \in Callers |-> <<>>]
  /\ inFlight = 0 /\ waiters = <<>> /\ inFlightMemory = 0
  /\ idlesMux = Unlocked /\ idlesMemory = 0
  /\ idles = [k \in Keys |-> <<>>]
  /\ older = {}
  /\ prewarmed = [pk \in PrewarmKeys |-> <<>>]
  /\ prewarmPoke = TRUE
  /\ reconciler = "waiting"
  /\ necessary = [pk \in PrewarmKeys |-> 0]
  /\ creating = NoCtr
  /\ deleteForSpace = <<>> /\ deleting = NoCtr
  /\ reaper = (IF Reaping THEN "ticking" ELSE "stopped")
  /\ tooOld = {} /\ toReap = {}
  /\ usableIPs = IPs /\ leaked = {}
  /\ memory = [c \in IPs |-> 0]
  /\ initializedFor = [c \in IPs |-> NoKey]
  /\ loaded = [c \in IPs |-> NoKey]
  /\ pausing = {} /\ firewalled = {}
  /\ faults = 0 /\ phase = "running" /\ panicked = FALSE

--------------------------------------------------------------------------------
(* Steps shared by the actors.                                                *)

Goto(p, l) == pc' = [pc EXCEPT ![p] = l]

\* A docker, firewall or state call fails.
Fault == faults < MaxFaults /\ faults' = faults + 1

\* The container object is dropped, its IP belongs to nobody's PooledContainer.
Forgotten(c) ==
  /\ memory' = [memory EXCEPT ![c] = 0]
  /\ initializedFor' = [initializedFor EXCEPT ![c] = NoKey]
  /\ loaded' = [loaded EXCEPT ![c] = NoKey]
\* Mutation: the rules are left behind.
RemovedWithRules(c) ==
  /\ Forgotten(c)
  /\ usableIPs' = usableIPs \cup {c}
  /\ UNCHANGED <<leaked, firewalled>>
\* The firewall rules and the container are gone and the IP is usable again.
Removed(c) ==
  /\ Forgotten(c)
  /\ usableIPs' = usableIPs \cup {c}
  /\ firewalled' = firewalled \ {c}
  /\ UNCHANGED leaked
\* Mutation: the IP is released although removing failed.
LeakedButFreed(c) ==
  /\ Forgotten(c)
  /\ leaked' = leaked \cup {c}
  /\ firewalled' \in {firewalled, firewalled \ {c}}
  /\ usableIPs' = usableIPs \cup {c}
\* Removing stopped half way: the IP stays blocked, with or without its rules.
Leaked(c) ==
  /\ Forgotten(c)
  /\ leaked' = leaked \cup {c}
  /\ firewalled' \in {firewalled, firewalled \ {c}}
  /\ UNCHANGED usableIPs
\* PooledContainer.Remove.
Remove(c) ==
  \/ Removed(c) /\ UNCHANGED faults
  \/ Fault /\ Leaked(c)
\* CleanupContainer, after a call on c has failed.
CleanupContainer(c) == Fault /\ (Removed(c) \/ Leaked(c))

\* UnpauseIfNeeded blocks until a goroutine started by PauseEventually answers.
UnpauseIfNeeded(c) == c \in pausing /\ pausing' = pausing \ {c}
\* Mutation: the scheduled pause is left behind.
RemoveWithoutUnpause(c) == (Remove(c) \/ CleanupContainer(c)) /\ UNCHANGED pausing
\* UnpauseIfNeeded followed by Remove: how every pooled container is deleted.
UnpauseAndRemove(c) == UnpauseIfNeeded(c) /\ (Remove(c) \/ CleanupContainer(c))

\* c's old stamp is no longer read ...
Unstamped(c) == {o \in older : c \notin {o[1], o[2]}}
\* ... and its new one is later than every other.
StampedLast(c) == Unstamped(c) \cup ((Stamped \ {c}) \X {c})

\* Mutation: the bookkeeping is forgotten.
DropHeadUncounted(k) ==
  /\ idles' = [idles EXCEPT ![k] = Tail(@)]
  /\ older' = Unstamped(Head(idles[k]))
  /\ UNCHANGED idlesMemory
\* The first container of the list of k leaves the idle pool.
DropHead(k) ==
  /\ idles' = [idles EXCEPT ![k] = Tail(@)]
  /\ idlesMemory' = idlesMemory - memory[Head(idles[k])]
  /\ older' = Unstamped(Head(idles[k]))

\* The PooledContainer of a new container records the memory it was created with.
Provisioned(c, m) == memory' = [memory EXCEPT ![c] = m]

\* Mutation: the poke is lost.
PokeLost == UNCHANGED prewarmPoke
\* A send on prewarmPoke that gives up when a poke is already buffered.
Poked == prewarmPoke' = TRUE

--------------------------------------------------------------------------------
(* Get: the semaphore, then the idle pool, a prewarm container or a new one.  *)

\* Mutation: the last unit is never lent.
RoomBelow(m) == inFlight + m < MaxMemory
\* The semaphore has m units left.
Room(m) == inFlight + m <= MaxMemory

\* semaphore.Weighted.Acquire: waiters are served in order, and a request larger
\* than the semaphore waits for its context, which never ends.
Acquire(p, m) ==
  \/ /\ waiters = <<>> /\ Room(m)
     /\ inFlight' = inFlight + m
     /\ Goto(p, "count")
     /\ UNCHANGED waiters
  \/ /\ m <= MaxMemory /\ (waiters # <<>> \/ ~Room(m))
     /\ waiters' = Append(waiters, p)
     /\ Goto(p, "wait")
     /\ UNCHANGED inFlight
  \/ /\ m > MaxMemory
     /\ Goto(p, "oversize")
     /\ UNCHANGED semVars

Get(p, k) ==
  /\ phase = "running" /\ pc[p] = "idle"
  /\ key' = [key EXCEPT ![p] = k]
  /\ mem' = [mem EXCEPT ![p] = MemoryOf(k)]
  /\ Acquire(p, MemoryOf(k))
  /\ UNCHANGED <<seen, ctr, toDelete, inFlightMemory, idleVars, prewarmVars, deleteVars,
                 reapVars, ctrVars, envVars>>

\* The semaphore hands its free part to the first waiter.
Grant ==
  /\ waiters # <<>>
  /\ LET p == Head(waiters) IN
       /\ Room(mem[p])
       /\ inFlight' = inFlight + mem[p]
       /\ waiters' = Tail(waiters)
       /\ Goto(p, "count")
  /\ UNCHANGED <<key, mem, seen, ctr, toDelete, inFlightMemory, idleVars, prewarmVars,
                 deleteVars, reapVars, ctrVars, envVars>>

\* inFlightMemory.Add, whose result getContainer uses as the memory in flight.
Count(p) ==
  /\ pc[p] = "count"
  /\ inFlightMemory' = inFlightMemory + mem[p]
  /\ seen' = [seen EXCEPT ![p] = inFlightMemory']
  /\ Goto(p, "lookup")
  /\ UNCHANGED <<key, mem, ctr, toDelete, semVars, idleVars, prewarmVars, deleteVars,
                 reapVars, ctrVars, envVars>>

\* Under idlesMux: the most recently used container of the key ...
LookupWarm(p) ==
  LET k == key[p]
      c == idles[k][Len(idles[k])] IN
  /\ pc[p] = "lookup" /\ idlesMux = Unlocked /\ idles[k] # <<>>
  /\ idles' = [idles EXCEPT ![k] = SubSeq(@, 1, Len(@) - 1)]
  /\ idlesMemory' = idlesMemory - memory[c]
  /\ older' = Unstamped(c)
  /\ ctr' = [ctr EXCEPT ![p] = c]
  /\ seen' = [seen EXCEPT ![p] = 0]
  /\ Goto(p, "unpause")
  /\ UNCHANGED <<key, mem, toDelete, semVars, inFlightMemory, idlesMux, prewarmVars,
                 deleteVars, reapVars, ctrVars, envVars>>

\* Mutation: one container too many is evicted.
FitsBelow(p, idle) == idle + seen[p] < MaxMemory
\* Mutation: what is in flight is left out.
FitsIdle(p, idle) == idle <= MaxMemory
\* Whether the idle pool leaves room for what was in flight when p was counted.
Fits(p, idle) == idle + seen[p] <= MaxMemory

\* ... or, when there is none, room for a container more.
LookupCold(p) ==
  /\ pc[p] = "lookup" /\ idlesMux = Unlocked /\ idles[key[p]] = <<>>
  /\ \/ /\ Fits(p, idlesMemory)
        /\ Goto(p, "prewarm")
        /\ seen' = [seen EXCEPT ![p] = 0]
        /\ UNCHANGED idlesMux
     \/ /\ ~Fits(p, idlesMemory)
        /\ Goto(p, "evict")
        /\ idlesMux' = p
        /\ UNCHANGED seen
  /\ UNCHANGED <<key, mem, ctr, toDelete, semVars, inFlightMemory, idlesMemory, idles, older,
                 prewarmVars, deleteVars, reapVars, ctrVars, envVars>>

\* The lists whose first container was used longest ago, among all first containers.
LongestUnused ==
  {k \in Keys : /\ idles[k] # <<>>
                /\ \A j \in Keys \ {k} :
                     idles[j] # <<>> => <<Head(idles[j]), Head(idles[k])>> \notin older}

\* One turn of the loop that makes space.  The defensive return keeps the lock.
EvictOne(p) ==
  /\ pc[p] = "evict"
  /\ IF IdleSet = {}
       THEN Goto(p, "uncount") /\ UNCHANGED <<toDelete, seen, idleVars>>
       ELSE \E k \in LongestUnused :
              /\ DropHead(k)
              /\ toDelete' = [toDelete EXCEPT ![p] = Append(@, Head(idles[k]))]
              /\ IF Fits(p, idlesMemory')
                   THEN /\ idlesMux' = Unlocked
                        /\ seen' = [seen EXCEPT ![p] = 0]
                        /\ Goto(p, "send")
                   ELSE UNCHANGED <<idlesMux, seen, pc>>
  /\ UNCHANGED <<key, mem, ctr, semVars, inFlightMemory, prewarmVars, deleteVars, reapVars,
                 ctrVars, envVars>>

\* containersToDeleteForSpace <- container, which blocks while the buffer is full.
Send(p) ==
  /\ pc[p] = "send" /\ Len(deleteForSpace) < DeleteBuffer
  /\ deleteForSpace' = Append(deleteForSpace, Head(toDelete[p]))
  /\ toDelete' = [toDelete EXCEPT ![p] = Tail(@)]
  /\ Goto(p, IF Len(toDelete[p]) = 1 THEN "prewarm" ELSE "send")
  /\ UNCHANGED <<key, mem, seen, ctr, semVars, inFlightMemory, idleVars, prewarmVars, deleting,
                 reapVars, ctrVars, envVars>>

\* Under prewarmMux: the first prewarm container of the kind and memory, if any.
TakePrewarm(p) ==
  LET pk == PrewarmKey[key[p]] IN
  /\ pc[p] = "prewarm"
  /\ \/ /\ prewarmed[pk] # <<>>
        /\ ctr' = [ctr EXCEPT ![p] = Head(prewarmed[pk])]
        /\ prewarmed' = [prewarmed EXCEPT ![pk] = Tail(@)]
        /\ Goto(p, "poke")
     \/ /\ prewarmed[pk] = <<>>
        /\ Goto(p, "create")
        /\ UNCHANGED <<ctr, prewarmed>>
  /\ UNCHANGED <<key, mem, seen, toDelete, semVars, inFlightMemory, idleVars, prewarmPoke,
                 reconciler, necessary, creating, deleteVars, reapVars, ctrVars, envVars>>

\* "Ensure the prewarm configuration is reconciled."
Poke(p) ==
  /\ pc[p] = "poke"
  /\ Poked
  /\ Goto(p, "fwPrewarm")
  /\ UNCHANGED <<key, mem, seen, ctr, toDelete, semVars, inFlightMemory, idleVars, prewarmed,
                 reconciler, necessary, creating, deleteVars, reapVars, ctrVars, envVars>>

\* CreateContainer takes an IP, or fails when there is none left ...
Create(p) ==
  /\ pc[p] = "create"
  /\ \/ \E c \in usableIPs :
          /\ usableIPs' = usableIPs \ {c}
          /\ ctr' = [ctr EXCEPT ![p] = c]
          /\ Goto(p, "creating")
     \/ /\ usableIPs = {}
        /\ Goto(p, "uncount")
        /\ UNCHANGED <<usableIPs, ctr>>
  /\ UNCHANGED <<key, mem, seen, toDelete, semVars, inFlightMemory, idleVars, prewarmVars,
                 deleteVars, reapVars, leaked, memory, initializedFor, loaded, pausing,
                 firewalled, envVars>>

\* ... and then creates, starts and polls the container, or cleans it up.  A kind
\* without an image ends as a create that fails.
Created(p) ==
  LET c == ctr[p] IN
  /\ pc[p] = "creating"
  /\ \/ /\ Provisioned(c, mem[p])
        /\ initializedFor' = [initializedFor EXCEPT ![c] = key[p]]
        /\ Goto(p, "fwCold")
        /\ UNCHANGED <<ctr, usableIPs, leaked, loaded, firewalled, faults>>
     \/ /\ CleanupContainer(c)
        /\ ctr' = [ctr EXCEPT ![p] = NoCtr]
        /\ Goto(p, "uncount")
  /\ UNCHANGED <<key, mem, seen, toDelete, semVars, inFlightMemory, idleVars, prewarmVars,
                 deleteVars, reapVars, pausing, phase, panicked>>

\* A warm container is resumed; a broken one is removed, or abandoned when its
\* state cannot be read.
Unpause(p) ==
  LET c == ctr[p] IN
  /\ pc[p] = "unpause"
  /\ UnpauseIfNeeded(c)
  /\ \/ /\ Goto(p, "fwWarm")
        /\ UNCHANGED <<ctr, usableIPs, leaked, memory, initializedFor, loaded, firewalled, faults>>
     \/ /\ CleanupContainer(c)
        /\ ctr' = [ctr EXCEPT ![p] = NoCtr]
        /\ Goto(p, "uncount")
  /\ UNCHANGED <<key, mem, seen, toDelete, semVars, inFlightMemory, idleVars, prewarmVars,
                 deleteVars, reapVars, phase, panicked>>

\* Mutation: a fresh container passes for a reused one.
AlwaysReused(l) == "run"
\* isReused: only a container that was returned once is not initialized again.
AfterFirewall(l) == IF l = "fwWarm" THEN "run" ELSE "init"

\* The rules of the container are brought in line with what its namespace needs.  A
\* SetupPerContainerFirewall that fails returns no cleanup, hence leaves no rules.
Firewall(p) ==
  LET c == ctr[p] IN
  /\ pc[p] \in {"fwWarm", "fwPrewarm", "fwCold"}
  /\ \E needs \in FirewallAnswers[key[p]] :
       \/ /\ firewalled' = IF needs THEN firewalled \cup {c} ELSE firewalled \ {c}
          /\ initializedFor' = [initializedFor EXCEPT ![c] = IF pc[p] = "fwPrewarm" THEN key[p] ELSE @]
          /\ Goto(p, AfterFirewall(pc[p]))
          /\ UNCHANGED <<ctr, usableIPs, leaked, memory, loaded, faults>>
       \/ /\ needs # (c \in firewalled)
          /\ CleanupContainer(c)
          /\ ctr' = [ctr EXCEPT ![p] = NoCtr]
          /\ Goto(p, "uncount")
  /\ UNCHANGED <<key, mem, seen, toDelete, semVars, inFlightMemory, idleVars, prewarmVars,
                 deleteVars, reapVars, pausing, phase, panicked>>

--------------------------------------------------------------------------------
(* The invocation uses the container and returns it.                          *)

\* A container that was not reused is given the code of the function.
Initialize(p) ==
  /\ pc[p] = "init"
  /\ loaded' = [loaded EXCEPT ![ctr[p]] = key[p]]
  /\ Goto(p, "run")
  /\ UNCHANGED <<key, mem, seen, ctr, toDelete, semVars, inFlightMemory, idleVars, prewarmVars,
                 deleteVars, reapVars, usableIPs, leaked, memory, initializedFor, pausing,
                 firewalled, envVars>>

\* The function failed in a way that breaks the container.
PutToDestroy(p) ==
  LET c == ctr[p] IN
  /\ pc[p] \in {"init", "run"}
  /\ mem' = [mem EXCEPT ![p] = memory[c]]
  /\ Remove(c)
  /\ ctr' = [ctr EXCEPT ![p] = NoCtr]
  /\ Goto(p, "uncount")
  /\ UNCHANGED <<key, seen, toDelete, semVars, inFlightMemory, idleVars, prewarmVars,
                 deleteVars, reapVars, pausing, phase, panicked>>

\* Put before the lock: the stamp and the scheduled pause ...
Put(p) ==
  LET c == ctr[p] IN
  /\ pc[p] = "run"
  /\ mem' = [mem EXCEPT ![p] = memory[c]]
  /\ older' = StampedLast(c)
  /\ pausing' = pausing \cup {c}
  /\ Goto(p, "append")
  /\ UNCHANGED <<key, seen, ctr, toDelete, semVars, inFlightMemory, idlesMux, idlesMemory, idles,
                 prewarmVars, deleteVars, reapVars, usableIPs, leaked, memory, initializedFor,
                 loaded, firewalled, envVars>>

\* ... and under it.
PutIdle(p) ==
  LET c == ctr[p] IN
  /\ pc[p] = "append" /\ idlesMux = Unlocked
  /\ idlesMemory' = idlesMemory + memory[c]
  /\ idles' = [idles EXCEPT ![initializedFor[c]] = Append(@, c)]
  /\ ctr' = [ctr EXCEPT ![p] = NoCtr]
  /\ Goto(p, "uncount")
  /\ UNCHANGED <<key, mem, seen, toDelete, semVars, inFlightMemory, idlesMux, older, prewarmVars,
                 deleteVars, reapVars, ctrVars, envVars>>

\* The deferred releases of Put and PutToDestroy, and those of a Get that failed.
Uncount(p) ==
  /\ pc[p] = "uncount"
  /\ inFlightMemory' = inFlightMemory - mem[p]
  /\ Goto(p, "release")
  /\ UNCHANGED <<key, mem, seen, ctr, toDelete, semVars, idleVars, prewarmVars, deleteVars,
                 reapVars, ctrVars, envVars>>
Release(p) ==
  /\ pc[p] = "release"
  /\ inFlight' = inFlight - mem[p]
  /\ key' = [key EXCEPT ![p] = NoKey]
  /\ mem' = [mem EXCEPT ![p] = 0]
  /\ Goto(p, "idle")
  /\ UNCHANGED <<seen, ctr, toDelete, waiters, inFlightMemory, idleVars, prewarmVars, deleteVars,
                 reapVars, ctrVars, envVars>>

--------------------------------------------------------------------------------
(* The goroutine that removes the containers evicted by Get.                  *)

DeleterReceive ==
  /\ deleting = NoCtr /\ deleteForSpace # <<>>
  /\ deleting' = Head(deleteForSpace)
  /\ deleteForSpace' = Tail(deleteForSpace)
  /\ UNCHANGED <<callerVars, semVars, inFlightMemory, idleVars, prewarmVars, reapVars, ctrVars,
                 envVars>>

DeleterRemove ==
  /\ deleting \in IPs
  /\ UnpauseAndRemove(deleting)
  /\ deleting' = NoCtr
  /\ UNCHANGED <<callerVars, semVars, inFlightMemory, idleVars, prewarmVars, deleteForSpace,
                 reapVars, phase, panicked>>

\* The range over a closed channel ends once the channel is drained.
DeleterStop ==
  /\ phase = "closing" /\ deleting = NoCtr /\ deleteForSpace = <<>>
  /\ deleting' = "stopped"
  /\ UNCHANGED <<callerVars, semVars, inFlightMemory, idleVars, prewarmVars, deleteForSpace,
                 reapVars, ctrVars, envVars>>

--------------------------------------------------------------------------------
(* The reaper: reap(olderThan) on every tick.                                 *)

\* The containers whose stamps lie before some instant.
AgedSets == {T \in SUBSET IdleSet :
               \A c \in T, d \in IdleSet : <<d, c>> \in older => d \in T}

ReapLock ==
  /\ reaper = "ticking" /\ idlesMux = Unlocked
  /\ idlesMux' = Reaper
  /\ tooOld' \in AgedSets
  /\ reaper' = "locked"
  /\ UNCHANGED <<callerVars, semVars, inFlightMemory, idlesMemory, idles, older, prewarmVars,
                 deleteVars, toReap, ctrVars, envVars>>

\* Lists that still begin with a container that is too old.
Reapable == {k \in Keys : idles[k] # <<>> /\ Head(idles[k]) \in tooOld}

ReapCollect ==
  /\ reaper = "locked"
  /\ \E k \in Reapable :
       /\ DropHead(k)
       /\ toReap' = toReap \cup {Head(idles[k])}
  /\ UNCHANGED <<callerVars, semVars, inFlightMemory, idlesMux, prewarmVars, deleteVars, reaper,
                 tooOld, ctrVars, envVars>>

ReapUnlock ==
  /\ reaper = "locked" /\ Reapable = {}
  /\ idlesMux' = Unlocked
  /\ tooOld' = {}
  /\ reaper' = "deleting"
  /\ UNCHANGED <<callerVars, semVars, inFlightMemory, idlesMemory, idles, older, prewarmVars,
                 deleteVars, toReap, ctrVars, envVars>>

ReapRemove ==
  /\ reaper = "deleting"
  /\ \E c \in toReap :
       /\ UnpauseAndRemove(c)
       /\ toReap' = toReap \ {c}
  /\ UNCHANGED <<callerVars, semVars, inFlightMemory, idleVars, prewarmVars, deleteVars, reaper,
                 tooOld, phase, panicked>>

ReapDone ==
  /\ reaper = "deleting" /\ toReap = {}
  /\ reaper' = "ticking"
  /\ UNCHANGED <<callerVars, semVars, inFlightMemory, idleVars, prewarmVars, deleteVars, tooOld,
                 toReap, ctrVars, envVars>>

\* closeReaper is closed; a tick that is due at the same time may still win.
ReaperStop ==
  /\ phase = "closing" /\ reaper = "ticking"
  /\ reaper' = "stopped"
  /\ UNCHANGED <<callerVars, semVars, inFlightMemory, idleVars, prewarmVars, deleteVars, tooOld,
                 toReap, ctrVars, envVars>>

--------------------------------------------------------------------------------
(* The prewarm reconciler.                                                    *)

\* reconcilePrewarm, under prewarmMux: how many containers each key misses.
ReconcilePlan ==
  /\ reconciler = "waiting" /\ prewarmPoke
  /\ prewarmPoke' = FALSE
  /\ necessary' = [pk \in PrewarmKeys |-> Stemcells[pk] - Len(prewarmed[pk])]
  /\ reconciler' = "planned"
  /\ UNCHANGED <<callerVars, semVars, inFlightMemory, idleVars, prewarmed, creating, deleteVars,
                 reapVars, ctrVars, envVars>>

\* The reconciliation failed: poke again, unless a poke is buffered already.
\* Sending on a closed channel panics.
Retry ==
  /\ reconciler' = "waiting"
  /\ necessary' = [pk \in PrewarmKeys |-> 0]
  /\ IF phase = "running"
       THEN Poked /\ UNCHANGED panicked
       ELSE panicked' = TRUE /\ UNCHANGED prewarmPoke

PrewarmCreate ==
  /\ reconciler = "planned"
  /\ \E pk \in PrewarmKeys :
       /\ necessary[pk] > 0
       /\ \/ \E c \in usableIPs :
               /\ usableIPs' = usableIPs \ {c}
               /\ creating' = [pk |-> pk, c |-> c]
               /\ reconciler' = "creating"
               /\ UNCHANGED <<prewarmPoke, necessary, panicked>>
          \/ usableIPs = {} /\ Retry /\ UNCHANGED <<usableIPs, creating>>
  /\ UNCHANGED <<callerVars, semVars, inFlightMemory, idleVars, prewarmed, deleteVars, reapVars,
                 leaked, memory, initializedFor, loaded, pausing, firewalled, faults, phase>>

\* The container is up and offered right away, or it is cleaned up.
PrewarmCreated ==
  /\ reconciler = "creating"
  /\ LET pk == creating.pk
         c == creating.c IN
       \/ /\ Provisioned(c, Memory[pk])
          /\ prewarmed' = [prewarmed EXCEPT ![pk] = Append(@, c)]
          /\ necessary' = [necessary EXCEPT ![pk] = @ - 1]
          /\ reconciler' = "planned"
          /\ UNCHANGED <<prewarmPoke, usableIPs, leaked, initializedFor, loaded, firewalled,
                         faults, panicked>>
       \/ CleanupContainer(c) /\ Retry /\ UNCHANGED prewarmed
  /\ creating' = NoCtr
  /\ UNCHANGED <<callerVars, semVars, inFlightMemory, idleVars, deleteVars, reapVars, pausing,
                 phase>>

\* Mutation: the reconciler returns after its first reconciliation.
ReconcileOnce ==
  /\ reconciler = "planned" /\ \A pk \in PrewarmKeys : necessary[pk] <= 0
  /\ reconciler' = "stopped"
  /\ necessary' = [pk \in PrewarmKeys |-> 0]
  /\ UNCHANGED <<callerVars, semVars, inFlightMemory, idleVars, prewarmed, prewarmPoke, creating,
                 deleteVars, reapVars, ctrVars, envVars>>
ReconcileDone ==
  /\ reconciler = "planned" /\ \A pk \in PrewarmKeys : necessary[pk] <= 0
  /\ reconciler' = "waiting"
  /\ necessary' = [pk \in PrewarmKeys |-> 0]
  /\ UNCHANGED <<callerVars, semVars, inFlightMemory, idleVars, prewarmed, prewarmPoke, creating,
                 deleteVars, reapVars, ctrVars, envVars>>

ReconcilerStop ==
  /\ phase = "closing" /\ reconciler = "waiting" /\ ~prewarmPoke
  /\ reconciler' = "stopped"
  /\ UNCHANGED <<callerVars, semVars, inFlightMemory, idleVars, prewarmed, prewarmPoke, necessary,
                 creating, deleteVars, reapVars, ctrVars, envVars>>

--------------------------------------------------------------------------------
(* Shutdown, called once the workers and the HTTP server have stopped.        *)

Shutdown ==
  /\ ShuttingDown /\ phase = "running" /\ \A p \in Callers : pc[p] = "idle"
  /\ phase' = "closing"
  /\ UNCHANGED <<callerVars, semVars, inFlightMemory, idleVars, prewarmVars, deleteVars, reapVars,
                 ctrVars, faults, panicked>>

\* Mutation: the remover of evicted containers is not waited for.
ShutdownNoWait ==
  /\ phase = "closing"
  /\ reconciler = "stopped" /\ reaper = "stopped"
  /\ phase' = "deleting"
  /\ UNCHANGED <<callerVars, semVars, inFlightMemory, idleVars, prewarmVars, deleteVars, reapVars,
                 ctrVars, faults, panicked>>
\* grp.Wait: every background goroutine has returned.
ShutdownWait ==
  /\ phase = "closing"
  /\ reconciler = "stopped" /\ deleting = "stopped" /\ reaper = "stopped"
  /\ phase' = "deleting"
  /\ UNCHANGED <<callerVars, semVars, inFlightMemory, idleVars, prewarmVars, deleteVars, reapVars,
                 ctrVars, faults, panicked>>

\* idles and prewarmed lose what the two loops have passed; the bookkeeping is left.
ShutdownIdle ==
  /\ phase = "deleting"
  /\ \E k \in Keys :
       /\ idles[k] # <<>>
       /\ UnpauseAndRemove(Head(idles[k]))
       /\ idles' = [idles EXCEPT ![k] = Tail(@)]
       /\ older' = Unstamped(Head(idles[k]))
  /\ UNCHANGED <<callerVars, semVars, inFlightMemory, idlesMux, idlesMemory, prewarmVars,
                 deleteVars, reapVars, phase, panicked>>

ShutdownPrewarmed ==
  /\ phase = "deleting" /\ IdleSet = {}
  /\ \E pk \in PrewarmKeys :
       /\ prewarmed[pk] # <<>>
       /\ Remove(Head(prewarmed[pk]))
       /\ prewarmed' = [prewarmed EXCEPT ![pk] = Tail(@)]
  /\ UNCHANGED <<callerVars, semVars, inFlightMemory, idleVars, prewarmPoke, reconciler, necessary,
                 creating, deleteVars, reapVars, pausing, phase, panicked>>

ShutdownDone ==
  /\ phase = "deleting" /\ IdleSet = {} /\ \A pk \in PrewarmKeys : prewarmed[pk] = <<>>
  /\ phase' = "down"
  /\ UNCHANGED <<callerVars, semVars, inFlightMemory, idleVars, prewarmVars, deleteVars, reapVars,
                 ctrVars, faults, panicked>>

--------------------------------------------------------------------------------
\* What an invocation does once Get was called: nothing of it waits for the caller.
Invocation(p) ==
  \/ Count(p) \/ LookupWarm(p) \/ LookupCold(p) \/ EvictOne(p) \/ Send(p)
  \/ TakePrewarm(p) \/ Poke(p) \/ Create(p) \/ Created(p) \/ Unpause(p) \/ Firewall(p)
  \/ Initialize(p) \/ PutToDestroy(p) \/ Put(p) \/ PutIdle(p) \/ Uncount(p) \/ Release(p)

Deleter    == DeleterReceive \/ DeleterRemove \/ DeleterStop
Reap       == ReapCollect \/ ReapUnlock \/ ReapRemove \/ ReapDone
Reconciler == ReconcilePlan \/ PrewarmCreate \/ PrewarmCreated \/ ReconcileDone \/ ReconcilerStop
ShutDown   == ShutdownWait \/ ShutdownIdle \/ ShutdownPrewarmed \/ ShutdownDone

Next ==
  /\ ~panicked
  /\ \/ \E p \in Callers, k \in Keys : Get(p, k)
     \/ \E p \in Callers : Invocation(p)
     \/ Grant
     \/ Deleter
     \/ ReapLock \/ Reap \/ ReaperStop
     \/ Reconciler
     \/ Shutdown \/ ShutDown

Spec == Init /\ [][Next]_vars

\* Mutexes, the semaphore and channels serve goroutines in order (strong fairness
\* for an invocation), runs end at their deadline, goroutines keep running, and a
\* select with two ready cases does not choose the same one for ever.
Fairness ==
  /\ \A p \in Callers : SF_vars(~panicked /\ Invocation(p))
  /\ WF_vars(~panicked /\ Grant)
  /\ WF_vars(~panicked /\ Deleter)
  /\ WF_vars(~panicked /\ Reap) /\ SF_vars(~panicked /\ ReaperStop)
  /\ WF_vars(~panicked /\ Reconciler)
  /\ WF_vars(~panicked /\ ShutDown)

FairSpec == Spec /\ Fairness

--------------------------------------------------------------------------------
(* Properties.                                                                *)

\* Memory as a number of units, so that a sum over a set is a cardinality.
Units(S, size) == {u \in S \X (1..MaxMemory) : u[2] <= size[u[1]]}

\* Every place the code can reach a container from, with the container there.
Slots ==
       {<<"usable", c, c>> : c \in usableIPs} \cup {<<"leaked", c, c>> : c \in leaked}
  \cup (UNION {{<<"idle", <<k, i>>, idles[k][i]>> : i \in DOMAIN idles[k]} : k \in Keys})
  \cup (UNION {{<<"prewarmed", <<pk, i>>, prewarmed[pk][i]>> : i \in DOMAIN prewarmed[pk]} : pk \in PrewarmKeys})
  \cup (UNION {{<<"toDelete", <<p, i>>, toDelete[p][i]>> : i \in DOMAIN toDelete[p]} : p \in Callers})
  \cup {<<"deleteForSpace", i, deleteForSpace[i]>> : i \in DOMAIN deleteForSpace}
  \cup {<<"ctr", p, ctr[p]>> : p \in HasCtr}
  \cup {<<"toReap", c, c>> : c \in toReap}
  \cup {<<"deleting", c, c>> : c \in {deleting} \cap IPs}
  \cup {<<"creating", r.pk, r.c>> : r \in {creating} \ {NoCtr}}

(* Every IP is usable, given up, or in exactly one place: no container is       *)
(* handed out twice or is both idle and being deleted, and no error path of Get, *)
(* Put, PutToDestroy, reap, reconcilePrewarm or Shutdown loses one.              *)
SoleOwner ==
  /\ \A c \in IPs : \E s \in Slots : s[3] = c
  /\ \A s, t \in Slots : s[3] = t[3] => s = t

(* The semaphore and inFlightMemory count exactly what the invocations between  *)
(* their acquire and their release hold, whichever way each of them ended (Get  *)
(* failed, Put, PutToDestroy), the semaphore is never overdrawn, and            *)
(* idlesMemory, on which the decision to evict rests, is the memory of the idle *)
(* lists until Shutdown walks them.                                             *)
AccountsExact ==
  /\ TypeOK
  /\ inFlight = Cardinality(Units(Holding, mem)) /\ inFlight <= MaxMemory
  /\ inFlightMemory = Cardinality(Units(Counted, mem))
  /\ phase \in {"running", "closing"} => idlesMemory = Cardinality(Units(IdleSet, memory))

(* "We're guaranteed to find enough space in the pool" (getContainer): the loop *)
(* that makes space never runs out of idle containers, so that the return that  *)
(* would keep idlesMux locked is never taken.                                   *)
SpaceCanBeMade == \A p \in Callers : pc[p] = "evict" => IdleSet # {}

(* Idle containers and those in the hands of invocations together stay below    *)
(* twice the configured memory.  maxMemory itself is not a bound: see           *)
(* MemoryNotExceeded.                                                           *)
MemoryBound == idlesMemory + Cardinality(Units(Placed, mem)) < 2 * MaxMemory

(* What the comment of ContainerPool promises: "makes sure that the maximum     *)
(* amount of memory defined for the invoker is not exceeded".                   *)
MemoryNotExceeded == idlesMemory + Cardinality(Units(Placed, mem)) <= MaxMemory

\* The invocations that Get has given a container, and that have not returned it.
Lessees == {p \in Callers : pc[p] \in {"init", "run"}}
LeaseFunction == [p \in Callers |-> IF p \in Lessees THEN key[p] ELSE NoKey]
LeaseLent     == [p \in Callers |-> IF p \in Lessees THEN ctr[p] ELSE NoCtr]
LeaseRunning  == {p \in Callers : pc[p] = "run"}
Lease == INSTANCE ContainerLease WITH
  Containers <- IPs, code <- loaded, running <- LeaseRunning, function <- LeaseFunction, lent <- LeaseLent

(* The pool keeps the promise of ContainerLease, whatever it evicts, reaps,      *)
(* prewarms and fails to create: a function runs only in a container that nobody *)
(* else has, that was loaded once and with its own code, within the memory.      *)
ImplementsLease == Lease!Spec

(* Exactly the containers that are idle, on their way there or on their way     *)
(* from there to an UnpauseIfNeeded have a scheduled pause: the handshake with   *)
(* PauseEventually never blocks for want of a partner, and none is left behind. *)
PauseMatched ==
  pausing = IdleSet \cup toReap \cup Range(deleteForSpace) \cup ({deleting} \cap IPs)
       \cup (UNION {Range(toDelete[p]) : p \in Callers})
       \cup {ctr[p] : p \in {q \in Callers : pc[q] \in {"unpause", "append"}}}

(* "This'll cause the container to leak and thus block the respective IP": an   *)
(* IP that still has per-container rules is never handed to a new container.    *)
RulesBlockIP ==
  /\ usableIPs \cap firewalled = {}
  /\ \A p \in Callers : pc[p] \in {"creating", "fwCold", "fwPrewarm"} => ctr[p] \notin firewalled

(* A prewarm container that is missing and not planned for has a poke on its    *)
(* way ("we don't need to catch every instance of using a container"), and the  *)
(* plan never exceeds the configured count.                                     *)
NoLostPoke ==
  phase = "running" =>
    \A pk \in PrewarmKeys :
      LET stock == Len(prewarmed[pk]) + necessary[pk] IN
      /\ stock <= Stemcells[pk]
      /\ stock < Stemcells[pk] =>
           \/ prewarmPoke
           \/ \E p \in Callers : pc[p] = "poke" /\ PrewarmKey[key[p]] = pk

(* "Close the background jobs first to avoid races": no goroutine of the pool   *)
(* sends on a channel that Shutdown has closed.                                 *)
NoSendOnClosed == ~panicked

(* Every Get that fits the invoker returns, with a container or with an error.  *)
GetReturns ==
  \A p \in Callers : pc[p] \in {"wait", "lookup"} ~> pc[p] \in {"init", "run", "idle"}

(* Once no invocation is under way the prewarm containers are complete again,   *)
(* unless the IPs have run out or the pool shuts down.                          *)
PrewarmSettles ==
  <>[](phase = "running" /\ \A p \in Callers : pc[p] = "idle") =>
    <>[](usableIPs = {} \/ \A pk \in PrewarmKeys : Len(prewarmed[pk]) = Stemcells[pk])

\* Nothing is paused, and every IP is free, without rules, unless removing its container failed.
NothingLeft == usableIPs \cup leaked = IPs /\ pausing = {} /\ firewalled \subseteq leaked

(* Shutdown ends, waiting for no goroutine that waits for it, and "removes all   *)
(* existing containers".                                                         *)
ShutdownEnds ==
  /\ phase = "closing" ~> phase = "down" \/ panicked
  /\ [](phase = "down" => NothingLeft)

================================================================================
