# A TLA+ model of functions-invoker

functions-invoker is the invoker of an OpenWhisk-like platform: one process per node
that takes activation messages from Kafka and HTTP, finds or creates a docker container
for the function, runs it, collects its logs, answers the controller and stores the
activation. This directory holds TLA+ modules for the parts of it that carry state, TLC
configurations that check them on small instances, and TLAPS proofs. Paths below are
relative to `src/`.

## 1. The system

| Component | State it keeps | Operations | Talks to |
|---|---|---|---|
| Container pool, `pkg/exec/pool.go` | semaphore `inFlight`, atomic `inFlightMemory`; `idles` and `idlesMemory` under `idlesMux`; `prewarmed` under its own lock; channels `containersToDeleteForSpace`, `prewarmPoke` | `Get`, `Put`, `PutToDestroy`, `reap`, `reconcilePrewarm`, `Shutdown` | container factory, firewall |
| Docker container, `pkg/exec/docker/container.go` | free IPs; per container the channels of the pause handshake, the log channel | `CreateContainer`, `Initialize`, `Run`, `PauseEventually`, `UnpauseIfNeeded`, `Remove` | docker daemon, the runtime in the container |
| Container logs, same file and `pkg/runner/runner.go` | attach connection, two stream goroutines, `Logs` channel | `consumeStream`, `collectLogs`, draining in `Remove` | runtime, runner |
| Runner, `pkg/runner/runner.go` | none beyond one invocation | `Invoke` with three deferred functions | function cache, pool, container, batcher |
| Kafka runner, `pkg/kafka/runner.go`, and HTTP runner, `pkg/http/runner.go` | `BlockedNamespaces` | `Invoke`, `ServeHTTP` | runner, controller |
| main, `cmd/invoker/main.go` | `lastOffset`, contexts | worker loop, refresh of blocked namespaces, shutdown | everything |
| Activation batcher, `pkg/couchdb/batcher.go` | a channel, per worker a batch under a mutex | `WriteActivation`, worker loop, periodic flush, `Shutdown` | CouchDB client |
| CouchDB client, `pkg/couchdb/client.go` | an HTTP client with an age | `GetFunction`, `WriteDocuments`, `GetBlockedNamespaces`, retries | CouchDB |
| Function cache, `pkg/entities/function_cache.go` | LRU cache of entries that are fetched once | `GetFunction` | CouchDB client |
| Firewall reconciler, `pkg/firewall`, and its loop in main | the informers' caches, a one-slot poke channel, the iptables rules of the node | filtered events, `Reconcile` on a poke, on a tick and before the start | iptables in another container, Kubernetes |
| Protocol, encryption, payloads, `pkg/protocol`, `pkg/encryption`, `pkg/exec/payload.go` | none | `ParseActivationMessage`, `Decrypt`, the payloads of `Initialize` and `Run` | the controller's messages, the runtime |
| Runtimes and units, `pkg/exec/runtimes.go`, `pkg/units` | the manifests, read once | `Decode`, `ParseByteSize`, `GigabyteSeconds` | configuration, pool |
| Entities, `pkg/entities` | none | code and limits of a function, annotations, `Activation.MarshalJSON` | database, everything |
| Clock, logging, metrics, tls | none | helpers | |

What is hard in it, and what makes each part correct:

* **The pool** runs many `Get`/`Put` pairs at once beside four background goroutines.
  Memory is accounted in three places (semaphore, atomic, idle sum) that are updated at
  different times; a container changes hands between lists, channels and goroutines;
  almost every docker call may fail half way. Correct means: a container has one owner,
  the three sums are exact, a function only meets its own code, every scheduled pause is
  undone once, an IP is not reused too early, no waiting is for ever.
* **The container** has a goroutine that wants to pause it after a grace period, and an
  owner that may want it back at the same moment. Correct means: in use it is never
  paused, and the two unbuffered channels are always used in pairs.
* **Logs** arrive asynchronously and end with sentinels that a runtime may fail to write.
  Correct means: complete, of this invocation only, and nobody is stuck on a channel.
* **An invocation** has a dozen early returns and three deferred functions whose order
  matters; before it, the workers share one Kafka reader that fetches and then commits.
  Correct means: an honest answer for every message, no function run twice although messages
  may be lost (it does not hold for every crash, section 4), a record equal to the answer, and only
  containers that are sound go back to the pool.
* **The batcher** shares batches between workers and a flusher. Correct means: nothing
  accepted is lost or batched twice, and everything is flushed, also on shutdown.
* **The cache** has no atomic get-or-add and removes failures without its lock, on top of
  a **client** that retries until a deadline and replaces its connections by age. Correct
  means: no entry of the cache is replaced, no cached failure, one HTTP client per lifetime,
  nobody left waiting.
* **The firewall** reads four objects one after the other while they change, drops events
  and pokes, and shares its chains with docker. Correct means: when all is quiet the rules
  enforce the current policy, they get there whatever failed (unless an exec hangs), and
  reconciling again changes nothing.
* **The conversions** have many cases that are rarely met together: a parameter both locked
  and for the start, code stored in five ways, a parameter named like
  a variable of the invoker, a default alias beside the version it names, a kind that two
  families have, an error of the request beside a container that has died. Correct means:
  parameters and code arrive as the runtime reads them, only a key that two families have
  depends on the order of a Go map, an activation says what happened, to the right account, once.

`PROJECT.json` lists the hazards one by one, at their lines.

## 2. Modules

| Module | Models | Actions are |
|---|---|---|
| `ContainerLease` | what the pool promises an invocation | lend, load, return, destroy, discard |
| `ContainerPool` | the pool, with containers as IPs | the stretches of `Get`/`Put`/`PutToDestroy` between two points where another goroutine can interfere (a lock, a channel, an atomic, a docker call), and the steps of reaper, remover, reconciler and `Shutdown`; it implements `ContainerLease` |
| `DockerContainer` | containers one by one | the steps of `CreateContainer`, the select cases of `PauseEventually`'s goroutine, the calls of its owner, docker's answers |
| `ContainerLogs` | the log path of one container | lines written, forwarded and collected, sentinels, timeout, draining |
| `Invocations` | worker loop, both runners, blocked namespaces, shutdown, crash | the numbered steps of `Runner.Invoke` and what surrounds it |
| `ActivationWriter` | what an activation writer promises | accept, settle, close |
| `ActivationBatcher` | the batcher | the worker loop, the flusher, `Shutdown`; it implements `ActivationWriter` |
| `FunctionCache` | the cache and the client's `GetFunction` | look up, lock and look again, add, call, fetch, remove |
| `CouchClient` | `request` and `getClient` of the database client | the head of the retry loop, the two checks of the HTTP client's age, an attempt |
| `FunctionReader` | the cache on top of the client, as main wires them | a fetch of `FunctionCache` is one or two requests of `CouchClient` |
| `Firewall` | informers, event filter, main's reconciler loop, `Reconcile`, docker exec | an event, its handling, a tick, a poke, each read, the write, an exec that hangs, a restart |
| `Payload` | from message and function to what the container is sent | parse, fetch the code, initialize, run |
| `Runtimes` | sizes, `Decode` and the stemcells the pool reads from it | unmarshal, one family |
| `ActivationRecord` | one invocation with every error, time and annotation, and the document it becomes | the steps of `Invoke`, `MarshalJSON` |
| `Conversions` | the last three side by side | one of them per behaviour |
| `MC...` | instances for TLC | |
| `ContainerPoolProofs` | theorems about the pool: types and ownership; memory, lease, pokes and shutdown | |
| `DockerContainerProofs`, `ContainerLogsProofs`, `InvocationsProofs`, `ActivationBatcherProofs`, `FunctionReaderProofs`, `FirewallProofs`, `ConversionsProofs` | theorems about one module each | |

State keeps the names of the source (`idles`, `idlesMemory`, `inFlight`, `toDelete`,
`prewarmPoke`, `usableIPs`, `lastOffset`, `batchSize`). Each invocation or goroutine has
a program counter (`pc`, `at`, `step`, `owner`) whose values are named for what comes
next. Definitions under a comment `Mutation:` are deliberately wrong variants of the
definition below them, not part of any specification: replacing the definition by such a
variant makes TLC report a violation, which shows that the property can fail.

Data is abstracted to what the code decides on:

* Time is order. `lastUsed` stamps are the relation `older`; "past `olderThan`" is any
  set of containers closed under it; deadlines are answers that may come.
* A container is its IP. Its size follows from kind and memory limit (`PrewarmKey`), a
  function with namespace and revision is a key. Memory is in units.
* A docker call succeeds or fails; in `ContainerPool` at most `MaxFaults` calls fail.
  `Remove` whose `Conn.Close` fails has freed the IP already and counts as removed there;
  `ContainerLogs` has that case on its own. A kind without image is a create that fails.
* Firewall: the interface says that a failed set-up leaves no rules. The implementation
  in the repository always answers that no rules are needed; the model also lets it
  answer otherwise, since the pool is written for that.
* An activation is its status, how its run ended (a response or a failure), and its logs. A
  message parses or does not.
* Kafka: with a consumer group and no `CommitInterval`, `ReadMessage` of kafka-go fetches the
  next message and then commits its offset before it returns. The library is not part of the
  repository; the two steps are modelled from how main uses it and marked external. The
  workers share one reader, so their commits may reach Kafka in another order than their
  fetches, and Kafka takes each one as the new offset of the group. A commit may fail, whether
  or not it has reached Kafka, or be cancelled; the message is then dropped with a log line.
  After a crash the reader starts behind the offset of the group or, if there is none, at the
  end of the topic.
* Blocked namespaces are one set in the database and one in the process. The refresh reads and
  stores in one step: it is the only goroutine that stores, so what lies between is as if the
  database had changed right after the read.
* A bulk write is retried; each attempt may have reached the database. In `CouchClient` the
  deadline of a request is a choice of the head of the loop and of the attempt in flight,
  the only two places that look at it; how long a back-off lasts is left out.
* Firewall: an object is the set of addresses it holds, a packet its destination and whether
  its connection is established. `reconcile` is a function of table and objects; the policy
  it is checked against is stated without the order of rules. Rules of other parties are
  of two sorts, of which only the place counts: one is unlike ours, the other begins like our
  jump (`Namesake`) and is dropped with it, since the scanner compares prefixes.
* Sums are numbers of units: the memory of a set of containers, or the bytes of a batch, is
  the cardinality of the set of its units, which TLC counts and the prover can reason about.
* Conversions: a value is the JSON type of its plain text, which may be no JSON, and how it is
  sealed; the environment of a container is one map from names to forms, with one name for
  each variable of the invoker a run tells apart; a kind or key of the manifests is the text
  before the colon and the tag behind it, of any family; AES-GCM
  accepts exactly what its key has sealed; code is plain text, a binary or its base64. A size
  is a number modulo `Width` with units `Factor` apart. An answer of the runtime is whether a
  length is declared and within the limit, the status, where the transfer breaks off and why,
  and what the body is. The annotation "path" stands for all that are always set.

## 3. Runs

| Run | Instance | Shows |
|---|---|---|
| `pool_core` | 2 invocations, functions of 1, 2 and 3 units, limit 2, 3 IPs, 1 stemcell, rules for one namespace, reaper, 1 failure | exact sums (`AccountsExact`), the eviction loop always finds a victim (`SpaceCanBeMade`), one owner (`SoleOwner`), pauses in pairs (`PauseMatched`), memory below twice the limit (`MemoryBound`), rules block their IP (`RulesBlockIP`), and the refinement `ImplementsLease`: whoever runs has a container of its own with its own code; no deadlock |
| `pool_live` | 2 invocations, 2 functions, 1 stemcell, limit 1, 2 IPs, reaper, `Shutdown`, 1 failure | a missing prewarm container has a poke on its way (`NoLostPoke`); `GetReturns`, `PrewarmSettles`; `Shutdown` ends and leaves nothing (`ShutdownEnds`) |
| `pool_over_max` | 2 invocations, limit 2 | *violation* of `MemoryNotExceeded` |
| `pool_panic` | 1 invocation, 1 stemcell, 1 failure, `Shutdown` | *violation* of `NoSendOnClosed` |
| `containers` | 2 containers, 1 retry, every docker failure; 2 invocations on a third, 1 line per stream, log limit 1 | `NotPausedInUse`, `HandshakePaired`, `IPNotReused`, `UnpauseReturns`; logs complete and of this invocation (`LogsExact`), `NoSendOnClosed`, neither the invocation nor `Remove` is stuck (`NeverStuck`) |
| `batcher` | 3 activations of which one exceeds a batch, 2 workers, 1 retry | `Accounted`, the refinement `ImplementsWriter`, and `EventuallyFlushed`, also by the shutdown, which returns |
| `invocations` | 2 workers, 2 messages, one of them blocking and one stored, 1 crash | `NoMessageForgotten`, what may be run again (`RerunOnlyIfRewound`), `AnswerHonest`, `RecordFinal`, `KeptContainersSound`, `OffsetCurrent` |
| `invoke_live` | 1 worker, 1 handler, 1 blocking message and 3 requests, of which one is malformed and one needs more memory than there is, `Cancel` | `EventuallyAnswered` and `ShutdownEnds` but for the `Get` that waits for ever; a shutdown that ends leaves nothing in flight (`NothingInFlight`) |
| `invoke_unblocked` | 2 workers, 2 messages | *violation* of `StaysBlocked` |
| `cache` | 2 callers, 2 revisions, one with attachment, room for 1 entry, 1 HTTP client that gets too old | `SingleFlight`, `NoFailureCached`, `RenewedOnlyWhenOld`, `GetReturns` |
| `firewall` | 2 nodes, 2 addresses of CoreDNS and of its pods, objects that go missing, 2 changes, 1 failed exec or restart, 1 foreign rule of either sort in front, an exec that hangs | `EnforcedWhenQuiet`, `Idempotent`, `EventuallyEnforced` |
| `conversions` | 2 parameters, one named like the API key's variable, a known and an unknown key; 2 families with up to 2 versions, whose kinds may collide; 24 requests, steps of up to 2 ticks | `PayloadExact`, `ManifestsAsConfigured`, `ActivationRendered` |

The type invariant of each module with a state machine of its own is checked with the first
invariant of its run (`AccountsExact`, `EnforcedWhenQuiet`, `LogsExact`, `Accounted` and so
on; `DockerContainer`'s is only proved), and is part of the inductive invariant of its proofs.
`MCContainers` puts the two modules about a container side by side: they share no state, so one
moves while the other rests (nothing invoked yet, no container), with none of its fair actions enabled.
The liveness of `Invocations` needs no blocked namespace (`Namespaces` is empty there): a blocked
message is skipped in the same way as a blocking one that is too old. Every invariant of a passing run is also a theorem, and so
are the two refinements, `RenewedOnlyWhenOld` and the safety half of the pool's
`ShutdownEnds`.

Why these bounds are enough for what they are about. Two invocations of functions of
different size at a limit of two units make every branch of `getContainer` happen:
warm hit, eviction of one and of two containers, blocked send to a full buffer
(`DeleteBuffer` is 1 instead of 16, so that it fills), prewarm container, creation, no IP
left, each error path, and the race of `pool_over_max`; the function of three units is one
the invoker cannot run, which waits beside them. One failure is enough to take each
error path at each point; what two failures in a row do is the sum of two paths, since
no variable remembers a failure except `leaked`. For the handshake two containers show
that they are independent. Two workers, both with a message that goes through the whole of `Invoke`, race for
the commit and for `lastOffset` in both orders, and one crash is enough to deliver a message
again; handlers, more messages and more crashes are covered by the proofs of section 5, which
hold for any number. Room for one entry makes the
cache evict entries that are being fetched. Two changes let an object change while another
one is read, and again behind the read. The rules and the conversions are checked on every
table, message, configuration and course of their domains: two parameters may share or
differ in every attribute, one parameter is named like the variable of the API key, two versions of one family may be
of one kind or both the default, two families may have one kind, a kind may be the alias of
its own family or of the other, sizes of the code's form (`Factor` 4 for 1024, `Width` 256 for 2^64) have all four
units and wrap; two ticks and a quantum of two make begun and full quanta.
Symmetry is used in the runs that check safety only, over invocations, IPs and Kafka
workers, which the specification treats alike.

`CHECK_DEADLOCK FALSE` is set where the modelled system ends (a shutdown, a removed
container, a consumed topic, a conversion) and in `firewall`, where an exec may hang.
`pool_core` and `cache` run for ever and check deadlock.

### Fairness

* Pool: strong fairness for each invocation, because `sync.Mutex` and
  `semaphore.Weighted` hand over to waiters in order and a run ends at its deadline; weak
  fairness for the background goroutines, whose docker calls are bounded by timeouts;
  strong for the reaper's stop, because a `select` with two ready cases chooses either.
  Nothing is assumed of callers calling `Get`.
* Docker container: weak fairness for the goroutine and the owner inside
  `UnpauseIfNeeded`; each docker call is bounded by `lifecycleHangTimeout`.
* Logs: weak fairness for goroutines and timers, strong for receiving from one of two
  ready streams. The runtime in the container owes nothing.
* Batcher: the ticker fires, a request ends by its deadline, mutexes are handed on.
* Invocations: weak fairness for a goroutine with a message, from the return of `ReadMessage`
  on. Requests to the database, to the container and to docker have deadlines or end with
  their retries; the write to Kafka ends after its attempts; the controller is assumed to send
  its request and to read the response. `Pool.Get` has no deadline (`main.go:357` passes
  `context.Background()`): that it returns for a function that fits is `GetReturns` of the
  pool, and for one that does not nothing is assumed; both properties say so. Nothing is
  assumed of Kafka delivering, or of a commit before the context is cancelled; once it is, a
  commit ends, and a worker that waits for a message stops (strong, since the `select` may
  find a message first).
* Cache and client: goroutines run and an attempt ends with its context (weak), a request
  that goes on retrying meets its deadline and the mutex is handed to a waiter that starves
  (strong). That a fetch ends is not assumed but follows.
* Firewall: weak fairness for the reconciler, its ticker and the listeners, as long as no exec
  hangs. Nothing bounds an exec: main passes `context.Background()`, the docker client has no
  timeout and `docker_exec.go:78` reads until the end of the output. So `Hang` may happen in
  any exec, ends only with a restart of the process, which is not assumed, and is the one
  exception of `EventuallyEnforced`. Nothing is assumed of a poke arriving.

## 4. Findings

* `pool_over_max`: `Get` counts itself in `inFlightMemory` and only later, under
  `idlesMux`, compares the value it saw then. Another `Get` can be counted and served in
  between, and a finished invocation can turn from "in flight" into "idle". The run shows
  more than `maxMemory` in containers; `MemoryBound` shows that it stays below twice that.
* `pool_panic`: `Shutdown` closes `prewarmPoke` while the reconciler may be creating a
  container; if that fails, its retry sends on the closed channel and panics.
* `invoke_unblocked`: when reading the blocked namespaces fails, the nil result is stored
  all the same, and every namespace is unblocked until the next successful refresh.

Observations without a run, for a reader of the code; none breaks a property above.

* `Put` stamps `lastUsed` before it takes the lock (`pool.go:456`), so an idle list need not
  be sorted as `getContainer` and `reap` say. The model keeps stamps and list order apart, so
  that everything above holds all the same.
* A failed fetch removes the cache entry by key, which may be a newer one than its own; the
  effect is one more database read. A request that only ever times out ends with a nil
  `lastErr` in its error (`client.go:221`).
* The comment at `client.go:32` lets the back-off start at 50 ms; the code doubles it first.
* The place where a reader starts is "a safety measure to avoid double execution of functions"
  (`kafka.go:73`), and main relies on `ReadMessage` committing immediately (`main.go:304`). As
  far as kafka-go, which is not part of the repository, fetches and then commits, two workers
  may fetch messages 1 and 2 and commit them in the other order: the offset of the group is 1
  again, and after a crash message 2, which was run, is run again. `RerunOnlyIfRewound` is what
  holds: only messages put back in this way are run again, and at most once per crash.
* A malformed Kafka message is committed and not answered. A message whose commit fails was
  fetched and is never invoked; if the process crashes before a later commit it is delivered
  again.
* A function that needs more memory than the invoker has keeps its worker in `Get` for ever
  and, with it, every later shutdown (`main.go:357`, `pool.go:232`); an exec that hangs stops
  the firewall's reconciler in the same way.
* A rule of another party that begins like our jump is removed (`firewall.go:170-176`).
* An exit during initialization reports `ErrorFunctionAbnormalRun` (`runner.go:311`, and its
  test), although there is a message for initialization. A response without a declared
  length is thrown away and then reported as an invalid one.
* Init parameters reach only a fresh container; one named like a reserved `__OW_` variable,
  the API key's included, replaces it.
* Under a kind that versions of two families have, and under an alias that is also a kind of
  another family, the order of Go's map decides which version is found, and for the alias even
  whether the configuration is refused.
* `ParseByteSize` wraps silently. Of two stemcell configurations of one size the last one
  counts. A function whose kind is `family:default` never matches a prewarm container.

## 5. Proofs

Assumptions are the named `ASSUME`s of the modules: constants have their types, limits are
positive, the sets of invocations, IPs, activations, callers and entries are finite, and zero
values or marks (no container, an unlocked mutex, a stopped goroutine, what a document does not
have) are no members of the sets they stand in for. TLC evaluates them in the runs. The bounds of the runs (changes,
faults, attempts) are constants of any value in the proofs.

Every proof has the same form: a conjunction of named parts that holds initially and is kept
by every step, one lemma per action, and the property as a consequence. TLC checked the
inductive invariants on the instances of the runs, except for the assignment in `OwnerInv`, which
it cannot enumerate; there it checked the three properties that are read off it.

**`DockerContainerProofs`** proves `TypeOK`, `NotPausedInUse`, `HandshakePaired` and
`IPNotReused` for any set of IPs and any number of retries. None of them is inductive
alone: that `Respond` finds an unpaused container depends on who may have paused it, and
that an IP is free depends on docker having removed its container. The inductive
invariant is `IInv == TypeOK /\ \A c \in IPs : Sound(c)` with

* `Absent`: before and after its life docker has no container on the IP;
* `Present`: between creation and removal it has one;
* `PausedOnlyBy`: a paused container was paused by a goroutine that has not answered yet,
  or its owner is already unpausing, cleaning up or has given it up;
* `Paired`: the goroutine lives from `PauseEventually` to its answer, and owes an answer
  exactly while the owner waits for one;
* `Free`: the IP is usable exactly while the container has no owner.

A step concerns one container, so the proof has one lemma for types, one per action for
`Sound` of that container, and a frame argument for the others.

**`ContainerPoolProofs`** proves, for any number of invocations, keys, containers and
failures, `TypeOK`, `SoleOwner`, `PauseMatched` and `RulesBlockIP`.

* `TypeOK`, which includes that the buffer of evicted containers keeps its capacity, is not
  inductive: `Put` appends `ctr[p]`, which is a container only because of where `p` is, and
  the semaphore wakes the head of its queue, which must be an invocation that waits.
  `TypeInv` adds what an invocation holds at each location (`CallerOK`), that the queue holds
  waiting invocations, each once (`WaitersOK`), and the type of what the reconciler creates.
* Ownership. `OwnerInv` says that there is an assignment of each IP to a kind of place and,
  where there are several of the kind, to one of them, such that each variable that holds
  containers agrees with it (`Placement`), and that what is known of a container (code,
  memory, scheduled pause, firewall rules) is what its place requires (`Fields`). A step of the
  pool moves one container or none, so each action's lemma names the place it comes from and
  the one it goes to, and one lemma for moves does the rest. The three properties are read off
  the assignment.

Its further parts build on these.

* `AccountsExact`, `SpaceCanBeMade` and `MemoryBound` come from one invariant, `AccountInv`. It
  adds to `OwnerInv` that whoever got past `Acquire` fits the invoker (`MemFits`, `IdlesFit`),
  the three accounts (`CountersExact`, `IdlesExact`), that the value of `inFlightMemory` an
  invocation decides by includes its own memory and is at most the limit (`SeenBetween`), who
  holds `idlesMux` (`MuxHeld`), and that the eviction loop runs only while there is too little
  space (`Evicting`). If nothing were idle, `SeenBetween` would contradict `Evicting`: that is
  the guarantee `getContainer` claims in a comment. `MemoryBound` follows since every container
  that is placed beyond the limit was placed by a `Get` that saw room for it.
* `ImplementsLease`: the initial states are those of `ContainerLease`, and each step of the pool
  lends, loads, returns, destroys, discards or changes nothing a lessee sees. That a container
  lent has the lessee's code or none is a part of `Fields`.
* `NoLostPoke`: containers in stock and those planned never exceed the configured count; while
  they are fewer a poke is buffered or an invocation is about to send one (`StockKept`). It needs
  that the plan is never negative (`PlanOK`).
* `NothingLeft` once the pool is down, the part of `ShutdownEnds` that is not about ending: no invocation is under
  way once `Shutdown` has begun (`Alone`), only the loop that makes space and the sends behind it
  have containers to delete (`Drained`, which rests on `SpaceCanBeMade`), remover and reaper return
  empty-handed (`Returned`), and both pools are emptied after all three goroutines have returned
  (`Waited`, `Deleted`). The assignment of `OwnerInv` then has no place left but usable and given up.

**`InvocationsProofs`** proves every safety invariant of the passing runs of `Invocations` for
any number of workers, handlers, messages and crashes: `RerunOnlyIfRewound`,
`NoMessageForgotten` (with `TypeOK`), `NothingInFlight`, `AnswerHonest`, `RecordFinal`,
`KeptContainersSound` and `OffsetCurrent`. It assumes that no two positions of the topic hold
the same message and that no request is on the topic: this is the identity of messages. The
inductive invariant `IInv` says

* who has a message: a goroutine that is not waiting (`Held`), alone (`Exclusive`), after
  it was taken (`TakenFirst`) and before it is answered (`Unanswered`);
* what a crash may deliver again: whatever was done for a message was done after its commit, so
  it is up to the offset of the group (`Covered`) or an older commit has put it back
  (`rewound`); a message that is fetched again is therefore untouched or rewound, and in each
  life of the process a message is run once (`Once`). `AnswerHonest` and `RecordFinal` leave out
  rewound messages after a crash, whose answer may be one of two;
* what is settled when: a function that was run has a status of its own and, past the
  collection of logs, logs (`Status`); a record is the activation its goroutine is about to
  answer with (`Recorded`); containers are lent between `Get` and the deferred `Put`
  (`LentOut`); an unbroken container has given a response to its run and shown its
  sentinels (`Kept`);
* what the loop on `lastOffset` keeps (`Reporting`): each offset `ReadMessage` has returned
  is covered by `lastOffset` or by a worker in the loop, and a swap only succeeds from a smaller value;
* what remains without a crash and after the shutdown (`Remembered`, `Quiet`).

Goroutines go on in seven ways (take a message, commit it, drop it, go on with it, run, record,
finish); there is a lemma for each, and the actions are instances of them.

**`ContainerLogsProofs`** proves `LogsExact` and `NoSendOnClosed` for any number of invocations
and lines and any log limit. What is on its way is ordered: behind a sentinel there is only
background output (`Ordered`), so that a container both of whose sentinels were seen has nothing
else left for the next invocation (`Reusable`). Goroutines end with nothing in their hands and
the channel is closed after them (`Ended`).

**`ActivationBatcherProofs`** proves `Accounted` and `ImplementsWriter` for any number of workers
and activations and any sizes. An activation is in one place (`Distinct`, `NotAgain`, `Traced`);
where worker and flusher are says what they hold (`Located`); a worker that appends has compared
sizes before (`Fits`), which the flusher can only make better; nothing comes after a worker's last
batch (`Closing`), which is what the step "close" of the abstract writer needs.

**`FunctionReaderProofs`** proves `SingleFlight`, `NoFailureCached` and `RenewedOnlyWhenOld` of the
cache on top of the client, for any number of callers and functions and any size. Removal by key
removes the entry that has failed because a key is cached once (`Unique`), which rests on the
second look under the lock. Entries are objects of Go's heap: the assumption that there are at
least as many as callers and cached ones together is what makes a fresh one available.

**`FirewallProofs`** proves `EnforcedWhenQuiet` and `Idempotent` for any addresses and objects and
any number of events, failures, restarts and foreign rules.

* `Idempotent`: what the scanner keeps of a chain is a recursive function over its lines. It is
  unfolded by an induction in the form of a set of numbers (`SetInduction`), which follows from
  the least element of a non-empty set. Lines in front that are ours are dropped again
  (`FrontDropped`), lines that are not stay in their order (`NothingDropped`).
* `EnforcedWhenQuiet`: whatever table was read, the one written has the jump ahead of any foreign
  rule and the first matching rule decides as the policy does (`DesiredEnforces`). The invariant
  is that what was read is still so, or another reconciliation is certain to follow (`Current`),
  and between reconciliations the same of the table (`Settled`). "Certain to follow" is a poke in
  the channel or an unhandled event that will get through the filter (`Coming`); a step that
  changes an object makes it true, and only the start of a reconciliation, which has read
  nothing yet, may make it false. An exec that hangs keeps it as it is.

**`ConversionsProofs`** proves `PayloadExact`, `ActivationRendered` and `ManifestsAsConfigured`, for
any parameters and keys, any quantum, memory and course of time, any configuration, `Factor` and
`Width`.

* `PayloadExact`: `PayloadInv` says at each stage that what was parsed is what
  `ParseActivationMessage` makes of the message and what was sent is what the two payloads make of
  that. The rest is about operators: a given parameter resolves to the type of its plain text or
  refuses the message (`ResolveGiven`), so that the two halves of the content are maps of readable
  values (`PartitionType`). The environment is one map, in which an init parameter replaces a
  variable of the invoker or the API key of its name and nothing else does; the theorem has that
  as the exact content of the map. It assumes messages and documents of the forms that
  `Messages` and `Documents` list, and names of parameters may be any.
* `ActivationRendered`: `RecordInv` says that the sums of the activation agree with what was seen all
  the way (`Accounted`), that nothing has gone wrong while it is worked on (`Pending`), and that
  afterwards the outcome is the one that was seen (`Judged`). The charge is a lemma about rounding
  up by division (`QuantaBegun`).
* `ManifestsAsConfigured`: `RuntimesInv` says that the manifests hold the families decoded so far
  and nothing else (`Holds`): the keys are those that some version of them claims, by its kind or
  as the default, and under each key is the last claim of one of the families that have it. A
  later family may take over keys of an earlier one; what it does not claim stays. The loop over
  the versions of a family is a recursive function; it is unfolded, and what holds after each
  version is shown, by an induction in the form of a set of numbers (`WalkUnfolds`, `WalkStep`).
  Kinds are free: they may be shared by families or be anybody's alias. What is assumed is that
  the sizes in the configuration are below `Width` (2^64 in the code): beyond it
  `ParseByteSize` wraps.

Only model-checked: liveness (`GetReturns`, `PrewarmSettles`, `ShutdownEnds` of the pool, apart from
`NothingLeft`, and of the invoker, `UnpauseReturns`, `NeverStuck`, `EventuallyFlushed`,
`EventuallyAnswered`, `EventuallyEnforced`), since fairness and `ENABLED` are outside the prover's
reach; and for the same reason the absence of deadlock.

## 6. Not modelled

* Of main: environment variables, construction of clients, the lag gauge and the endpoints
  for health, metrics and profiling. They are wiring without state of their own.
* Of the Kafka client: the configuration of the library, its TLS and SASL set-up. What the
  reader does with commits is in `Invocations`, except that a consumer which loses its place in
  the group and joins it again within one process is left out.
* The wording of errors, log lines and URLs, the layout of JSON documents, image names, and
  the decoding of encryption keys: text that no decision depends on. Where reading it can
  fail, the failure is an answer.
* The per-container firewall: the implementation in the repository does nothing; the pool's
  side of its interface is in `ContainerPool`.
* Clock, logging, metrics, tls: stateless helpers and observability.
* `cmd/createperf`, `cmd/lifecycleperf`: benchmarks. `container_mock.go` is generated.

## 7. Plan

1. (done) `ContainerPool`, `DockerContainer`, `ContainerLogs`, `Invocations`,
   `ActivationWriter`, `ActivationBatcher`, `FunctionCache` with runs; type correctness of
   the pool; the docker container and the safety of invocations completely.
2. (done) `ContainerLease` and the pool's refinement of it; `CouchClient` and its composition
   with the cache; `Firewall`; `Payload`, `Runtimes` and `ActivationRecord`.
3. (done) The remaining invariants of the pool and its refinement of `ContainerLease`; the
   refinement of the batcher; the safety of logs, cache, client and firewall.
4. (done) The conversions, for any names, keys, configurations and times; what `Shutdown` of the
   pool leaves.
