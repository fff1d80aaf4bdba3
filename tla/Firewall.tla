-------------------------------- MODULE Firewall --------------------------------
(******************************************************************************)
(* The firewall of the node (pkg/firewall): Kubernetes informers whose events   *)
(* are filtered (events.go) into a one-slot poke channel, and the goroutine of  *)
(* cmd/invoker/main.go that reconciles on a poke, on a timer and once before    *)
(* any function runs.  Reconcile (firewall.go) reads four objects from the      *)
(* informers' caches, one after the other, then the iptables of the node, and   *)
(* writes them back through a docker exec (docker_exec.go).                     *)
(*                                                                              *)
(* Objects are the addresses they hold.  Of other parties' rules only their     *)
(* place before or behind ours matters: a docker daemon that restarts puts its  *)
(* own in front.  The mutex around reading and writing iptables has no second   *)
(* user in this repository (the per-container rules are not implemented).       *)
(******************************************************************************)
EXTENDS Integers, Sequences, FiniteSets

CONSTANTS
  Address,         \* the destinations a container may address
  ClusterNetwork,  \* those in 10.0.0.0/8
  ContainerSubnet, \* those in the subnet of the containers and not behind its bridge
  LinkLocal,       \* those in 169.254.0.0/16
  Values,          \* for each object the sets of addresses it may hold, or Missing
  Synced,          \* what the caches hold once they are synced
  Missing,
  MaxChanges,      \* bound: events of the informers
  MaxFaults,       \* bound: docker execs that fail or hang, and restarts of the process
  MaxDisturbed     \* bound: times another party puts its rules first

\* What Reconcile reads, in its order: external IPs of the nodes, endpoints of default/kubernetes,
\* cluster IP and endpoints of CoreDNS.
Objects   == <<"nodes", "api", "dns", "pods">>
ObjectSet == {Objects[i] : i \in DOMAIN Objects}

ASSUME FirewallAssumption ==
  /\ ClusterNetwork \cup ContainerSubnet \cup LinkLocal \subseteq Address
  /\ DOMAIN Values = ObjectSet
  /\ \A o \in ObjectSet : \A v \in Values[o] \ {Missing} : v \subseteq Address
  /\ Missing \notin Values["nodes"]
  /\ Synced = [o \in ObjectSet |-> Synced[o]]
  /\ \A o \in ObjectSet : Synced[o] \in Values[o] \ {Missing}
  /\ MaxChanges \in Nat /\ MaxFaults \in Nat /\ MaxDisturbed \in Nat

VARIABLES
  cache,         \* the informers' caches, which the listers read
  notices,       \* per informer, the events its listener has not handled yet
  firewallPoke,  \* whether the one-slot channel is full
  at,            \* where the reconciler is: waiting, at an object, at iptables, or in an exec that hangs
  started,       \* the first reconciliation succeeded, functions may run
  snapshot,      \* the objects read so far
  current,       \* the iptables read
  iptables,      \* the filter table of the node: the rules of each existing chain
  failed,        \* history: the last reconciliation failed
  disturbed,     \* history: another party changed the order since the last write
  changes, faults, disturbances

memory == <<cache, notices, firewallPoke>>
loop   == <<at, started, snapshot, current>>
bounds == <<changes, faults, disturbances>>
vars   == <<cache, notices, firewallPoke, at, started, snapshot, current, iptables, failed,
            disturbed, changes, faults, disturbances>>

Informers  == {"node", "service", "endpoints"}
InformerOf == [o \in ObjectSet |->
                 CASE o = "nodes" -> "node" [] o = "dns" -> "service" [] OTHER -> "endpoints"]

--------------------------------------------------------------------------------
(* iptables: rules are matched in order, a chain that ends without a match     *)
(* returns to where it was called.                                              *)

Packets == [dst : Address, established : BOOLEAN]
To(S)   == {p \in Packets : p.dst \in S}

\* Rules of FORWARD and INPUT: the jumps to our two chains, anything of another party, and rules of
\* another party that begin like one of ours.
Whisk        == "-j WHISK-FIREWALL"
PerContainer == "-j PER-CONTAINER-FIREWALL"
Foreign      == "foreign"
Namesake     == "-j WHISK-FIREWALL-2"

Rules(t)  == t["WHISK-FIREWALL"]
Hits(t, p) == {i \in DOMAIN Rules(t) : p \in Rules(t)[i].match}
FirstHit(t, p) == CHOOSE i \in Hits(t, p) : \A j \in Hits(t, p) : i <= j
\* What a chain does with a packet before it meets a rule of another party.
Verdict(t, chain, p) ==
  LET jumps == {i \in DOMAIN t[chain] : t[chain][i] = Whisk}
      ahead == {i \in jumps : \A j \in 1..i : t[chain][j] \notin {Foreign, Namesake}} IN
  IF ahead = {} \/ Hits(t, p) = {} THEN "RETURN" ELSE Rules(t)[FirstHit(t, p)].target

\* iptables -I: at the front of a chain.
Insert(t, chain, rule) == [t EXCEPT ![chain] = <<rule>> \o @]

FreshTable == [chain \in {"FORWARD", "INPUT"} |-> <<Foreign>>]

--------------------------------------------------------------------------------
(* reconcile: the desired table.                                                *)

\* Rules that are dropped from the dump to be added again where they belong.  They are told by how
\* they begin, which drops a namesake, too.
Ours(chain) ==
  CASE chain = "FORWARD" -> {Whisk, PerContainer, Namesake} [] chain = "INPUT" -> {Whisk, Namesake} [] OTHER -> {}

\* The lines up to the i-th one without those of a set, as the scanner goes through the dump.
Scanned(lines, dropped) ==
  LET kept[i \in 0..Len(lines)] ==
        IF i = 0 THEN <<>>
        ELSE IF lines[i] \in dropped THEN kept[i - 1] ELSE Append(kept[i - 1], lines[i])
  IN  kept
Without(lines, dropped) == Scanned(lines, dropped)[Len(lines)]

\* Mutation: the jumps of an earlier reconciliation stay where they are.
KeptWithJumps(t) ==
  [chain \in DOMAIN t \cup {"WHISK-FIREWALL", "PER-CONTAINER-FIREWALL"} |->
     IF chain \notin DOMAIN t \/ chain = "WHISK-FIREWALL" THEN <<>> ELSE t[chain]]
\* The dump without our rules, and with our chains if they did not exist.
Kept(t) ==
  [chain \in DOMAIN t \cup {"WHISK-FIREWALL", "PER-CONTAINER-FIREWALL"} |->
     IF chain \notin DOMAIN t \/ chain = "WHISK-FIREWALL" THEN <<>>
     ELSE Without(t[chain], Ours(chain))]

serviceRule(S, target) == [match |-> To(S), target |-> target]

\* The rules of WHISK-FIREWALL.  Rules for addresses of one object are one rule here.
FirewallRules(s) ==
  << [match |-> {p \in Packets : p.established}, target |-> "ACCEPT"],
     serviceRule(s["nodes"], "REJECT"),
     serviceRule(s["api"], "REJECT"),
     serviceRule(s["dns"], "ACCEPT"),
     serviceRule(s["pods"], "ACCEPT"),
     serviceRule(ClusterNetwork, "REJECT"),
     serviceRule(ContainerSubnet, "REJECT"),
     serviceRule(LinkLocal, "REJECT"),
     [match |-> Packets, target |-> "RETURN"] >>

\* Inserted in reverse, so that PER-CONTAINER-FIREWALL comes first.
reconcile(t, s) ==
  LET jumps == Insert(Insert(Insert(Kept(t), "FORWARD", Whisk), "FORWARD", PerContainer), "INPUT", Whisk)
  IN  [jumps EXCEPT !["WHISK-FIREWALL"] = FirewallRules(s)]

--------------------------------------------------------------------------------
NoSnapshot == [o \in ObjectSet |-> {}]
\* One notice stands for those of the initial lists.
InitialAdds ==
  [i \in Informers |->
     IF i = "node" THEN <<[event |-> "add", initial |-> TRUE, relevant |-> TRUE, changed |-> TRUE]>> ELSE <<>>]

\* main from Start to the first reconciliation: synced caches, whose initial lists are still announced.
Starting ==
  /\ notices' = InitialAdds /\ firewallPoke' = FALSE
  /\ at' = Objects[1] /\ started' = FALSE /\ snapshot' = NoSnapshot /\ current' = FreshTable

\* A fresh node, or one with a table of an earlier process, on which docker may have restarted.
Init ==
  /\ cache = Synced
  /\ notices = InitialAdds /\ firewallPoke = FALSE
  /\ at = Objects[1] /\ started = FALSE /\ snapshot = NoSnapshot /\ current = FreshTable
  /\ LET old == reconcile(FreshTable, NoSnapshot)
     IN  iptables \in {FreshTable, old, Insert(old, "FORWARD", Foreign)}
  /\ failed = TRUE /\ disturbed = FALSE
  /\ changes = 0 /\ faults = 0 /\ disturbances = 0

Fault == faults < MaxFaults /\ faults' = faults + 1

--------------------------------------------------------------------------------
(* The informers.                                                               *)

Noticed(i, notice) ==
  /\ changes < MaxChanges /\ changes' = changes + 1
  /\ notices' = [notices EXCEPT ![i] = Append(@, notice)]

Notice(event, relevant, changed) ==
  [event |-> event, initial |-> FALSE, relevant |-> relevant, changed |-> changed]

\* What kind of event a new value is.  Nodes are objects of their own, one for each external IP, and a
\* deletion that the watch has missed is announced as a tombstone.
EventsOf(old, new) ==
  IF old = Missing THEN {"add"} ELSE IF new = Missing THEN {"delete", "tombstone"}
  ELSE {"update"}
NodeEventsOf(old, new) ==
  IF old \subseteq new THEN {"add"} ELSE IF new \subseteq old THEN {"delete", "tombstone"} ELSE {"update"}

\* An object of interest changes in the cache, which is announced to the listener afterwards.
Change(o) ==
  /\ \E v \in Values[o] \ {cache[o]} :
       /\ cache' = [cache EXCEPT ![o] = v]
       /\ \E event \in IF o = "nodes" THEN NodeEventsOf(cache[o], v) ELSE EventsOf(cache[o], v) :
            Noticed(InformerOf[o], Notice(event, TRUE, TRUE))
  /\ UNCHANGED <<firewallPoke, loop, iptables, failed, disturbed, faults, disturbances>>

\* Anything else: other services and endpoints, heartbeats of nodes, the hourly resync.
Noise(i) ==
  /\ Noticed(i, Notice("update", i = "node", FALSE))
  /\ UNCHANGED <<cache, firewallPoke, loop, iptables, failed, disturbed, faults, disturbances>>

\* Mutation: a node that goes is not looked at.
FilterAddsOnly(i, n) ==
  CASE n.event = "add"    -> ~n.initial /\ (i = "node" \/ n.relevant)
    [] n.event = "update" -> n.changed /\ (i = "node" \/ n.relevant)
    [] OTHER              -> i # "node" /\ n.relevant
\* FilteredEventHandler: the events that matter for the rules.
Filter(i, n) ==
  CASE n.event = "add"       -> ~n.initial /\ (i = "node" \/ n.relevant)
    [] n.event = "update"    -> n.changed /\ (i = "node" \/ n.relevant)
    [] n.event = "delete"    -> i = "node" \/ n.relevant
    [] n.event = "tombstone" -> TRUE

\* The listener handles its next event; a poke that finds the channel full is dropped.
Handle(i) ==
  /\ notices[i] # <<>>
  /\ notices' = [notices EXCEPT ![i] = Tail(@)]
  /\ firewallPoke' = (firewallPoke \/ Filter(i, Head(notices[i])))
  /\ UNCHANGED <<cache, loop, iptables, failed, disturbed, bounds>>

--------------------------------------------------------------------------------
(* The reconciler.                                                              *)

\* Mutation: the tick does nothing.
NoTick == at = "waiting" /\ UNCHANGED vars
\* The goroutine of main: a tick ...
Tick ==
  /\ at = "waiting" /\ at' = Objects[1]
  /\ UNCHANGED <<memory, started, snapshot, current, iptables, failed, disturbed, bounds>>
\* ... or a poke.
Wake ==
  /\ at = "waiting" /\ firewallPoke
  /\ firewallPoke' = FALSE /\ at' = Objects[1]
  /\ UNCHANGED <<cache, notices, started, snapshot, current, iptables, failed, disturbed, bounds>>

\* Reconcile returns an error, which the loop logs.  Before the start it ends the process.
Fails ==
  /\ failed' = TRUE
  /\ IF started
       THEN at' = "waiting" /\ snapshot' = NoSnapshot /\ current' = FreshTable
            /\ UNCHANGED <<notices, firewallPoke, started>>
       ELSE Starting

\* One lister: the object as the cache has it now, or an error.
Read(i) ==
  /\ at = Objects[i]
  /\ \/ /\ cache[Objects[i]] # Missing
        /\ snapshot' = [snapshot EXCEPT ![Objects[i]] = cache[Objects[i]]]
        /\ at' = (IF i = Len(Objects) THEN "get" ELSE Objects[i + 1])
        /\ UNCHANGED <<memory, started, current, failed>>
     \/ /\ cache[Objects[i]] = Missing
        /\ Fails /\ UNCHANGED cache
  /\ UNCHANGED <<iptables, disturbed, bounds>>

\* GetState: iptables-save in the firewall container.
GetState ==
  /\ at = "get"
  /\ \/ /\ current' = iptables /\ at' = "put"
        /\ UNCHANGED <<notices, firewallPoke, started, snapshot, failed, faults>>
     \/ Fault /\ Fails
  /\ UNCHANGED <<cache, iptables, disturbed, changes, disturbances>>

\* exec of iptables-restore: commits the whole table or nothing.
Written(t) == iptables' = t /\ disturbed' = FALSE
\* WriteState.  When exec fails the command may have been run all the same.
WriteState ==
  /\ at = "put"
  /\ \/ /\ Written(reconcile(current, snapshot))
        /\ failed' = FALSE /\ started' = TRUE
        /\ at' = "waiting" /\ snapshot' = NoSnapshot /\ current' = FreshTable
        /\ UNCHANGED <<notices, firewallPoke, faults>>
     \/ /\ Fault /\ Fails
        /\ Written(reconcile(current, snapshot)) \/ UNCHANGED <<iptables, disturbed>>
  /\ UNCHANGED <<cache, changes, disturbances>>

\* No exec has a deadline: one that does not end, its command run or not, holds the reconciler.
Hang ==
  /\ at \in {"get", "put"} /\ at' = "hung"
  /\ Fault
  /\ \/ at = "put" /\ Written(reconcile(current, snapshot))
     \/ UNCHANGED <<iptables, disturbed>>
  /\ UNCHANGED <<memory, started, snapshot, current, failed, changes, disturbances>>

--------------------------------------------------------------------------------
\* A docker daemon that restarts, or another party, puts its rules in front of ours.
Disturb ==
  /\ disturbances < MaxDisturbed /\ disturbances' = disturbances + 1
  /\ \E chain \in {"FORWARD", "INPUT"}, rule \in {Foreign, Namesake} :
       iptables' = Insert(iptables, chain, rule)
  /\ disturbed' = TRUE
  /\ UNCHANGED <<memory, loop, failed, changes, faults>>

\* The process ends and starts again; the table of the node stays.
Restart ==
  /\ Fault /\ Starting
  /\ failed' = TRUE
  /\ UNCHANGED <<cache, iptables, disturbed, changes, disturbances>>

Reconcile == \/ \E i \in DOMAIN Objects : Read(i)
             \/ GetState \/ WriteState
Next ==
  \/ \E o \in ObjectSet : Change(o)
  \/ \E i \in Informers : Noise(i) \/ Handle(i)
  \/ Tick \/ Wake \/ Reconcile \/ Hang \/ Disturb \/ Restart

Spec == Init /\ [][Next]_vars
\* The ticker ticks, listeners run, and an exec ends unless it hangs: neither the contexts nor the docker
\* client have a timeout, so that nothing says it must, and nothing restarts the process for it.
FairSpec ==
  /\ Spec /\ WF_vars(Reconcile) /\ WF_vars(Tick)
  /\ \A i \in Informers : WF_vars(Handle(i))

--------------------------------------------------------------------------------
(* Properties.                                                                  *)

\* What a function may reach, said without the order of rules: answers to the invoker, CoreDNS, and
\* whatever is neither a node, the Kubernetes API, in the cluster, on the node nor link-local.
Policy(s, p) ==
  IF p.established THEN "ACCEPT"
  ELSE IF p.dst \in s["nodes"] \cup s["api"] THEN "REJECT"
  ELSE IF p.dst \in s["dns"] \cup s["pods"] THEN "ACCEPT"
  ELSE IF p.dst \in ClusterNetwork \cup ContainerSubnet \cup LinkLocal THEN "REJECT"
  ELSE "RETURN"
Enforces(t, s) ==
  \A chain \in {"FORWARD", "INPUT"}, p \in Packets : Verdict(t, chain, p) = Policy(s, p)

TypeOK ==
  /\ \A o \in ObjectSet : cache[o] \in Values[o]
  /\ firewallPoke \in BOOLEAN /\ started \in BOOLEAN /\ failed \in BOOLEAN /\ disturbed \in BOOLEAN
  /\ at \in ObjectSet \cup {"waiting", "get", "put", "hung"}
  /\ {"FORWARD", "INPUT"} \subseteq DOMAIN iptables

(* "We can safely move on as there's already a poke in the channel" (main): when    *)
(* nothing is announced, poked or under way, the last reconciliation succeeded and  *)
(* nobody has put rules in front since, then the table enforces the policy of the   *)
(* objects as they are now, although they were read one by one and every filtered   *)
(* event and dropped poke was one that could be missed.                             *)
EnforcedWhenQuiet ==
  /\ TypeOK
  /\ at = "waiting" /\ ~firewallPoke /\ (\A i \in Informers : notices[i] = <<>>) /\ ~failed /\ ~disturbed
       => Enforces(iptables, cache)

(* "Reconcile idempotently brings the firewall to our desired state": whatever order *)
(* the rules were left in, a second reconciliation changes nothing, and neither      *)
(* loses or reorders a rule of another party that does not begin like one of ours.   *)
Idempotent ==
  LET once == reconcile(iptables, snapshot)
      others(t, chain) == Without(t[chain], {Whisk, PerContainer, Namesake}) IN
  /\ reconcile(once, snapshot) = once
  /\ \A chain \in {"FORWARD", "INPUT"} : others(once, chain) = others(iptables, chain)

(* Whatever failed, was restarted, lost or put in front of the rules, the table      *)
(* enforces the policy of the objects in the end, unless one of them is missing or   *)
(* an exec hangs, which no timer of the reconciler (main) ends.                      *)
EventuallyEnforced ==
  <>[](at = "hung" \/ (\E o \in ObjectSet : cache[o] = Missing) \/ Enforces(iptables, cache))

================================================================================
