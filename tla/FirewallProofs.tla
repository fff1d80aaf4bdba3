----------------------------- MODULE FirewallProofs -----------------------------
(******************************************************************************)
(* Proofs about the firewall, for any addresses, objects and number of events,   *)
(* failures and foreign rules: reconciling is idempotent and keeps the rules of  *)
(* other parties in their order, and no filtered event, dropped poke or read of  *)
(* an object that changes behind it leaves the table behind the objects.         *)
(*                                                                              *)
(* What the scanner keeps of a chain is a recursive function over its lines.     *)
(* The lemmas about it go by induction in the form of a set of numbers           *)
(* (SetInduction), which the provers can instantiate.                            *)
(******************************************************************************)
EXTENDS Firewall, WellFoundedInduction, TLAPS

Chains  == {"FORWARD", "INPUT", "WHISK-FIREWALL", "PER-CONTAINER-FIREWALL"}
AnyRule == {Whisk, PerContainer, Foreign, Namesake}
NoticeSet == [event : {"add", "update", "delete", "tombstone"},
              initial : BOOLEAN, relevant : BOOLEAN, changed : BOOLEAN]

\* A filter table of the node; only the jumps to our chains and rules of other parties are in its chains.
TableOK(t) ==
  /\ t = [chain \in DOMAIN t |-> t[chain]]
  /\ {"FORWARD", "INPUT"} \subseteq DOMAIN t /\ DOMAIN t \subseteq Chains
  /\ t["FORWARD"] \in Seq(AnyRule) /\ t["INPUT"] \in Seq({Whisk, Foreign, Namesake})
  /\ "PER-CONTAINER-FIREWALL" \in DOMAIN t => t["PER-CONTAINER-FIREWALL"] \in Seq(AnyRule)

\* Another reconciliation is certain to follow: a poke is there, or an event that will become one.
Coming ==
  firewallPoke \/ \E i \in Informers : \E k \in DOMAIN notices[i] : Filter(i, notices[i][k])

\* The reconciliation under way has read the i-th object.
HasRead(i) == at \in {"get", "put"} \/ \E j \in DOMAIN Objects : at = Objects[j] /\ i < j

Shapes ==
  /\ cache = [o \in ObjectSet |-> cache[o]]
  /\ snapshot = [o \in ObjectSet |-> snapshot[o]]
  /\ notices \in [Informers -> Seq(NoticeSet)]
  /\ TableOK(iptables)
  /\ at = "put" => TableOK(current)

\* What was read is still so, or another reconciliation follows.
Current ==
  \A i \in DOMAIN Objects : HasRead(i) => (snapshot[Objects[i]] = cache[Objects[i]] \/ Coming)

\* Between reconciliations the table is that of the objects, or another one follows.
Settled == (at = "waiting" /\ ~failed /\ ~disturbed) => (Coming \/ Enforces(iptables, cache))

IInv == TypeOK /\ Shapes /\ Current /\ Settled

--------------------------------------------------------------------------------
(* Induction over numbers, said of a set.                                        *)

\* A set of numbers with 0 and every successor holds all of them.
LEMMA SetInduction ==
  ASSUME NEW G, 0 \in G, \A n \in Nat : n \in G => n + 1 \in G
  PROVE  Nat \subseteq G
<1> SUFFICES ASSUME Nat \ G # {} PROVE FALSE
  OBVIOUS
<1>1. PICK R : R = OpToRel(<, Nat)
  OBVIOUS
<1>2. IsWellFoundedOn(R, Nat)
  BY <1>1, NatLessThanWellFounded
<1>3. PICK x \in Nat \ G : \A y \in Nat \ G : ~(<<y, x>> \in R)
  BY <1>2, WFMin
<1>4. \A y \in Nat : y < x => <<y, x>> \in R
  BY <1>1 DEF OpToRel
<1>5. x # 0 /\ x - 1 \in Nat /\ x - 1 < x
  BY <1>3
<1>6. x - 1 \in G
  BY <1>3, <1>4, <1>5
<1>7. (x - 1) + 1 \in G
  BY <1>5, <1>6
<1> QED
  BY <1>3, <1>7

--------------------------------------------------------------------------------
(* What the scanner keeps of a chain.                                            *)

IsScan(g, s, D, n) ==
  g = [i \in 0..n |-> IF i = 0 THEN <<>> ELSE IF s[i] \in D THEN g[i - 1] ELSE Append(g[i - 1], s[i])]

\* The recursive definition of Scanned has a solution for every number of lines.
LEMMA ScanExists ==
  ASSUME NEW s, NEW D
  PROVE  \A n \in Nat : \E g : IsScan(g, s, D, n)
<1> DEFINE G == {n \in Nat : \E g : IsScan(g, s, D, n)}
<1>1. 0 \in G
  <2>1. IsScan([i \in 0..0 |-> <<>>], s, D, 0)
    BY DEF IsScan
  <2> QED
    BY <2>1
<1>2. ASSUME NEW n \in Nat, n \in G PROVE n + 1 \in G
  <2>1. PICK g : IsScan(g, s, D, n)
    BY <1>2
  <2>2. PICK h : h = [i \in 0..(n + 1) |->
                        IF i <= n THEN g[i] ELSE IF s[n + 1] \in D THEN g[n] ELSE Append(g[n], s[n + 1])]
    OBVIOUS
  <2>3. \A i \in 0..n : g[i] = IF i = 0 THEN <<>> ELSE IF s[i] \in D THEN g[i - 1] ELSE Append(g[i - 1], s[i])
    BY <2>1 DEF IsScan
  <2>4. \A i \in 0..(n + 1) : h[i] = IF i = 0 THEN <<>> ELSE IF s[i] \in D THEN h[i - 1] ELSE Append(h[i - 1], s[i])
    BY <2>2, <2>3
  <2>5. IsScan(h, s, D, n + 1)
    BY <2>2, <2>4 DEF IsScan
  <2> QED
    BY <2>5
<1> QED
  BY <1>1, <1>2, SetInduction

\* Scanned, unfolded once: nothing of no lines, and one line more or none.
LEMMA ScanUnfolds ==
  ASSUME NEW R, NEW s \in Seq(R), NEW D
  PROVE  /\ Scanned(s, D)[0] = <<>>
         /\ \A i \in 1..Len(s) : Scanned(s, D)[i] =
              IF s[i] \in D THEN Scanned(s, D)[i - 1] ELSE Append(Scanned(s, D)[i - 1], s[i])
<1>0. Len(s) \in Nat
  OBVIOUS
<1>1. \E g : IsScan(g, s, D, Len(s))
  BY <1>0, ScanExists
<1>2. IsScan(Scanned(s, D), s, D, Len(s))
  BY <1>1, Zenon DEF Scanned, IsScan
<1>3. PICK g : g = Scanned(s, D)
  OBVIOUS
<1>4. IsScan(g, s, D, Len(s))
  BY <1>2, <1>3
<1>5. \A i \in 0..Len(s) : g[i] = IF i = 0 THEN <<>> ELSE IF s[i] \in D THEN g[i - 1] ELSE Append(g[i - 1], s[i])
  BY <1>4 DEF IsScan
<1>6. g[0] = <<>>
  BY <1>0, <1>5
<1>7. \A i \in 1..Len(s) : g[i] = IF s[i] \in D THEN g[i - 1] ELSE Append(g[i - 1], s[i])
  BY <1>0, <1>5
<1> QED
  BY <1>3, <1>6, <1>7

\* A property of all prefixes of a sequence follows from the empty one and one line more.
LEMMA PrefixInduction ==
  ASSUME NEW n \in Nat, NEW G, 0 \in G, \A i \in 1..n : i - 1 \in G => i \in G
  PROVE  n \in G
<1> DEFINE H == {k \in Nat : k <= n => k \in G}
<1>1. 0 \in H
  OBVIOUS
<1>2. ASSUME NEW k \in Nat, k \in H PROVE k + 1 \in H
  <2> SUFFICES ASSUME k + 1 <= n PROVE k + 1 \in G
    OBVIOUS
  <2>1. k + 1 \in 1..n /\ (k + 1) - 1 = k
    OBVIOUS
  <2>2. k \in G
    BY <1>2
  <2> QED
    BY <2>1, <2>2
<1>3. Nat \subseteq H
  <2> HIDE DEF H
  <2> QED
    BY <1>1, <1>2, SetInduction
<1> QED
  BY <1>3

\* The lines kept are lines of the chain, and none of those dropped.
LEMMA KeptLines ==
  ASSUME NEW R, NEW s \in Seq(R), NEW D
  PROVE  Without(s, D) \in Seq(R \ D)
<1> Len(s) \in Nat /\ 0 \in 0..Len(s) /\ \A i \in 1..Len(s) : i \in 0..Len(s)
  OBVIOUS
<1>1. PICK g : g = Scanned(s, D)
  OBVIOUS
<1>2. /\ g[0] = <<>>
      /\ \A i \in 1..Len(s) : g[i] = IF s[i] \in D THEN g[i - 1] ELSE Append(g[i - 1], s[i])
  BY <1>1, ScanUnfolds
<1> DEFINE G == {i \in 0..Len(s) : g[i] \in Seq(R \ D)}
<1>3. 0 \in G
  <2>1. <<>> \in Seq(R \ D)
    OBVIOUS
  <2> QED
    BY <1>2, <2>1
<1>4. ASSUME NEW i \in 1..Len(s), i - 1 \in G PROVE i \in G
  <2>1. g[i - 1] \in Seq(R \ D) /\ s[i] \in R
    BY <1>4
  <2>2. g[i] = IF s[i] \in D THEN g[i - 1] ELSE Append(g[i - 1], s[i])
    BY <1>2
  <2>3. s[i] \notin D => Append(g[i - 1], s[i]) \in Seq(R \ D)
    BY <2>1
  <2> QED
    BY <2>1, <2>2, <2>3
<1>6. Len(s) \in G
  <2> HIDE DEF G
  <2> QED
    BY <1>3, <1>4, PrefixInduction
<1> QED
  BY <1>1, <1>6 DEF Without

\* Of lines none of which is dropped all are kept, in their order.
LEMMA NothingDropped ==
  ASSUME NEW R, NEW s \in Seq(R), NEW D, R \cap D = {}
  PROVE  Without(s, D) = s
<1> Len(s) \in Nat /\ 0 \in 0..Len(s) /\ \A i \in 1..Len(s) : i \in 0..Len(s)
  OBVIOUS
<1>1. PICK g : g = Scanned(s, D)
  OBVIOUS
<1>2. /\ g[0] = <<>>
      /\ \A i \in 1..Len(s) : g[i] = IF s[i] \in D THEN g[i - 1] ELSE Append(g[i - 1], s[i])
  BY <1>1, ScanUnfolds
<1> DEFINE G == {i \in 0..Len(s) : g[i] = SubSeq(s, 1, i)}
<1>3. 0 \in G
  <2>1. SubSeq(s, 1, 0) = <<>>
    OBVIOUS
  <2> QED
    BY <1>2, <2>1
<1>4. ASSUME NEW i \in 1..Len(s), i - 1 \in G PROVE i \in G
  <2>1. g[i - 1] = SubSeq(s, 1, i - 1)
    BY <1>4
  <2>2. g[i] = Append(SubSeq(s, 1, i - 1), s[i])
    <3>1. s[i] \in R
      OBVIOUS
    <3>2. s[i] \notin D
      BY <3>1
    <3> QED
      BY <1>2, <2>1, <3>2
  <2>3. SubSeq(s, 1, i - 1) \in Seq(R) /\ Len(SubSeq(s, 1, i - 1)) = i - 1
    OBVIOUS
  <2>4. Append(SubSeq(s, 1, i - 1), s[i]) = SubSeq(s, 1, i)
    BY <2>3
  <2> QED
    BY <2>2, <2>4
<1>6. Len(s) \in G
  <2> HIDE DEF G
  <2> QED
    BY <1>3, <1>4, PrefixInduction
<1>7. SubSeq(s, 1, Len(s)) = s
  OBVIOUS
<1> QED
  BY <1>1, <1>6, <1>7 DEF Without

\* Which lines are dropped only matters for lines that are there.
LEMMA SameDropped ==
  ASSUME NEW R, NEW s \in Seq(R), NEW D, NEW E, R \cap D = R \cap E
  PROVE  Without(s, D) = Without(s, E)
<1> Len(s) \in Nat /\ 0 \in 0..Len(s) /\ \A i \in 1..Len(s) : i \in 0..Len(s)
  OBVIOUS
<1>1. PICK g : g = Scanned(s, D)
  OBVIOUS
<1>2. PICK h : h = Scanned(s, E)
  OBVIOUS
<1>3. /\ g[0] = <<>>
      /\ \A i \in 1..Len(s) : g[i] = IF s[i] \in D THEN g[i - 1] ELSE Append(g[i - 1], s[i])
  BY <1>1, ScanUnfolds
<1>4. /\ h[0] = <<>>
      /\ \A i \in 1..Len(s) : h[i] = IF s[i] \in E THEN h[i - 1] ELSE Append(h[i - 1], s[i])
  BY <1>2, ScanUnfolds
<1> DEFINE G == {i \in 0..Len(s) : g[i] = h[i]}
<1>5. 0 \in G
  BY <1>3, <1>4
<1>6. ASSUME NEW i \in 1..Len(s), i - 1 \in G PROVE i \in G
  <2>1. s[i] \in D <=> s[i] \in E
    OBVIOUS
  <2> QED
    BY <1>3, <1>4, <1>6, <2>1
<1>8. Len(s) \in G
  <2> HIDE DEF G
  <2> QED
    BY <1>5, <1>6, PrefixInduction
<1> QED
  BY <1>1, <1>2, <1>8 DEF Without

\* A line of ours put in front of a chain is dropped again.
LEMMA FrontDropped ==
  ASSUME NEW R, NEW s \in Seq(R), NEW D, NEW r \in R, r \in D
  PROVE  Without(<<r>> \o s, D) = Without(s, D)
<1> Len(s) \in Nat /\ 0 \in 0..Len(s) /\ \A i \in 1..Len(s) : i \in 0..Len(s)
  OBVIOUS
<1>0. PICK t : t = <<r>> \o s
  OBVIOUS
<1>1. PICK g : g = Scanned(s, D)
  OBVIOUS
<1>2. PICK h : h = Scanned(t, D)
  OBVIOUS
<1>3. /\ t \in Seq(R) /\ Len(t) = Len(s) + 1 /\ t[1] = r
      /\ \A i \in 1..Len(s) : t[i + 1] = s[i]
  BY <1>0
<1>4. /\ g[0] = <<>>
      /\ \A i \in 1..Len(s) : g[i] = IF s[i] \in D THEN g[i - 1] ELSE Append(g[i - 1], s[i])
  BY <1>1, ScanUnfolds
<1>5. /\ h[0] = <<>>
      /\ \A i \in 1..Len(t) : h[i] = IF t[i] \in D THEN h[i - 1] ELSE Append(h[i - 1], t[i])
  BY <1>2, <1>3, ScanUnfolds
<1> DEFINE G == {i \in 0..Len(s) : h[i + 1] = g[i]}
<1>6. 0 \in G
  BY <1>3, <1>4, <1>5
<1>7. ASSUME NEW i \in 1..Len(s), i - 1 \in G PROVE i \in G
  <2>1. h[i] = g[i - 1]
    BY <1>7
  <2>2. i + 1 \in 1..Len(t) /\ (i + 1) - 1 = i
    BY <1>3
  <2>3. h[i + 1] = IF s[i] \in D THEN h[i] ELSE Append(h[i], s[i])
    BY <1>3, <1>5, <2>2
  <2> QED
    BY <1>4, <2>1, <2>3
<1>9. Len(s) \in G
  <2> HIDE DEF G
  <2> QED
    BY <1>6, <1>7, PrefixInduction
<1> QED
  BY <1>0, <1>1, <1>2, <1>3, <1>9 DEF Without

--------------------------------------------------------------------------------
(* The table that is written.                                                    *)

\* Our lines: all of FORWARD's that are not foreign, all of INPUT's, none of the chain of containers.
LEMMA OursOfChain ==
  /\ Ours("FORWARD") = {Whisk, PerContainer, Namesake}
  /\ Ours("INPUT") = {Whisk, Namesake}
  /\ Ours("PER-CONTAINER-FIREWALL") = {}
  BY DEF Ours

\* The chain of containers is kept as it is, or created.
ContainerRules(t) ==
  IF "PER-CONTAINER-FIREWALL" \in DOMAIN t THEN t["PER-CONTAINER-FIREWALL"] ELSE <<>>

\* The dump without our lines, chain by chain.
LEMMA KeptTable ==
  ASSUME NEW t, TableOK(t)
  PROVE  /\ Kept(t) = [chain \in Chains |-> Kept(t)[chain]]
         /\ Kept(t)["FORWARD"] = Without(t["FORWARD"], {Whisk, PerContainer, Namesake})
         /\ Kept(t)["INPUT"] = Without(t["INPUT"], {Whisk, Namesake})
         /\ Kept(t)["PER-CONTAINER-FIREWALL"] = ContainerRules(t)
<1>1. DOMAIN t \cup {"WHISK-FIREWALL", "PER-CONTAINER-FIREWALL"} = Chains
  BY DEF TableOK, Chains
<1>2. Kept(t) = [chain \in Chains |->
                   IF chain \notin DOMAIN t \/ chain = "WHISK-FIREWALL" THEN <<>>
                   ELSE Without(t[chain], Ours(chain))]
  BY <1>1 DEF Kept
<1>3. Kept(t) = [chain \in Chains |-> Kept(t)[chain]]
  BY <1>2
<1>4. "FORWARD" \in Chains /\ "INPUT" \in Chains /\ "PER-CONTAINER-FIREWALL" \in Chains
  BY DEF Chains
<1>5. Kept(t)["FORWARD"] = Without(t["FORWARD"], {Whisk, PerContainer, Namesake})
  BY <1>2, <1>4, OursOfChain DEF TableOK
<1>6. Kept(t)["INPUT"] = Without(t["INPUT"], {Whisk, Namesake})
  BY <1>2, <1>4, OursOfChain DEF TableOK
<1>7. Kept(t)["PER-CONTAINER-FIREWALL"] = ContainerRules(t)
  <2>1. CASE "PER-CONTAINER-FIREWALL" \notin DOMAIN t
    BY <1>2, <1>4, <2>1 DEF ContainerRules
  <2>2. CASE "PER-CONTAINER-FIREWALL" \in DOMAIN t
    <3>1. Kept(t)["PER-CONTAINER-FIREWALL"] = Without(t["PER-CONTAINER-FIREWALL"], {})
      BY <1>2, <1>4, <2>2, OursOfChain
    <3>2. Without(t["PER-CONTAINER-FIREWALL"], {}) = t["PER-CONTAINER-FIREWALL"]
      <4>1. t["PER-CONTAINER-FIREWALL"] \in Seq(AnyRule) /\ AnyRule \cap {} = {}
        BY <2>2 DEF TableOK
      <4> QED
        BY <4>1, NothingDropped
    <3> QED
      BY <2>2, <3>1, <3>2 DEF ContainerRules
  <2> QED
    BY <2>1, <2>2
<1> QED
  BY <1>3, <1>5, <1>6, <1>7

ForwardOf(t) == <<PerContainer>> \o (<<Whisk>> \o Without(t["FORWARD"], {Whisk, PerContainer, Namesake}))
InputOf(t)   == <<Whisk>> \o Without(t["INPUT"], {Whisk, Namesake})

\* The desired table, chain by chain.
LEMMA DesiredTable ==
  ASSUME NEW t, TableOK(t), NEW s
  PROVE  /\ reconcile(t, s) = [chain \in Chains |-> reconcile(t, s)[chain]]
         /\ reconcile(t, s)["FORWARD"] = ForwardOf(t)
         /\ reconcile(t, s)["INPUT"] = InputOf(t)
         /\ reconcile(t, s)["PER-CONTAINER-FIREWALL"] = ContainerRules(t)
         /\ reconcile(t, s)["WHISK-FIREWALL"] = FirewallRules(s)
<1>1. PICK k : k = Kept(t)
  OBVIOUS
<1>2. /\ k = [chain \in Chains |-> k[chain]]
      /\ k["FORWARD"] = Without(t["FORWARD"], {Whisk, PerContainer, Namesake})
      /\ k["INPUT"] = Without(t["INPUT"], {Whisk, Namesake})
      /\ k["PER-CONTAINER-FIREWALL"] = ContainerRules(t)
  BY <1>1, KeptTable
<1>3. PICK rules : rules = FirewallRules(s)
  OBVIOUS
<1>4. PICK a : a = [k EXCEPT !["FORWARD"] = <<Whisk>> \o @]
  OBVIOUS
<1>5. PICK b : b = [a EXCEPT !["FORWARD"] = <<PerContainer>> \o @]
  OBVIOUS
<1>6. PICK c : c = [b EXCEPT !["INPUT"] = <<Whisk>> \o @]
  OBVIOUS
<1>7. PICK d : d = [c EXCEPT !["WHISK-FIREWALL"] = rules]
  OBVIOUS
<1>8. reconcile(t, s) = d
  BY <1>1, <1>3, <1>4, <1>5, <1>6, <1>7 DEF reconcile, Insert
<1>9. PICK f : f = Without(t["FORWARD"], {Whisk, PerContainer, Namesake})
  OBVIOUS
<1>10. PICK i : i = Without(t["INPUT"], {Whisk, Namesake})
  OBVIOUS
<1>11. a = [chain \in Chains |-> IF chain = "FORWARD" THEN <<Whisk>> \o f ELSE k[chain]]
  BY <1>2, <1>4, <1>9 DEF Chains
<1>12. b = [chain \in Chains |-> IF chain = "FORWARD" THEN <<PerContainer>> \o (<<Whisk>> \o f) ELSE k[chain]]
  BY <1>5, <1>11 DEF Chains
<1>13. c = [chain \in Chains |-> IF chain = "FORWARD" THEN <<PerContainer>> \o (<<Whisk>> \o f)
                                 ELSE IF chain = "INPUT" THEN <<Whisk>> \o i ELSE k[chain]]
  BY <1>2, <1>6, <1>10, <1>12 DEF Chains
<1>14. d = [chain \in Chains |-> IF chain = "FORWARD" THEN <<PerContainer>> \o (<<Whisk>> \o f)
                                 ELSE IF chain = "INPUT" THEN <<Whisk>> \o i
                                 ELSE IF chain = "WHISK-FIREWALL" THEN rules ELSE k[chain]]
  BY <1>7, <1>13 DEF Chains
<1>15. d = [chain \in Chains |-> d[chain]]
  BY <1>14
<1>16. /\ d["FORWARD"] = <<PerContainer>> \o (<<Whisk>> \o f) /\ d["INPUT"] = <<Whisk>> \o i
       /\ d["PER-CONTAINER-FIREWALL"] = k["PER-CONTAINER-FIREWALL"] /\ d["WHISK-FIREWALL"] = rules
  BY <1>14 DEF Chains
<1> QED
  BY <1>2, <1>3, <1>8, <1>9, <1>10, <1>15, <1>16 DEF ForwardOf, InputOf

\* What is kept of the two chains are the rules of other parties.
LEMMA KeptForeign ==
  ASSUME NEW t, TableOK(t)
  PROVE  /\ Without(t["FORWARD"], {Whisk, PerContainer, Namesake}) \in Seq({Foreign})
         /\ Without(t["INPUT"], {Whisk, Namesake}) \in Seq({Foreign})
<1>1. t["FORWARD"] \in Seq(AnyRule) /\ t["INPUT"] \in Seq({Whisk, Foreign, Namesake})
  BY DEF TableOK
<1>2. AnyRule \ {Whisk, PerContainer, Namesake} = {Foreign} /\ {Whisk, Foreign, Namesake} \ {Whisk, Namesake} = {Foreign}
  BY DEF AnyRule, Whisk, PerContainer, Foreign, Namesake
<1>3. Without(t["FORWARD"], {Whisk, PerContainer, Namesake}) \in Seq(AnyRule \ {Whisk, PerContainer, Namesake})
  BY <1>1, KeptLines
<1>4. Without(t["INPUT"], {Whisk, Namesake}) \in Seq({Whisk, Foreign, Namesake} \ {Whisk, Namesake})
  BY <1>1, KeptLines
<1> QED
  BY <1>2, <1>3, <1>4

\* The desired table is a table again.
LEMMA DesiredTableOK ==
  ASSUME NEW t, TableOK(t), NEW s
  PROVE  TableOK(reconcile(t, s))
<1>1. PICK u : u = reconcile(t, s)
  OBVIOUS
<1>2. /\ u = [chain \in Chains |-> u[chain]]
      /\ u["FORWARD"] = ForwardOf(t) /\ u["INPUT"] = InputOf(t)
      /\ u["PER-CONTAINER-FIREWALL"] = ContainerRules(t)
  BY <1>1, DesiredTable
<1>3. PICK f : f = Without(t["FORWARD"], {Whisk, PerContainer, Namesake})
  OBVIOUS
<1>4. PICK i : i = Without(t["INPUT"], {Whisk, Namesake})
  OBVIOUS
<1>5. f \in Seq({Foreign}) /\ i \in Seq({Foreign})
  BY <1>3, <1>4, KeptForeign
<1>6. f \in Seq(AnyRule) /\ i \in Seq({Whisk, Foreign, Namesake})
  BY <1>5 DEF AnyRule
<1>7. <<Whisk>> \o f \in Seq(AnyRule) /\ <<Whisk>> \o i \in Seq({Whisk, Foreign, Namesake})
  BY <1>6 DEF AnyRule
<1>8. <<PerContainer>> \o (<<Whisk>> \o f) \in Seq(AnyRule)
  BY <1>7 DEF AnyRule
<1>9. ContainerRules(t) \in Seq(AnyRule)
  BY DEF ContainerRules, TableOK
<1>10. DOMAIN u = Chains
  BY <1>2
<1>11. u["FORWARD"] \in Seq(AnyRule) /\ u["INPUT"] \in Seq({Whisk, Foreign, Namesake})
  BY <1>2, <1>3, <1>4, <1>7, <1>8 DEF ForwardOf, InputOf
<1> QED
  BY <1>1, <1>2, <1>9, <1>10, <1>11 DEF TableOK, Chains

--------------------------------------------------------------------------------
(* Reconciling is idempotent.                                                    *)

\* Without our lines, the chains of the desired table are what was kept of the old ones.
LEMMA ScannedAgain ==
  ASSUME NEW t, TableOK(t)
  PROVE  /\ Without(ForwardOf(t), {Whisk, PerContainer, Namesake}) = Without(t["FORWARD"], {Whisk, PerContainer, Namesake})
         /\ Without(InputOf(t), {Whisk, Namesake}) = Without(t["INPUT"], {Whisk, Namesake})
         /\ Without(InputOf(t), {Whisk, PerContainer, Namesake}) = Without(t["INPUT"], {Whisk, PerContainer, Namesake})
<1>1. PICK f : f = Without(t["FORWARD"], {Whisk, PerContainer, Namesake})
  OBVIOUS
<1>2. PICK i : i = Without(t["INPUT"], {Whisk, Namesake})
  OBVIOUS
<1>3. f \in Seq({Foreign}) /\ i \in Seq({Foreign})
  BY <1>1, <1>2, KeptForeign
<1>4. /\ {Foreign} \cap {Whisk, PerContainer, Namesake} = {} /\ {Foreign} \cap {Whisk, Namesake} = {}
      /\ Whisk \in {Whisk, PerContainer, Namesake} /\ PerContainer \in {Whisk, PerContainer, Namesake} /\ Whisk \in {Whisk, Namesake}
      /\ Whisk \in AnyRule /\ PerContainer \in AnyRule
      /\ {Whisk, Foreign, Namesake} \cap {Whisk, Namesake} = {Whisk, Foreign, Namesake} \cap {Whisk, PerContainer, Namesake}
  BY DEF Whisk, PerContainer, Foreign, Namesake, AnyRule
<1>5. f \in Seq(AnyRule) /\ i \in Seq(AnyRule)
  BY <1>3 DEF AnyRule
<1>6. Without(f, {Whisk, PerContainer, Namesake}) = f /\ Without(i, {Whisk, Namesake}) = i /\ Without(i, {Whisk, PerContainer, Namesake}) = i
  BY <1>3, <1>4, NothingDropped
<1>7. Without(ForwardOf(t), {Whisk, PerContainer, Namesake}) = f
  <2>1. PICK w : w = <<Whisk>> \o f
    OBVIOUS
  <2>2. w \in Seq(AnyRule)
    BY <1>4, <1>5, <2>1
  <2>3. Without(<<PerContainer>> \o w, {Whisk, PerContainer, Namesake}) = Without(w, {Whisk, PerContainer, Namesake})
    BY <1>4, <2>2, FrontDropped
  <2>4. Without(<<Whisk>> \o f, {Whisk, PerContainer, Namesake}) = Without(f, {Whisk, PerContainer, Namesake})
    BY <1>4, <1>5, FrontDropped
  <2> QED
    BY <1>1, <1>6, <2>1, <2>3, <2>4 DEF ForwardOf
<1>8. /\ Without(<<Whisk>> \o i, {Whisk, Namesake}) = Without(i, {Whisk, Namesake})
      /\ Without(<<Whisk>> \o i, {Whisk, PerContainer, Namesake}) = Without(i, {Whisk, PerContainer, Namesake})
  BY <1>4, <1>5, FrontDropped
<1>9. Without(t["INPUT"], {Whisk, PerContainer, Namesake}) = i
  <2>1. t["INPUT"] \in Seq({Whisk, Foreign, Namesake})
    BY DEF TableOK
  <2>2. PICK D : D = {Whisk, Namesake}
    OBVIOUS
  <2>3. PICK E : E = {Whisk, PerContainer, Namesake}
    OBVIOUS
  <2>4. PICK R : R = {Whisk, Foreign, Namesake}
    OBVIOUS
  <2>5. R \cap D = R \cap E /\ t["INPUT"] \in Seq(R)
    BY <1>4, <2>1, <2>2, <2>3, <2>4
  <2>6. Without(t["INPUT"], D) = Without(t["INPUT"], E)
    BY <2>5, SameDropped
  <2> QED
    BY <1>2, <2>2, <2>3, <2>6
<1> QED
  BY <1>1, <1>2, <1>6, <1>7, <1>8, <1>9 DEF InputOf

\* A second reconciliation of the same objects writes the table it has read.
LEMMA ReconcileTwice ==
  ASSUME NEW t, TableOK(t), NEW s
  PROVE  reconcile(reconcile(t, s), s) = reconcile(t, s)
<1>1. PICK u : u = reconcile(t, s)
  OBVIOUS
<1>2. PICK v : v = reconcile(u, s)
  OBVIOUS
<1>3. TableOK(u)
  BY <1>1, DesiredTableOK
<1>4. /\ u = [chain \in Chains |-> u[chain]]
      /\ u["FORWARD"] = ForwardOf(t) /\ u["INPUT"] = InputOf(t)
      /\ u["PER-CONTAINER-FIREWALL"] = ContainerRules(t) /\ u["WHISK-FIREWALL"] = FirewallRules(s)
  BY <1>1, DesiredTable
<1>5. /\ v = [chain \in Chains |-> v[chain]]
      /\ v["FORWARD"] = ForwardOf(u) /\ v["INPUT"] = InputOf(u)
      /\ v["PER-CONTAINER-FIREWALL"] = ContainerRules(u) /\ v["WHISK-FIREWALL"] = FirewallRules(s)
  BY <1>2, <1>3, DesiredTable
<1>6. ForwardOf(u) = ForwardOf(t) /\ InputOf(u) = InputOf(t)
  <2>1. /\ Without(u["FORWARD"], {Whisk, PerContainer, Namesake}) = Without(t["FORWARD"], {Whisk, PerContainer, Namesake})
        /\ Without(u["INPUT"], {Whisk, Namesake}) = Without(t["INPUT"], {Whisk, Namesake})
    BY <1>4, ScannedAgain
  <2> QED
    BY <2>1 DEF ForwardOf, InputOf
<1>7. ContainerRules(u) = ContainerRules(t)
  <2>1. "PER-CONTAINER-FIREWALL" \in DOMAIN u
    BY <1>4 DEF Chains
  <2> QED
    BY <1>4, <2>1 DEF ContainerRules
<1>8. \A chain \in Chains : v[chain] = u[chain]
  BY <1>4, <1>5, <1>6, <1>7 DEF Chains
<1>9. v = u
  BY <1>4, <1>5, <1>8
<1> QED
  BY <1>1, <1>2, <1>9

\* Reconciling keeps the rules of other parties, in their order.
LEMMA OthersKept ==
  ASSUME NEW t, TableOK(t), NEW s, NEW chain \in {"FORWARD", "INPUT"}
  PROVE  Without(reconcile(t, s)[chain], {Whisk, PerContainer, Namesake}) = Without(t[chain], {Whisk, PerContainer, Namesake})
<1>1. /\ reconcile(t, s)["FORWARD"] = ForwardOf(t)
      /\ reconcile(t, s)["INPUT"] = InputOf(t)
  BY DesiredTable
<1>2. CASE chain = "FORWARD"
  BY <1>1, <1>2, ScannedAgain
<1>3. CASE chain = "INPUT"
  BY <1>1, <1>3, ScannedAgain
<1> QED
  BY <1>2, <1>3

\* On any table of the node, Idempotent holds.
LEMMA TableIdempotent == TableOK(iptables) => Idempotent
<1> SUFFICES ASSUME TableOK(iptables) PROVE Idempotent
  OBVIOUS
<1>1. reconcile(reconcile(iptables, snapshot), snapshot) = reconcile(iptables, snapshot)
  BY ReconcileTwice
<1>2. \A chain \in {"FORWARD", "INPUT"} :
        Without(reconcile(iptables, snapshot)[chain], {Whisk, PerContainer, Namesake})
          = Without(iptables[chain], {Whisk, PerContainer, Namesake})
  BY OthersKept
<1> QED
  BY <1>1, <1>2 DEF Idempotent

--------------------------------------------------------------------------------
(* The desired table enforces the policy.                                        *)

\* The rules of WHISK-FIREWALL match from top to bottom as the policy says.
LEMMA RulesDecide ==
  ASSUME NEW t, NEW s, Rules(t) = FirewallRules(s), NEW p \in Packets
  PROVE  Hits(t, p) # {} /\ Rules(t)[FirstHit(t, p)].target = Policy(s, p)
<1>1. PICK r : r = FirewallRules(s)
  OBVIOUS
<1>2. /\ DOMAIN r = 1..9
      /\ r[1].match = {q \in Packets : q.established} /\ r[1].target = "ACCEPT"
      /\ r[2].match = To(s["nodes"]) /\ r[2].target = "REJECT"
      /\ r[3].match = To(s["api"]) /\ r[3].target = "REJECT"
      /\ r[4].match = To(s["dns"]) /\ r[4].target = "ACCEPT"
      /\ r[5].match = To(s["pods"]) /\ r[5].target = "ACCEPT"
      /\ r[6].match = To(ClusterNetwork) /\ r[6].target = "REJECT"
      /\ r[7].match = To(ContainerSubnet) /\ r[7].target = "REJECT"
      /\ r[8].match = To(LinkLocal) /\ r[8].target = "REJECT"
      /\ r[9].match = Packets /\ r[9].target = "RETURN"
  BY <1>1 DEF FirewallRules, serviceRule
<1>3. \A S : p \in To(S) <=> p.dst \in S
  BY DEF To
<1>4. PICK H : H = {i \in 1..9 : p \in r[i].match}
  OBVIOUS
<1>5. Hits(t, p) = H
  BY <1>1, <1>2, <1>4 DEF Hits
<1>6. 9 \in H
  BY <1>2, <1>4
<1>7. \E i \in H : \A j \in H : i <= j
  <2>1. PICK R : R = OpToRel(<, Nat)
    OBVIOUS
  <2>2. IsWellFoundedOn(R, Nat)
    BY <2>1, NatLessThanWellFounded
  <2>3. H \subseteq Nat /\ H # {}
    BY <1>4, <1>6
  <2>4. PICK x \in H : \A y \in H : ~(<<y, x>> \in R)
    BY <2>2, <2>3, WFMin
  <2>5. \A y \in H : y < x => <<y, x>> \in R
    BY <2>1, <2>3 DEF OpToRel
  <2>6. \A y \in H : ~(y < x)
    BY <2>4, <2>5
  <2>7. \A y \in H : x <= y
    BY <2>3, <2>6
  <2> QED
    BY <2>7
<1>8. PICK m : m = FirstHit(t, p)
  OBVIOUS
<1>9. m \in H /\ \A j \in H : m <= j
  BY <1>5, <1>7, <1>8, Zenon DEF FirstHit
<1>10. m \in 1..9 /\ p \in r[m].match /\ \A j \in 1..9 : j < m => p \notin r[j].match
  BY <1>4, <1>9
<1>11. r[m].target = Policy(s, p)
  <2>1. CASE m = 1
    BY <1>2, <1>3, <1>10, <2>1 DEF Policy
  <2>2. CASE m = 2
    BY <1>2, <1>3, <1>10, <2>2 DEF Policy
  <2>3. CASE m = 3
    BY <1>2, <1>3, <1>10, <2>3 DEF Policy
  <2>4. CASE m = 4
    BY <1>2, <1>3, <1>10, <2>4 DEF Policy
  <2>5. CASE m = 5
    BY <1>2, <1>3, <1>10, <2>5 DEF Policy
  <2>6. CASE m = 6
    BY <1>2, <1>3, <1>10, <2>6 DEF Policy
  <2>7. CASE m = 7
    BY <1>2, <1>3, <1>10, <2>7 DEF Policy
  <2>8. CASE m = 8
    BY <1>2, <1>3, <1>10, <2>8 DEF Policy
  <2>9. CASE m = 9
    BY <1>2, <1>3, <1>10, <2>9 DEF Policy
  <2> QED
    BY <1>10, <2>1, <2>2, <2>3, <2>4, <2>5, <2>6, <2>7, <2>8, <2>9
<1> QED
  BY <1>1, <1>5, <1>6, <1>8, <1>11

\* The jump to WHISK-FIREWALL comes before any rule of another party.
LEMMA JumpAhead ==
  ASSUME NEW t, TableOK(t), NEW s, NEW chain \in {"FORWARD", "INPUT"}
  PROVE  \E i \in DOMAIN reconcile(t, s)[chain] :
           /\ reconcile(t, s)[chain][i] = Whisk
           /\ \A j \in 1..i : reconcile(t, s)[chain][j] \notin {Foreign, Namesake}
<1>1. PICK c : c = reconcile(t, s)[chain]
  OBVIOUS
<1>2. reconcile(t, s)["FORWARD"] = ForwardOf(t) /\ reconcile(t, s)["INPUT"] = InputOf(t)
  BY DesiredTable
<1>3. PICK f : f = Without(t["FORWARD"], {Whisk, PerContainer, Namesake})
  OBVIOUS
<1>4. PICK i : i = Without(t["INPUT"], {Whisk, Namesake})
  OBVIOUS
<1>5. f \in Seq({Foreign}) /\ i \in Seq({Foreign})
  BY <1>3, <1>4, KeptForeign
<1>6. Whisk \notin {Foreign, Namesake} /\ PerContainer \notin {Foreign, Namesake}
  BY DEF Whisk, PerContainer, Foreign, Namesake
<1>7. CASE chain = "FORWARD"
  <2>1. c = <<PerContainer>> \o (<<Whisk>> \o f)
    BY <1>1, <1>2, <1>3, <1>7 DEF ForwardOf
  <2>2. PICK w : w = <<Whisk>> \o f
    OBVIOUS
  <2>3. w \in Seq({Whisk, Foreign, Namesake}) /\ w[1] = Whisk /\ Len(w) >= 1
    BY <1>5, <2>2
  <2>4. 2 \in DOMAIN c /\ c[1] = PerContainer /\ c[2] = Whisk
    BY <2>1, <2>2, <2>3
  <2> QED
    BY <1>1, <1>6, <2>4
<1>8. CASE chain = "INPUT"
  <2>1. c = <<Whisk>> \o i
    BY <1>1, <1>2, <1>4, <1>8 DEF InputOf
  <2>2. 1 \in DOMAIN c /\ c[1] = Whisk
    BY <1>5, <2>1
  <2> QED
    BY <1>1, <1>6, <2>2
<1> QED
  BY <1>7, <1>8

\* Whatever table was read, what is written enforces the policy of the objects read.
LEMMA DesiredEnforces ==
  ASSUME NEW t, TableOK(t), NEW s
  PROVE  Enforces(reconcile(t, s), s)
<1> SUFFICES ASSUME NEW chain \in {"FORWARD", "INPUT"}, NEW p \in Packets
             PROVE  Verdict(reconcile(t, s), chain, p) = Policy(s, p)
  BY DEF Enforces
<1>1. PICK u : u = reconcile(t, s)
  OBVIOUS
<1>2. Rules(u) = FirewallRules(s)
  BY <1>1, DesiredTable DEF Rules
<1>3. Hits(u, p) # {} /\ Rules(u)[FirstHit(u, p)].target = Policy(s, p)
  BY <1>2, RulesDecide
<1>4. PICK i \in DOMAIN u[chain] : u[chain][i] = Whisk /\ \A j \in 1..i : u[chain][j] \notin {Foreign, Namesake}
  BY <1>1, JumpAhead
<1>5. {k \in {n \in DOMAIN u[chain] : u[chain][n] = Whisk} : \A j \in 1..k : u[chain][j] \notin {Foreign, Namesake}} # {}
  BY <1>4
<1>6. Verdict(u, chain, p) = Policy(s, p)
  BY <1>3, <1>5, Zenon DEF Verdict
<1> QED
  BY <1>1, <1>6

\* The policy looks at the four objects only.
LEMMA SamePolicy ==
  ASSUME NEW t, NEW r, NEW s, \A o \in ObjectSet : r[o] = s[o], Enforces(t, r)
  PROVE  Enforces(t, s)
<1>1. r["nodes"] = s["nodes"] /\ r["api"] = s["api"] /\ r["dns"] = s["dns"] /\ r["pods"] = s["pods"]
  BY DEF ObjectSet, Objects
<1>2. \A p : Policy(r, p) = Policy(s, p)
  BY <1>1 DEF Policy
<1> QED
  BY <1>2 DEF Enforces

--------------------------------------------------------------------------------
(* The inductive invariant.                                                      *)

\* The objects are read in this order, and each has an informer.
LEMMA ObjectFacts ==
  /\ DOMAIN Objects = 1..4 /\ Len(Objects) = 4
  /\ Objects[1] = "nodes" /\ Objects[2] = "api" /\ Objects[3] = "dns" /\ Objects[4] = "pods"
  /\ ObjectSet = {"nodes", "api", "dns", "pods"}
  /\ \A o \in ObjectSet : InformerOf[o] \in Informers
<1>1. DOMAIN Objects = 1..4 /\ Len(Objects) = 4
  BY DEF Objects
<1>2. Objects[1] = "nodes" /\ Objects[2] = "api" /\ Objects[3] = "dns" /\ Objects[4] = "pods"
  BY DEF Objects
<1>3. ObjectSet = {"nodes", "api", "dns", "pods"}
  BY <1>1, <1>2 DEF ObjectSet
<1>4. \A o \in ObjectSet : InformerOf[o] \in Informers
  BY DEF InformerOf, Informers
<1> QED
  BY <1>1, <1>2, <1>3, <1>4

\* The filter decides on every event.
LEMMA FilterDecides ==
  ASSUME NEW i, NEW n \in NoticeSet
  PROVE  Filter(i, n) \in BOOLEAN
  BY DEF Filter, NoticeSet

\* An event of an object of interest gets through the filter.
LEMMA FilterPasses ==
  ASSUME NEW i, NEW event \in {"add", "update", "delete", "tombstone"}
  PROVE  Notice(event, TRUE, TRUE) \in NoticeSet /\ Filter(i, Notice(event, TRUE, TRUE))
  BY DEF Filter, Notice, NoticeSet

\* Rules of another party in front leave a table a table.
LEMMA InsertedTable ==
  ASSUME NEW t, TableOK(t), NEW chain \in {"FORWARD", "INPUT"}, NEW rule \in {Foreign, Namesake}
  PROVE  TableOK(Insert(t, chain, rule))
<1>1. PICK u : u = Insert(t, chain, rule)
  OBVIOUS
<1>2. u = [t EXCEPT ![chain] = <<rule>> \o t[chain]]
  BY <1>1 DEF Insert
<1>3. /\ t = [c \in DOMAIN t |-> t[c]]
      /\ {"FORWARD", "INPUT"} \subseteq DOMAIN t /\ DOMAIN t \subseteq Chains
      /\ t["FORWARD"] \in Seq(AnyRule) /\ t["INPUT"] \in Seq({Whisk, Foreign, Namesake})
      /\ "PER-CONTAINER-FIREWALL" \in DOMAIN t => t["PER-CONTAINER-FIREWALL"] \in Seq(AnyRule)
  BY DEF TableOK
<1>4. <<rule>> \o t["FORWARD"] \in Seq(AnyRule) /\ <<rule>> \o t["INPUT"] \in Seq({Whisk, Foreign, Namesake})
  BY <1>3 DEF AnyRule
<1>5. u = [c \in DOMAIN u |-> u[c]] /\ DOMAIN u = DOMAIN t
  BY <1>2
<1>6. /\ u["FORWARD"] = IF chain = "FORWARD" THEN <<rule>> \o t["FORWARD"] ELSE t["FORWARD"]
      /\ u["INPUT"] = IF chain = "INPUT" THEN <<rule>> \o t["INPUT"] ELSE t["INPUT"]
      /\ u["PER-CONTAINER-FIREWALL"] = t["PER-CONTAINER-FIREWALL"]
  BY <1>2, <1>3
<1>7. u["FORWARD"] \in Seq(AnyRule) /\ u["INPUT"] \in Seq({Whisk, Foreign, Namesake})
  BY <1>3, <1>4, <1>6
<1>8. TableOK(u)
  BY <1>3, <1>5, <1>6, <1>7 DEF TableOK
<1> QED
  BY <1>1, <1>8

\* The table of a fresh node.
LEMMA FreshTableOK == TableOK(FreshTable)
<1>1. FreshTable["FORWARD"] = <<Foreign>> /\ FreshTable["INPUT"] = <<Foreign>>
  BY DEF FreshTable
<1>2. DOMAIN FreshTable = {"FORWARD", "INPUT"} /\ FreshTable = [chain \in DOMAIN FreshTable |-> FreshTable[chain]]
  BY DEF FreshTable
<1>3. <<Foreign>> \in Seq(AnyRule) /\ <<Foreign>> \in Seq({Whisk, Foreign, Namesake})
  BY DEF AnyRule
<1> QED
  BY <1>1, <1>2, <1>3 DEF TableOK, Chains

\* What the informers announce at the start.
LEMMA InitialAddsOK == InitialAdds \in [Informers -> Seq(NoticeSet)]
<1>1. PICK n : n = [event |-> "add", initial |-> TRUE, relevant |-> TRUE, changed |-> TRUE]
  OBVIOUS
<1>2. n \in NoticeSet
  BY <1>1 DEF NoticeSet
<1>3. <<n>> \in Seq(NoticeSet) /\ <<>> \in Seq(NoticeSet)
  BY <1>2
<1> QED
  BY <1>1, <1>3 DEF InitialAdds

\* The first reconciliation has yet to read and to succeed.
LEMMA InitInv == Init => IInv
<1> SUFFICES ASSUME Init PROVE IInv
  OBVIOUS
<1> USE FirewallAssumption
<1>1. at = "nodes"
  BY ObjectFacts DEF Init
<1>2. TableOK(iptables)
  <2>1. TableOK(reconcile(FreshTable, NoSnapshot))
    BY FreshTableOK, DesiredTableOK
  <2>2. TableOK(Insert(reconcile(FreshTable, NoSnapshot), "FORWARD", Foreign))
    BY <2>1, InsertedTable
  <2> QED
    BY <2>1, <2>2, FreshTableOK DEF Init
<1>3. TypeOK
  <2>1. {"FORWARD", "INPUT"} \subseteq DOMAIN iptables
    BY <1>2 DEF TableOK
  <2>2. \A o \in ObjectSet : cache[o] \in Values[o]
    BY DEF Init
  <2> QED
    BY <1>1, <2>1, <2>2, ObjectFacts DEF Init, TypeOK
<1>4. Shapes
  <2>1. cache = [o \in ObjectSet |-> cache[o]]
    BY DEF Init
  <2>2. snapshot = [o \in ObjectSet |-> snapshot[o]]
    BY DEF Init, NoSnapshot
  <2>3. notices \in [Informers -> Seq(NoticeSet)]
    BY InitialAddsOK DEF Init
  <2> QED
    BY <1>1, <1>2, <2>1, <2>2, <2>3 DEF Shapes
<1>5. \A i \in DOMAIN Objects : ~HasRead(i)
  BY <1>1, ObjectFacts DEF HasRead
<1>6. Current
  BY <1>5 DEF Current
<1>7. Settled
  BY <1>1 DEF Settled
<1> QED
  BY <1>3, <1>4, <1>6, <1>7 DEF IInv

--------------------------------------------------------------------------------
(* One lemma per action.                                                         *)

\* While objects, snapshot, place and table stay, what is coming only has to remain so.
LEMMA StillComing ==
  ASSUME IInv, TypeOK', Shapes', Coming => Coming',
         UNCHANGED <<cache, at, snapshot, iptables, failed, disturbed>>
  PROVE  IInv'
<1>1. \A i : HasRead(i)' <=> HasRead(i)
  BY DEF HasRead
<1>2. Current'
  BY <1>1 DEF IInv, Current
<1>3. Settled'
  BY DEF IInv, Settled
<1> QED
  BY <1>2, <1>3 DEF IInv

\* At the first object nothing has been read, and nothing is claimed of the table.
LEMMA Restarted ==
  ASSUME TypeOK', Shapes', at' = "nodes" \/ (at' = "waiting" /\ failed')
  PROVE  IInv'
<1>1. \A i \in DOMAIN Objects : ~HasRead(i)'
  BY ObjectFacts DEF HasRead
<1>2. Current'
  BY <1>1 DEF Current
<1>3. Settled'
  BY DEF Settled
<1> QED
  BY <1>2, <1>3 DEF IInv

\* An object changes: the event gets through the filter, so that a reconciliation follows.
LEMMA ChangeStep ==
  ASSUME IInv, NEW o \in ObjectSet, Change(o)
  PROVE  IInv'
<1> DEFINE i == InformerOf[o]
<1>1. PICK v \in Values[o], event \in {"add", "update", "delete", "tombstone"} :
        /\ cache' = [cache EXCEPT ![o] = v]
        /\ notices' = [notices EXCEPT ![i] = Append(@, Notice(event, TRUE, TRUE))]
  BY DEF Change, Noticed, EventsOf, NodeEventsOf
<1>2. UNCHANGED <<firewallPoke, at, started, snapshot, current, iptables, failed, disturbed>>
  BY DEF Change, loop
<1>3. PICK n : n = Notice(event, TRUE, TRUE)
  OBVIOUS
<1>4. n \in NoticeSet /\ Filter(i, n) /\ i \in Informers
  BY <1>3, FilterPasses, ObjectFacts
<1>5. notices \in [Informers -> Seq(NoticeSet)]
  BY DEF IInv, Shapes
<1>6. PICK q : q = notices[i]
  OBVIOUS
<1>7. q \in Seq(NoticeSet)
  BY <1>4, <1>5, <1>6
<1>8. Append(q, n) \in Seq(NoticeSet) /\ Len(q) + 1 \in DOMAIN Append(q, n) /\ Append(q, n)[Len(q) + 1] = n
  BY <1>4, <1>7
<1>9. notices' \in [Informers -> Seq(NoticeSet)] /\ notices'[i] = Append(q, n)
  BY <1>1, <1>3, <1>4, <1>5, <1>6, <1>8
<1>10. Coming'
  <2>1. Len(q) + 1 \in DOMAIN notices'[i] /\ Filter(i, notices'[i][Len(q) + 1])
    BY <1>4, <1>8, <1>9
  <2> QED
    BY <1>4, <2>1 DEF Coming
<1>11. cache' = [x \in ObjectSet |-> cache'[x]] /\ \A x \in ObjectSet : cache'[x] \in Values[x]
  <2>1. cache = [x \in ObjectSet |-> cache[x]] /\ \A x \in ObjectSet : cache[x] \in Values[x]
    BY DEF IInv, Shapes, TypeOK
  <2>2. cache' = [x \in ObjectSet |-> IF x = o THEN v ELSE cache[x]]
    BY <1>1, <2>1
  <2> QED
    BY <2>1, <2>2
<1>12. TypeOK'
  BY <1>2, <1>11 DEF IInv, TypeOK
<1>13. Shapes'
  BY <1>2, <1>9, <1>11 DEF IInv, Shapes
<1>14. Current'
  BY <1>10 DEF Current
<1>15. Settled'
  BY <1>10 DEF Settled
<1> QED
  BY <1>12, <1>13, <1>14, <1>15 DEF IInv

\* Other events join the queue of their informer.
LEMMA NoiseStep ==
  ASSUME IInv, NEW i \in Informers, Noise(i)
  PROVE  IInv'
<1>1. PICK n : n = Notice("update", i = "node", FALSE)
  OBVIOUS
<1>2. notices' = [notices EXCEPT ![i] = Append(@, n)]
  BY <1>1 DEF Noise, Noticed
<1>3. UNCHANGED <<cache, firewallPoke, at, started, snapshot, current, iptables, failed, disturbed>>
  BY DEF Noise, loop
<1>4. n \in NoticeSet
  BY <1>1 DEF Notice, NoticeSet
<1>5. notices \in [Informers -> Seq(NoticeSet)]
  BY DEF IInv, Shapes
<1>6. Append(notices[i], n) \in Seq(NoticeSet)
  BY <1>4, <1>5
<1>7. notices' \in [Informers -> Seq(NoticeSet)]
  BY <1>2, <1>5, <1>6
<1>8. \A j \in Informers : \A k \in DOMAIN notices[j] : k \in DOMAIN notices'[j] /\ notices'[j][k] = notices[j][k]
  <2> SUFFICES ASSUME NEW j \in Informers, NEW k \in DOMAIN notices[j]
               PROVE  k \in DOMAIN notices'[j] /\ notices'[j][k] = notices[j][k]
    BY Zenon
  <2>1. notices[j] \in Seq(NoticeSet)
    BY <1>5
  <2>2. k \in DOMAIN Append(notices[j], n) /\ Append(notices[j], n)[k] = notices[j][k]
    BY <1>4, <2>1
  <2>3. notices'[j] = IF j = i THEN Append(notices[j], n) ELSE notices[j]
    BY <1>2, <1>5
  <2> QED
    BY <2>2, <2>3
<1>9. Coming => Coming'
  BY <1>3, <1>8 DEF Coming
<1>10. TypeOK' /\ Shapes'
  BY <1>3, <1>7 DEF IInv, TypeOK, Shapes
<1> QED
  BY <1>3, <1>9, <1>10, StillComing

\* An event that is handled becomes a poke if it gets through the filter.
LEMMA HandleStep ==
  ASSUME IInv, NEW i \in Informers, Handle(i)
  PROVE  IInv'
<1>1. /\ notices[i] # <<>> /\ notices' = [notices EXCEPT ![i] = Tail(@)]
      /\ firewallPoke' = (firewallPoke \/ Filter(i, Head(notices[i])))
  BY DEF Handle
<1>2. UNCHANGED <<cache, at, started, snapshot, current, iptables, failed, disturbed>>
  BY DEF Handle, loop
<1>3. notices \in [Informers -> Seq(NoticeSet)] /\ firewallPoke \in BOOLEAN
  BY DEF IInv, Shapes, TypeOK
<1>4. PICK q : q = notices[i]
  OBVIOUS
<1>5. q \in Seq(NoticeSet) /\ q # <<>>
  BY <1>1, <1>3, <1>4
<1>6. /\ Tail(q) \in Seq(NoticeSet) /\ Head(q) = q[1] /\ Head(q) \in NoticeSet
      /\ DOMAIN Tail(q) = 1..(Len(q) - 1) /\ \A k \in 1..(Len(q) - 1) : Tail(q)[k] = q[k + 1]
  BY <1>5
<1>7. notices' \in [Informers -> Seq(NoticeSet)] /\ notices'[i] = Tail(q)
  BY <1>1, <1>3, <1>4, <1>6
<1>8. \A j \in Informers : j # i => notices'[j] = notices[j]
  BY <1>1, <1>3
<1>9. Filter(i, Head(q)) \in BOOLEAN
  BY <1>6, FilterDecides
<1>10. firewallPoke' \in BOOLEAN
  BY <1>1, <1>3, <1>4, <1>9, Zenon
<1>11. firewallPoke => firewallPoke'
  BY <1>1
<1>12. ASSUME NEW j \in Informers, NEW k \in DOMAIN notices[j], Filter(j, notices[j][k]) PROVE Coming'
  <2>1. CASE j # i
    <3>1. k \in DOMAIN notices'[j] /\ Filter(j, notices'[j][k])
      BY <1>8, <1>12, <2>1
    <3> QED
      BY <3>1 DEF Coming
  <2>2. CASE j = i /\ k = 1
    <3>1. Filter(i, Head(notices[i]))
      BY <1>4, <1>6, <1>12, <2>2
    <3>2. firewallPoke'
      BY <1>1, <3>1
    <3> QED
      BY <3>2 DEF Coming
  <2>3. CASE j = i /\ k # 1
    <3>1. k - 1 \in 1..(Len(q) - 1) /\ (k - 1) + 1 = k
      BY <1>4, <1>5, <2>3
    <3>2. Tail(q)[k - 1] = q[k]
      BY <1>6, <3>1
    <3>3. k - 1 \in DOMAIN notices'[i] /\ notices'[i][k - 1] = notices[i][k]
      BY <1>4, <1>6, <1>7, <3>1, <3>2
    <3>4. Filter(i, notices'[i][k - 1])
      BY <1>12, <2>3, <3>3
    <3> QED
      BY <3>3, <3>4 DEF Coming
  <2> QED
    BY <2>1, <2>2, <2>3
<1>13. Coming => Coming'
  <2>1. firewallPoke => Coming'
    BY <1>11 DEF Coming
  <2> QED
    BY <1>12, <2>1 DEF Coming
<1>14. TypeOK' /\ Shapes'
  BY <1>2, <1>7, <1>10 DEF IInv, TypeOK, Shapes
<1> QED
  BY <1>2, <1>13, <1>14, StillComing

\* The loop starts a reconciliation, on a tick or on a poke that it takes.
LEMMA WakeStep ==
  ASSUME IInv, Tick \/ Wake
  PROVE  IInv'
<1>1. /\ at' = "nodes" /\ firewallPoke' \in BOOLEAN
      /\ UNCHANGED <<cache, notices, started, snapshot, current, iptables, failed, disturbed>>
  <2>1. CASE Tick
    BY <2>1, ObjectFacts DEF Tick, memory, IInv, TypeOK
  <2>2. CASE Wake
    BY <2>2, ObjectFacts DEF Wake
  <2> QED
    BY <2>1, <2>2
<1>2. TypeOK' /\ Shapes'
  BY <1>1, ObjectFacts DEF IInv, TypeOK, Shapes
<1> QED
  BY <1>1, <1>2, Restarted

\* A reconciliation that fails, on whatever table, leaves nothing claimed.
LEMMA FailsStep ==
  ASSUME IInv, Fails, UNCHANGED cache, TableOK(iptables'), disturbed' \in BOOLEAN
  PROVE  IInv'
<1>1. /\ at' = "nodes" \/ at' = "waiting"
      /\ failed' = TRUE /\ snapshot' = NoSnapshot
      /\ firewallPoke' \in BOOLEAN /\ started' \in BOOLEAN /\ notices' \in [Informers -> Seq(NoticeSet)]
  <2>1. CASE started
    BY <2>1 DEF Fails, IInv, TypeOK, Shapes
  <2>2. CASE ~started
    BY <2>2, ObjectFacts, InitialAddsOK DEF Fails, Starting
  <2> QED
    BY <2>1, <2>2
<1>2. snapshot' = [o \in ObjectSet |-> snapshot'[o]]
  BY <1>1 DEF NoSnapshot
<1>3. {"FORWARD", "INPUT"} \subseteq DOMAIN iptables'
  BY DEF TableOK
<1>4. TypeOK'
  BY <1>1, <1>3, ObjectFacts DEF IInv, TypeOK
<1>5. Shapes'
  BY <1>1, <1>2 DEF IInv, Shapes
<1> QED
  BY <1>1, <1>4, <1>5, Restarted

\* The process starts again.
LEMMA RestartStep ==
  ASSUME IInv, Restart
  PROVE  IInv'
<1>1. /\ at' = "nodes" /\ failed' = TRUE /\ snapshot' = NoSnapshot
      /\ firewallPoke' = FALSE /\ started' = FALSE /\ notices' \in [Informers -> Seq(NoticeSet)]
      /\ UNCHANGED <<cache, iptables, disturbed>>
  BY ObjectFacts, InitialAddsOK DEF Restart, Starting
<1>2. snapshot' = [o \in ObjectSet |-> snapshot'[o]]
  BY <1>1 DEF NoSnapshot
<1>3. TypeOK' /\ Shapes'
  BY <1>1, <1>2, ObjectFacts DEF IInv, TypeOK, Shapes
<1> QED
  BY <1>1, <1>3, Restarted

\* An object is read as the cache has it, or is missing.
LEMMA ReadStep ==
  ASSUME IInv, NEW i \in DOMAIN Objects, Read(i)
  PROVE  IInv'
<1>1. at = Objects[i] /\ UNCHANGED <<iptables, disturbed>>
  BY DEF Read
<1>2. CASE cache[Objects[i]] = Missing
  <2>1. Fails /\ UNCHANGED cache
    BY <1>2 DEF Read
  <2>2. TableOK(iptables') /\ disturbed' \in BOOLEAN
    BY <1>1 DEF IInv, Shapes, TypeOK
  <2> QED
    BY <2>1, <2>2, FailsStep
<1>3. CASE cache[Objects[i]] # Missing
  <2>1. /\ snapshot' = [snapshot EXCEPT ![Objects[i]] = cache[Objects[i]]]
        /\ at' = (IF i = 4 THEN "get" ELSE Objects[i + 1])
        /\ UNCHANGED <<cache, notices, firewallPoke, started, current, failed>>
    BY <1>3, ObjectFacts DEF Read, memory
  <2>2. i \in 1..4 /\ \A j \in 1..4 : Objects[j] \in ObjectSet /\ (Objects[j] = Objects[i] => j = i)
    BY ObjectFacts
  <2>3. snapshot = [o \in ObjectSet |-> snapshot[o]]
    BY DEF IInv, Shapes
  <2>4. snapshot' = [o \in ObjectSet |-> IF o = Objects[i] THEN cache[o] ELSE snapshot[o]]
    BY <2>1, <2>3
  <2>5. at' \in {"api", "dns", "pods", "get"}
    BY <2>1, <2>2, ObjectFacts
  <2>6. \A j \in 1..4 : HasRead(j)' => j = i \/ HasRead(j)
    BY <1>1, <2>1, <2>2, ObjectFacts DEF HasRead
  <2>7. Coming' <=> Coming
    BY <2>1 DEF Coming
  <2>8. TypeOK'
    BY <1>1, <2>1, <2>5, ObjectFacts DEF IInv, TypeOK
  <2>9. Shapes'
    <3>1. snapshot' = [o \in ObjectSet |-> snapshot'[o]]
      BY <2>4
    <3> QED
      BY <1>1, <2>1, <2>5, <3>1 DEF IInv, Shapes
  <2>10. Current'
    <3> SUFFICES ASSUME NEW j \in 1..4, HasRead(j)'
                 PROVE  snapshot'[Objects[j]] = cache'[Objects[j]] \/ Coming'
      BY ObjectFacts DEF Current
    <3>1. CASE j = i
      BY <2>1, <2>2, <2>4, <3>1
    <3>2. CASE j # i
      <4>1. HasRead(j)
        BY <2>6, <3>2
      <4>2. snapshot[Objects[j]] = cache[Objects[j]] \/ Coming
        BY <4>1, ObjectFacts DEF IInv, Current
      <4>3. snapshot'[Objects[j]] = snapshot[Objects[j]]
        BY <2>2, <2>4, <3>2
      <4> QED
        BY <2>1, <2>7, <4>2, <4>3
    <3> QED
      BY <3>1, <3>2
  <2>11. Settled'
    BY <2>5 DEF Settled
  <2> QED
    BY <2>8, <2>9, <2>10, <2>11 DEF IInv
<1> QED
  BY <1>2, <1>3

\* The table is read.
LEMMA GetStateStep ==
  ASSUME IInv, GetState
  PROVE  IInv'
<1>1. at = "get" /\ UNCHANGED <<cache, iptables, disturbed>>
  BY DEF GetState
<1>2. CASE Fails
  <2>1. TableOK(iptables') /\ disturbed' \in BOOLEAN
    BY <1>1 DEF IInv, Shapes, TypeOK
  <2> QED
    BY <1>1, <1>2, <2>1, FailsStep
<1>3. CASE ~Fails
  <2>1. current' = iptables /\ at' = "put" /\ UNCHANGED <<notices, firewallPoke, started, snapshot, failed>>
    BY <1>3 DEF GetState
  <2>2. TypeOK' /\ Shapes'
    BY <1>1, <2>1 DEF IInv, TypeOK, Shapes
  <2>3. \A j : HasRead(j)
    BY <1>1 DEF HasRead
  <2>4. Coming' <=> Coming
    BY <2>1 DEF Coming
  <2>5. Current'
    BY <1>1, <2>1, <2>3, <2>4 DEF IInv, Current
  <2>6. Settled'
    BY <2>1 DEF Settled
  <2> QED
    BY <2>2, <2>5, <2>6 DEF IInv
<1> QED
  BY <1>2, <1>3

\* The table is written, from objects of which each is as it was read or a reconciliation follows.
LEMMA WriteStateStep ==
  ASSUME IInv, WriteState
  PROVE  IInv'
<1>1. at = "put" /\ UNCHANGED cache
  BY DEF WriteState
<1>2. PICK u : u = reconcile(current, snapshot)
  OBVIOUS
<1>3. TableOK(current)
  BY <1>1 DEF IInv, Shapes
<1>4. TableOK(u)
  BY <1>2, <1>3, DesiredTableOK
<1>5. CASE Fails
  <2>1. TableOK(iptables') /\ disturbed' \in BOOLEAN
    BY <1>2, <1>4 DEF WriteState, Written, IInv, Shapes, TypeOK
  <2> QED
    BY <1>1, <1>5, <2>1, FailsStep
<1>6. CASE ~Fails
  <2>1. /\ iptables' = u /\ disturbed' = FALSE /\ failed' = FALSE /\ started' = TRUE
        /\ at' = "waiting" /\ snapshot' = NoSnapshot /\ UNCHANGED <<notices, firewallPoke>>
    BY <1>2, <1>6 DEF WriteState, Written
  <2>2. {"FORWARD", "INPUT"} \subseteq DOMAIN u
    BY <1>4 DEF TableOK
  <2>3. TypeOK'
    BY <1>1, <2>1, <2>2 DEF IInv, TypeOK
  <2>4. snapshot' = [o \in ObjectSet |-> snapshot'[o]]
    BY <2>1 DEF NoSnapshot
  <2>5. Shapes'
    BY <1>1, <1>4, <2>1, <2>4 DEF IInv, Shapes
  <2>6. \A i \in DOMAIN Objects : ~HasRead(i)'
    BY <2>1, ObjectFacts DEF HasRead
  <2>7. Current'
    BY <2>6 DEF Current
  <2>8. Coming' <=> Coming
    BY <2>1 DEF Coming
  <2>9. Coming \/ Enforces(u, cache)
    <3> SUFFICES ASSUME ~Coming PROVE Enforces(u, cache)
      OBVIOUS
    <3>1. \A i \in DOMAIN Objects : snapshot[Objects[i]] = cache[Objects[i]]
      BY <1>1 DEF IInv, Current, HasRead
    <3>2. \A o \in ObjectSet : snapshot[o] = cache[o]
      BY <3>1 DEF ObjectSet
    <3>3. Enforces(u, snapshot)
      BY <1>2, <1>3, DesiredEnforces
    <3> QED
      BY <3>2, <3>3, SamePolicy
  <2>10. Settled'
    BY <1>1, <2>1, <2>8, <2>9 DEF Settled
  <2> QED
    BY <2>3, <2>5, <2>7, <2>10 DEF IInv
<1> QED
  BY <1>5, <1>6

\* An exec hangs, with its table written or not; the process is not between reconciliations.
LEMMA HangStep ==
  ASSUME IInv, Hang
  PROVE  IInv'
<1>1. /\ at \in {"get", "put"} /\ at' = "hung"
      /\ UNCHANGED <<cache, notices, firewallPoke, started, snapshot, current, failed>>
  BY DEF Hang, memory
<1>2. TableOK(iptables') /\ disturbed' \in BOOLEAN
  <2>1. CASE UNCHANGED <<iptables, disturbed>>
    BY <2>1 DEF IInv, Shapes, TypeOK
  <2>2. CASE at = "put" /\ Written(reconcile(current, snapshot))
    <3>1. TableOK(current)
      BY <2>2 DEF IInv, Shapes
    <3>2. TableOK(reconcile(current, snapshot))
      BY <3>1, DesiredTableOK
    <3> QED
      BY <2>2, <3>2 DEF Written
  <2> QED
    BY <2>1, <2>2 DEF Hang
<1>3. {"FORWARD", "INPUT"} \subseteq DOMAIN iptables'
  BY <1>2 DEF TableOK
<1>4. TypeOK' /\ Shapes'
  BY <1>1, <1>2, <1>3 DEF IInv, TypeOK, Shapes
<1>5. \A i \in DOMAIN Objects : ~HasRead(i)'
  BY <1>1, ObjectFacts DEF HasRead
<1>6. Current' /\ Settled'
  BY <1>1, <1>5 DEF Current, Settled
<1> QED
  BY <1>4, <1>6 DEF IInv

\* Another party puts its rules in front, which is remembered until the next write.
LEMMA DisturbStep ==
  ASSUME IInv, Disturb
  PROVE  IInv'
<1>1. PICK chain \in {"FORWARD", "INPUT"}, rule \in {Foreign, Namesake} : iptables' = Insert(iptables, chain, rule)
  BY DEF Disturb
<1>2. disturbed' = TRUE /\ UNCHANGED <<cache, notices, firewallPoke, at, started, snapshot, current, failed>>
  BY DEF Disturb, memory, loop
<1>3. TableOK(iptables')
  BY <1>1, InsertedTable DEF IInv, Shapes
<1>4. {"FORWARD", "INPUT"} \subseteq DOMAIN iptables'
  BY <1>3 DEF TableOK
<1>5. TypeOK' /\ Shapes'
  BY <1>2, <1>3, <1>4 DEF IInv, TypeOK, Shapes
<1>6. Coming' <=> Coming
  BY <1>2 DEF Coming
<1>7. \A i : HasRead(i)' <=> HasRead(i)
  BY <1>2 DEF HasRead
<1>8. Current'
  BY <1>2, <1>6, <1>7 DEF IInv, Current
<1>9. Settled'
  BY <1>2 DEF Settled
<1> QED
  BY <1>5, <1>8, <1>9 DEF IInv

--------------------------------------------------------------------------------
(* The theorems.                                                                 *)

\* Every step of informers, reconciler, other parties and restarts keeps the invariant.
THEOREM FirewallInvariance == Spec => []IInv
<1>1. IInv /\ [Next]_vars => IInv'
  <2> SUFFICES ASSUME IInv, [Next]_vars PROVE IInv'
    OBVIOUS
  <2>1. CASE UNCHANGED vars
    <3>1. UNCHANGED <<cache, notices, firewallPoke, at, started, snapshot, current, iptables, failed, disturbed>>
      BY <2>1 DEF vars
    <3>2. TypeOK' /\ Shapes'
      BY <3>1 DEF IInv, TypeOK, Shapes
    <3>3. Coming => Coming'
      BY <3>1 DEF Coming
    <3> QED
      BY <3>1, <3>2, <3>3, StillComing
  <2>2. CASE \E o \in ObjectSet : Change(o)
    BY <2>2, ChangeStep
  <2>3. CASE \E i \in Informers : Noise(i) \/ Handle(i)
    BY <2>3, NoiseStep, HandleStep
  <2>4. CASE Tick \/ Wake
    BY <2>4, WakeStep
  <2>5. CASE Reconcile
    BY <2>5, ReadStep, GetStateStep, WriteStateStep DEF Reconcile
  <2>6. CASE Disturb
    BY <2>6, DisturbStep
  <2>7. CASE Restart
    BY <2>7, RestartStep
  <2>8. CASE Hang
    BY <2>8, HangStep
  <2> QED
    BY <2>1, <2>2, <2>3, <2>4, <2>5, <2>6, <2>7, <2>8 DEF Next
<1> QED
  BY InitInv, <1>1, PTL DEF Spec

\* Whatever events were filtered, pokes dropped and objects changed behind the read, a quiet firewall
\* whose last reconciliation succeeded enforces the policy of the objects as they are (Reconcile, main).
THEOREM AlwaysEnforcedWhenQuiet == Spec => []EnforcedWhenQuiet
<1>1. IInv => EnforcedWhenQuiet
  <2> SUFFICES ASSUME IInv PROVE EnforcedWhenQuiet
    OBVIOUS
  <2>1. TypeOK
    BY DEF IInv
  <2>2. ASSUME at = "waiting", ~firewallPoke, \A i \in Informers : notices[i] = <<>>, ~failed, ~disturbed
        PROVE  Enforces(iptables, cache)
    <3>1. DOMAIN <<>> = {}
      OBVIOUS
    <3>2. ~Coming
      BY <2>2, <3>1 DEF Coming
    <3> QED
      BY <2>2, <3>2 DEF IInv, Settled
  <2> QED
    BY <2>1, <2>2 DEF EnforcedWhenQuiet
<1> QED
  BY <1>1, FirewallInvariance, PTL

\* On every table the node can have, a second reconciliation changes nothing and the rules of other
\* parties stay, in their order (reconcile).
THEOREM AlwaysIdempotent == Spec => []Idempotent
<1>1. IInv => Idempotent
  BY TableIdempotent DEF IInv, Shapes
<1> QED
  BY <1>1, FirewallInvariance, PTL

================================================================================
