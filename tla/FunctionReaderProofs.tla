-------------------------- MODULE FunctionReaderProofs --------------------------
(******************************************************************************)
(* The function cache in front of the database client, for any number of        *)
(* callers, functions and entries: nobody replaces an entry of the cache        *)
(* (SingleFlight), no failure is cached (NoFailureCached), and the HTTP         *)
(* client is only replaced when it is too old (RenewedOnlyWhenOld).  That a     *)
(* removal by key removes the entry that has failed rests on a key being cached *)
(* once (Unique), and that an entry can be added rests on the number of entries *)
(* somebody refers to (FreeEntry).                                              *)
(******************************************************************************)
EXTENDS FunctionReader, SequenceTheorems, FiniteSetTheorems, TLAPS

\* What a caller has at each place of GetFunction.
CallerOK(p) ==
  /\ pc[p] # "idle" => want[p] \in Keys
  /\ entry[p] # None <=> pc[p] \in {"call", "fetch"}
\* No two entries of c are under one key.
Unique(c, ks) == \A i, j \in DOMAIN c : ks[c[i]] = ks[c[j]] => i = j

CacheInv ==
  /\ TypeOK
  /\ \A p \in Callers : CallerOK(p)
  /\ Unique(cache, keyOf)
  /\ \A p \in Callers : pc[p] = "add" => Cached(want[p]) = {}
  /\ NoFailureCached

--------------------------------------------------------------------------------
(* The LRU cache.                                                               *)

(* The cache without one of its entries.                                        *)
LEMMA WithoutOne ==
  ASSUME cache \in Seq(Entries), Len(cache) <= Size, NEW i \in DOMAIN cache, Unique(cache, keyOf)
  PROVE  /\ Without(i) \in Seq(Entries) /\ Len(Without(i)) = Len(cache) - 1 /\ Len(Without(i)) < Size
         /\ Unique(Without(i), keyOf)
         /\ \A e \in Range(Without(i)) : e \in Range(cache) /\ keyOf[e] # keyOf[cache[i]]
<1> DEFINE t == Without(i)
<1>1. Len(cache) \in Nat /\ i \in 1..Len(cache) /\ DOMAIN cache = 1..Len(cache) /\ Size \in Nat
  BY CacheAssumption
<1>2. \A j \in 1..Len(cache) : cache[j] \in Entries
  BY <1>1
<1>3. PICK front, back : front = SubSeq(cache, 1, i - 1) /\ back = SubSeq(cache, i + 1, Len(cache))
  OBVIOUS
<1>4. /\ front \in Seq(Entries) /\ Len(front) = i - 1 /\ \A j \in 1..(i - 1) : front[j] = cache[j]
      /\ back \in Seq(Entries) /\ Len(back) = Len(cache) - i /\ \A j \in 1..(Len(cache) - i) : back[j] = cache[j + i]
  <2>1. /\ front \in Seq(Entries) /\ Len(front) = i - 1 /\ \A j \in 1..(i - 1) : front[j] = cache[j]
    BY <1>1, <1>2, <1>3, SubSeqProperties
  <2>2. /\ back \in Seq(Entries) /\ Len(back) = Len(cache) - i
        /\ \A j \in 1..(Len(cache) - i) : back[j] = cache[j + i]
    BY <1>1, <1>2, <1>3, SubSeqProperties
  <2> QED
    BY <2>1, <2>2
<1>5. /\ t \in Seq(Entries) /\ Len(t) = Len(cache) - 1 /\ DOMAIN t = 1..(Len(cache) - 1)
      /\ \A j \in 1..(Len(cache) - 1) : t[j] = IF j < i THEN cache[j] ELSE cache[j + 1]
  <2>1. t = front \o back
    BY <1>3 DEF Without
  <2> HIDE DEF t
  <2>2. t \in Seq(Entries) /\ Len(t) = Len(front) + Len(back)
    BY <1>4, <2>1, ConcatProperties
  <2>3. Len(t) = Len(cache) - 1
    BY <1>1, <1>4, <2>2
  <2>4. \A j \in 1..Len(t) : t[j] = IF j <= Len(front) THEN front[j] ELSE back[j - Len(front)]
    <3>1. \A j \in 1..(Len(front) + Len(back)) :
            (front \o back)[j] = IF j <= Len(front) THEN front[j] ELSE back[j - Len(front)]
      BY <1>4, ConcatProperties
    <3> QED
      BY <2>1, <2>2, <3>1
  <2>5. ASSUME NEW j \in 1..(Len(cache) - 1) PROVE t[j] = IF j < i THEN cache[j] ELSE cache[j + 1]
    <3>1. CASE j < i
      BY <1>1, <1>4, <2>3, <2>4, <3>1
    <3>2. CASE ~(j < i)
      <4>1. j - (i - 1) \in 1..(Len(cache) - i) /\ (j - (i - 1)) + i = j + 1
        BY <1>1, <3>2
      <4>2. t[j] = back[j - (i - 1)]
        BY <1>1, <1>4, <2>3, <2>4, <3>2
      <4> QED
        BY <1>4, <3>2, <4>1, <4>2
    <3> QED
      BY <3>1, <3>2
  <2> QED
    BY <2>2, <2>3, <2>5
<1> HIDE DEF t
<1> DEFINE origin(j) == IF j < i THEN j ELSE j + 1
<1>6. \A j \in DOMAIN t : origin(j) \in DOMAIN cache /\ t[j] = cache[origin(j)] /\ origin(j) # i
  BY <1>1, <1>5
<1>7. \A j, l \in DOMAIN t : origin(j) = origin(l) => j = l
  BY <1>1, <1>5
<1> HIDE DEF origin
<1>8. Unique(t, keyOf)
  BY <1>6, <1>7 DEF Unique
<1>9. \A e \in Range(t) : e \in Range(cache) /\ keyOf[e] # keyOf[cache[i]]
  BY <1>6 DEF Unique, Range
<1> QED
  BY <1>1, <1>5, <1>8, <1>9 DEF t

(* An entry is appended under a key that is not there.                          *)
LEMMA AppendUnique ==
  ASSUME NEW c \in Seq(Entries), NEW e \in Entries, NEW ks, NEW ks2, Unique(c, ks),
         \A x \in Range(c) : ks2[x] = ks[x] /\ ks2[x] # ks2[e]
  PROVE  /\ Append(c, e) \in Seq(Entries) /\ Len(Append(c, e)) = Len(c) + 1
         /\ Unique(Append(c, e), ks2) /\ Range(Append(c, e)) = Range(c) \cup {e}
<1> DEFINE t == Append(c, e)
<1>1. /\ Len(c) \in Nat /\ DOMAIN c = 1..Len(c) /\ DOMAIN t = 1..(Len(c) + 1)
      /\ t \in Seq(Entries) /\ Len(t) = Len(c) + 1
      /\ \A i \in DOMAIN c : t[i] = c[i]
      /\ t[Len(c) + 1] = e
  OBVIOUS
<1> HIDE DEF t
<1>2. \A i \in DOMAIN t : (i \in DOMAIN c /\ t[i] = c[i]) \/ (i = Len(c) + 1 /\ t[i] = e)
  BY <1>1
<1>3. \A i \in DOMAIN c : ks2[c[i]] = ks[c[i]] /\ ks2[c[i]] # ks2[e]
  BY DEF Range
<1>4. Unique(t, ks2)
  BY <1>1, <1>2, <1>3 DEF Unique
<1>5. Range(t) \subseteq Range(c) \cup {e}
  BY <1>1, <1>2 DEF Range
<1>6. Range(c) \cup {e} \subseteq Range(t)
  BY <1>1 DEF Range
<1> QED
  BY <1>1, <1>4, <1>5, <1>6 DEF t

(* The longest unused entry gives way.                                          *)
LEMMA TailUnique ==
  ASSUME NEW c \in Seq(Entries), c # <<>>, NEW ks, Unique(c, ks)
  PROVE  /\ Tail(c) \in Seq(Entries) /\ Len(Tail(c)) = Len(c) - 1
         /\ Unique(Tail(c), ks) /\ Range(Tail(c)) \subseteq Range(c)
<1> DEFINE t == Tail(c)
<1>1. /\ t \in Seq(Entries) /\ Len(t) = Len(c) - 1 /\ Len(c) \in Nat
      /\ DOMAIN t = 1..(Len(c) - 1) /\ DOMAIN c = 1..Len(c)
      /\ \A i \in 1..(Len(c) - 1) : t[i] = c[i + 1]
  OBVIOUS
<1> HIDE DEF t
<1>2. \A i \in DOMAIN t : i \in Int /\ i + 1 \in DOMAIN c /\ t[i] = c[i + 1]
  BY <1>1
<1>3. \A i, j \in DOMAIN t : ks[t[i]] = ks[t[j]] => i + 1 = j + 1
  BY <1>2 DEF Unique
<1>4. Unique(t, ks)
  BY <1>2, <1>3 DEF Unique
<1>5. Range(t) \subseteq Range(c)
  BY <1>2 DEF Range
<1> QED
  BY <1>1, <1>4, <1>5 DEF t

(* What is cached under a key.                                                  *)
LEMMA CachedOf ==
  ASSUME NEW k
  PROVE  Cached(k) = {e \in Range(cache) : keyOf[e] = k}
  BY DEF Cached, Places, Range

(* While a caller is about to add, some entry is referred to by nobody: the cache   *)
(* holds at most Size, and the callers but this one at most one each.               *)
LEMMA FreeEntry ==
  ASSUME CacheInv, NEW p \in Callers, pc[p] = "add"
  PROVE  NewEntry \in Entries /\ NewEntry \notin Range(cache) /\ \A q \in Callers : NewEntry # entry[q]
<1>1. TypeOK /\ entry[p] = None /\ Len(cache) \in Nat /\ Len(cache) <= Size
  BY DEF CacheInv, TypeOK, CallerOK
<1>2. PICK A, B : A = Range(cache) /\ B = {entry[q] : q \in Callers \ {p}}
  OBVIOUS
<1>3. IsFiniteSet(A) /\ Cardinality(A) <= Len(cache)
  <2>1. IsFiniteSet(1..Len(cache)) /\ Cardinality(1..Len(cache)) = Len(cache)
    BY <1>1, FS_Interval
  <2>2. cache \in [1..Len(cache) -> A] /\ \A e \in A : \E i \in 1..Len(cache) : cache[i] = e
    BY <1>1, <1>2 DEF Range, TypeOK
  <2>3. cache \in Surjection(1..Len(cache), A)
    BY <2>2 DEF Surjection
  <2> QED
    BY <2>1, <2>3, FS_Surjection
<1>4. IsFiniteSet(B) /\ Cardinality(B) <= Cardinality(Callers) - 1 /\ Cardinality(Callers) \in Nat
  <2>1. /\ IsFiniteSet(Callers \ {p}) /\ Cardinality(Callers \ {p}) = Cardinality(Callers) - 1
        /\ Cardinality(Callers) \in Nat
    BY CacheAssumption, FS_RemoveElement, FS_CardinalityType
  <2>2. PICK f : f = [q \in Callers \ {p} |-> entry[q]]
    OBVIOUS
  <2>3. f \in Surjection(Callers \ {p}, B)
    BY <1>2, <2>2 DEF Surjection
  <2>4. IsFiniteSet(B) /\ Cardinality(B) <= Cardinality(Callers \ {p})
    BY <2>1, <2>3, FS_Surjection
  <2> QED
    BY <2>1, <2>4
<1>5. IsFiniteSet(A \cup B) /\ Cardinality(A \cup B) <= Cardinality(A) + Cardinality(B)
  <2>1. IsFiniteSet(A \cap B)
    BY <1>3, FS_Subset
  <2>2. Cardinality(A) \in Nat /\ Cardinality(B) \in Nat /\ Cardinality(A \cap B) \in Nat
    BY <1>3, <1>4, <2>1, FS_CardinalityType
  <2>3. IsFiniteSet(A \cup B) /\ Cardinality(A \cup B) = Cardinality(A) + Cardinality(B) - Cardinality(A \cap B)
    BY <1>3, <1>4, FS_Union
  <2> QED
    BY <2>2, <2>3
<1>6. Cardinality(A \cup B) < Cardinality(Entries)
  <2>1. Cardinality(A) \in Nat /\ Cardinality(B) \in Nat /\ Cardinality(A \cup B) \in Nat /\ Cardinality(Entries) \in Nat
    BY <1>3, <1>4, <1>5, FS_CardinalityType, CacheAssumption
  <2>2. Size \in Nat /\ Cardinality(Entries) >= Cardinality(Callers) + Size
    BY CacheAssumption
  <2> QED
    BY <1>1, <1>3, <1>4, <1>5, <2>1, <2>2
<1>7. PICK e \in Entries : e \notin A \cup B
  <2> SUFFICES ASSUME Entries \in SUBSET (A \cup B) PROVE FALSE
    OBVIOUS
  <2>1. Cardinality(Entries) <= Cardinality(A \cup B)
    BY <1>5, FS_Subset
  <2>2. Cardinality(A \cup B) \in Nat /\ Cardinality(Entries) \in Nat
    BY <1>5, FS_CardinalityType, CacheAssumption
  <2> QED
    BY <1>6, <2>1, <2>2
<1>8. e # None
  BY CacheAssumption
<1>9. DOMAIN entry = Callers
  BY <1>1 DEF TypeOK
<1>10. e \notin Range(cache) \cup Range(entry)
  BY <1>1, <1>2, <1>7, <1>8, <1>9 DEF Range
<1>11. NewEntry \in Entries /\ NewEntry \notin Range(cache) \cup Range(entry)
  BY <1>10 DEF NewEntry
<1> QED
  BY <1>9, <1>11 DEF Range

--------------------------------------------------------------------------------
(* The steps of a caller.                                                       *)

(* The cache is empty at first.                                                 *)
LEMMA InitCacheInv == Init => CacheInv
<1> SUFFICES ASSUME Init PROVE CacheInv
  OBVIOUS
<1> USE CacheAssumption DEF Init
<1>1. TypeOK
  BY DEF TypeOK
<1>2. Unique(cache, keyOf) /\ NoFailureCached
  BY DEF Unique, NoFailureCached, Range
<1> QED
  BY <1>1, <1>2 DEF CacheInv, CallerOK

(* A step that leaves the cache and its keys alone, fails no cached entry and lets  *)
(* nobody add without looking.                                                     *)
LEMMA CacheFrame ==
  ASSUME CacheInv, TypeOK', \A p \in Callers : CallerOK(p)', UNCHANGED <<cache, keyOf>>,
         \A e \in Range(cache) : once'[e] = "failed" => once[e] = "failed",
         \A p \in Callers : pc'[p] = "add" => Cached(want'[p]) = {}
  PROVE  CacheInv'
  BY DEF CacheInv, Cached, Places, NoFailureCached

(* A lookup that finds the entry.                                               *)
LEMMA FoundStep ==
  ASSUME CacheInv, NEW p \in Callers, NEW k \in Keys, Found(p, k)
  PROVE  /\ cache' \in Seq(Entries) /\ Len(cache') <= Size /\ Unique(cache', keyOf)
         /\ \A e \in Range(cache') : e \in Range(cache)
         /\ \E e \in Entries : entry' = [entry EXCEPT ![p] = e]
<1>1. PICK i \in Places(k) : cache' = Append(Without(i), cache[i]) /\ entry' = [entry EXCEPT ![p] = cache[i]]
  BY DEF Found
<1>2. cache \in Seq(Entries) /\ Len(cache) <= Size /\ i \in DOMAIN cache /\ Unique(cache, keyOf)
  BY DEF CacheInv, TypeOK, Places
<1>3. PICK c, e : c = Without(i) /\ e = cache[i]
  OBVIOUS
<1>4. /\ c \in Seq(Entries) /\ Len(c) < Size /\ Unique(c, keyOf)
      /\ \A x \in Range(c) : x \in Range(cache) /\ keyOf[x] # keyOf[e]
  BY <1>2, <1>3, WithoutOne
<1>5. e \in Entries /\ e \in Range(cache) /\ Len(c) \in Nat /\ Size \in Nat
  BY <1>2, <1>3, <1>4, CacheAssumption DEF Range
<1>6. /\ Append(c, e) \in Seq(Entries) /\ Len(Append(c, e)) = Len(c) + 1
      /\ Unique(Append(c, e), keyOf) /\ Range(Append(c, e)) = Range(c) \cup {e}
  BY <1>4, <1>5, AppendUnique
<1>7. cache' = Append(c, e) /\ entry' = [entry EXCEPT ![p] = e]
  BY <1>1, <1>3
<1>8. Len(cache') <= Size
  BY <1>4, <1>5, <1>6, <1>7
<1>9. cache' \in Seq(Entries) /\ Unique(cache', keyOf) /\ \A x \in Range(cache') : x \in Range(cache)
  BY <1>4, <1>5, <1>6, <1>7
<1> QED
  BY <1>5, <1>7, <1>8, <1>9

(* Both lookups.                                                                *)
LEMMA LookupStep ==
  ASSUME CacheInv, NEW p \in Callers, Lock(p) \/ \E k \in Keys : GetFunction(p, k)
  PROVE  CacheInv'
<1>1. TypeOK /\ (\A q \in Callers : CallerOK(q)) /\ CacheInv
  BY DEF CacheInv
<1>2. PICK k \in Keys : \/ GetFunction(p, k)
                        \/ Lock(p) /\ want[p] = k
  BY <1>1 DEF Lock, Move, CallerOK
<1>3. /\ UNCHANGED <<keyOf, once>> /\ want' = [want EXCEPT ![p] = k]
      /\ pc[p] \in {"idle", "lock"} /\ pc[p] # "add"
    <2>1. CASE GetFunction(p, k)
      BY <2>1 DEF GetFunction, Move
    <2>2. CASE Lock(p) /\ want[p] = k
      BY <1>1, <2>2 DEF Lock, Move, TypeOK
    <2> QED
      BY <1>2, <2>1, <2>2
<1>4. CASE Found(p, k) /\ pc' = [pc EXCEPT ![p] = "call"] /\ UNCHANGED mux
  <2>1. /\ cache' \in Seq(Entries) /\ Len(cache') <= Size /\ Unique(cache', keyOf)
        /\ \A e \in Range(cache') : e \in Range(cache)
    BY <1>4, FoundStep
  <2>2. PICK e \in Entries : entry' = [entry EXCEPT ![p] = e]
    BY <1>4, FoundStep
  <2>3. TypeOK'
    BY <1>1, <1>3, <1>4, <2>1, <2>2 DEF TypeOK
  <2>4. \A q \in Callers : CallerOK(q)'
    BY <1>1, <1>3, <1>4, <2>2, CacheAssumption DEF CallerOK, TypeOK
  <2>5. (\A q \in Callers : pc[q] = "add" => Cached(want[q]) = {})'
    <3> SUFFICES ASSUME NEW q \in Callers, pc'[q] = "add" PROVE Cached(want[q])' = {}
      OBVIOUS
    <3>1. q # p /\ pc[q] = "add" /\ want'[q] = want[q]
      BY <1>1, <1>3, <1>4 DEF TypeOK
    <3>2. \A d \in Range(cache) : keyOf[d] # want[q]
      BY <3>1, CachedOf DEF CacheInv
    <3> QED
      BY <1>3, <2>1, <3>1, <3>2 DEF Cached, Places, Range
  <2>6. NoFailureCached'
    BY <1>1, <1>3, <2>1 DEF CacheInv, NoFailureCached
  <2> QED
    BY <1>3, <2>1, <2>3, <2>4, <2>5, <2>6 DEF CacheInv
<1>5. CASE /\ Cached(k) = {} /\ UNCHANGED <<cache, entry>>
           /\ \/ pc' = [pc EXCEPT ![p] = "lock"] /\ UNCHANGED mux
              \/ pc' = [pc EXCEPT ![p] = "add"] /\ mux = None /\ mux' = p
  <2>1. TypeOK'
    BY <1>1, <1>3, <1>5, CacheAssumption DEF TypeOK
  <2>2. \A q \in Callers : CallerOK(q)'
    BY <1>1, <1>3, <1>5 DEF CallerOK, TypeOK
  <2>3. \A q \in Callers : pc'[q] = "add" => Cached(want'[q]) = {}
    BY <1>1, <1>3, <1>5 DEF TypeOK, CacheInv
  <2> QED
    BY <1>3, <1>5, <2>1, <2>2, <2>3, CacheFrame
<1> QED
  BY <1>2, <1>4, <1>5 DEF GetFunction, Lock, Move

(* A caller adds a new entry.                                                   *)
LEMMA AddStep ==
  ASSUME CacheInv, NEW p \in Callers, Add(p)
  PROVE  CacheInv'
<1>1. TypeOK /\ (\A q \in Callers : CallerOK(q)) /\ Unique(cache, keyOf) /\ NoFailureCached
  BY DEF CacheInv
<1>2. pc[p] = "add" /\ want[p] \in Keys /\ mux = p /\ Size \in Nat \ {0}
  BY <1>1, CacheAssumption DEF Add, Move, CallerOK
<1>3. PICK e : e = NewEntry
  OBVIOUS
<1>4. e \in Entries /\ e \notin Range(cache) /\ (\A q \in Callers : e # entry[q]) /\ e # None
  BY <1>2, <1>3, FreeEntry, CacheAssumption
<1>5. /\ cache' = Added(e) /\ entry' = [entry EXCEPT ![p] = e] /\ mux' = None
      /\ keyOf' = [keyOf EXCEPT ![e] = want[p]] /\ once' = [once EXCEPT ![e] = "fresh"]
      /\ UNCHANGED want /\ pc' = [pc EXCEPT ![p] = "call"]
  BY <1>3 DEF Add, Move
<1>6. \A x \in Range(cache) : keyOf[x] # want[p]
  BY <1>2, CachedOf DEF CacheInv
<1>7. \A x \in Range(cache) : x \in Entries /\ x # e
  BY <1>1, <1>4 DEF TypeOK, Range
<1>8. \A x \in Range(cache) : keyOf'[x] = keyOf[x] /\ keyOf'[x] # keyOf'[e] /\ once'[x] = once[x]
  BY <1>1, <1>4, <1>5, <1>6, <1>7 DEF TypeOK
<1>9. /\ cache' \in Seq(Entries) /\ Len(cache') <= Size /\ Unique(cache', keyOf')
      /\ Range(cache') \subseteq Range(cache) \cup {e}
  <2>1. cache \in Seq(Entries) /\ Len(cache) \in Nat /\ Len(cache) <= Size
    BY <1>1 DEF TypeOK
  <2>2. CASE Len(cache) = Size
    <3>1. PICK c : c = Tail(cache)
      OBVIOUS
    <3>2. cache # <<>>
      BY <1>2, <2>1, <2>2
    <3>3. c \in Seq(Entries) /\ Len(c) = Len(cache) - 1 /\ Unique(c, keyOf) /\ Range(c) \subseteq Range(cache)
      BY <1>1, <2>1, <3>1, <3>2, TailUnique
    <3>4. /\ Append(c, e) \in Seq(Entries) /\ Len(Append(c, e)) = Len(c) + 1
          /\ Unique(Append(c, e), keyOf') /\ Range(Append(c, e)) = Range(c) \cup {e}
      BY <1>4, <1>8, <3>3, AppendUnique
    <3>5. cache' = Append(c, e)
      BY <1>5, <2>2, <3>1 DEF Added
    <3>6. Len(cache') <= Size
      BY <2>1, <3>3, <3>4, <3>5
    <3> QED
      BY <3>3, <3>4, <3>5, <3>6
  <2>3. CASE Len(cache) # Size
    <3>1. /\ Append(cache, e) \in Seq(Entries) /\ Len(Append(cache, e)) = Len(cache) + 1
          /\ Unique(Append(cache, e), keyOf') /\ Range(Append(cache, e)) = Range(cache) \cup {e}
      BY <1>1, <1>4, <1>8, <2>1, AppendUnique
    <3>2. cache' = Append(cache, e)
      BY <1>5, <2>3 DEF Added
    <3>3. Len(cache') <= Size
      BY <1>2, <2>1, <2>3, <3>1, <3>2
    <3> QED
      BY <3>1, <3>2, <3>3
  <2> QED
    BY <2>2, <2>3
<1>10. TypeOK'
  BY <1>1, <1>2, <1>4, <1>5, <1>9, CacheAssumption DEF TypeOK
<1>11. \A q \in Callers : CallerOK(q)'
  BY <1>1, <1>2, <1>4, <1>5 DEF CallerOK, TypeOK
<1>12. \A q \in Callers : pc'[q] # "add"
  BY <1>1, <1>2, <1>5 DEF TypeOK
<1>13. NoFailureCached'
  <2>1. once'[e] = "fresh"
    BY <1>1, <1>4, <1>5 DEF TypeOK
  <2> QED
    BY <1>1, <1>8, <1>9, <2>1 DEF NoFailureCached
<1> QED
  BY <1>9, <1>10, <1>11, <1>12, <1>13 DEF CacheInv

(* A caller runs the fetch of its entry, up to a result.                        *)
LEMMA FetchStep ==
  ASSUME CacheInv, NEW p \in Callers, Call(p) \/ GetDocument(p) \/ GetAttachment(p)
  PROVE  CacheInv'
<1>1. TypeOK /\ (\A q \in Callers : CallerOK(q)) /\ CacheInv
  BY DEF CacheInv
<1>2. /\ UNCHANGED <<cache, keyOf, mux, want, entry>>
      /\ \/ UNCHANGED pc
         \/ pc[p] = "call" /\ pc' = [pc EXCEPT ![p] = "fetch"]
  BY DEF Call, GetDocument, GetAttachment, Move
<1>3. PICK step \in {"document", "attachment", "failing", "found"} : once' = [once EXCEPT ![entry[p]] = step]
  BY DEF Call, GetDocument, GetAttachment, getRequest, Becomes
<1>4. TypeOK'
  BY <1>1, <1>2, <1>3 DEF TypeOK, Results
<1>5. \A q \in Callers : CallerOK(q)'
  BY <1>1, <1>2 DEF CallerOK, TypeOK
<1>6. \A e \in Range(cache) : once'[e] = "failed" => once[e] = "failed"
  BY <1>1, <1>3 DEF TypeOK, Range
<1>7. \A q \in Callers : pc'[q] = "add" => Cached(want'[q]) = {}
  BY <1>1, <1>2 DEF CacheInv, TypeOK
<1> QED
  BY <1>2, <1>4, <1>5, <1>6, <1>7, CacheFrame

(* A failed fetch: what it removes includes its own entry, if that is still cached. *)
LEMMA RemoveFailedStep ==
  ASSUME CacheInv, NEW p \in Callers, RemoveFailed(p)
  PROVE  CacheInv'
<1>1. TypeOK /\ (\A q \in Callers : CallerOK(q)) /\ Unique(cache, keyOf) /\ NoFailureCached
  BY DEF CacheInv
<1>2. PICK e : e = entry[p]
  OBVIOUS
<1>3. /\ UNCHANGED <<keyOf, mux, pc, want, entry>> /\ once' = [once EXCEPT ![e] = "failed"]
      /\ Dropped(keyOf[e])
  BY <1>2 DEF RemoveFailed, Becomes
<1>4. /\ cache' \in Seq(Entries) /\ Len(cache') <= Size /\ Unique(cache', keyOf)
      /\ \A x \in Range(cache') : x \in Range(cache) /\ keyOf[x] # keyOf[e]
  <2>1. cache \in Seq(Entries) /\ Len(cache) \in Nat /\ Len(cache) <= Size /\ Size \in Nat
    BY <1>1, CacheAssumption DEF TypeOK
  <2>2. CASE Places(keyOf[e]) = {} /\ UNCHANGED cache
    BY <1>1, <2>1, <2>2 DEF Places, Range
  <2>3. ASSUME NEW i \in Places(keyOf[e]), cache' = Without(i)
        PROVE  /\ cache' \in Seq(Entries) /\ Len(cache') <= Size /\ Unique(cache', keyOf)
               /\ \A x \in Range(cache') : x \in Range(cache) /\ keyOf[x] # keyOf[e]
    <3>1. i \in DOMAIN cache /\ keyOf[cache[i]] = keyOf[e]
      BY DEF Places
    <3>2. /\ Without(i) \in Seq(Entries) /\ Len(Without(i)) = Len(cache) - 1
          /\ Unique(Without(i), keyOf)
          /\ \A x \in Range(Without(i)) : x \in Range(cache) /\ keyOf[x] # keyOf[cache[i]]
      BY <1>1, <2>1, <3>1, WithoutOne
    <3>3. Len(cache') <= Size
      BY <2>1, <2>3, <3>2
    <3> QED
      BY <2>3, <3>1, <3>2, <3>3
  <2> QED
    BY <1>3, <2>2, <2>3 DEF Dropped
<1>5. TypeOK'
  BY <1>1, <1>3, <1>4 DEF TypeOK, Results
<1>6. \A q \in Callers : CallerOK(q)'
  BY <1>1, <1>3 DEF CallerOK
<1>7. (\A q \in Callers : pc[q] = "add" => Cached(want[q]) = {})'
  <2> SUFFICES ASSUME NEW q \in Callers, pc[q] = "add" PROVE Cached(want[q])' = {}
    BY <1>3
  <2>1. \A x \in Range(cache) : keyOf[x] # want[q]
    BY CachedOf DEF CacheInv
  <2> QED
    BY <1>3, <1>4, <2>1 DEF Cached, Places, Range
<1>8. NoFailureCached'
  <2>1. \A x \in Range(cache') : x # e /\ x \in Entries
    BY <1>4 DEF Range
  <2> QED
    BY <1>1, <1>3, <1>4, <2>1 DEF NoFailureCached, TypeOK
<1> QED
  BY <1>3, <1>4, <1>5, <1>6, <1>7, <1>8 DEF CacheInv

(* A caller returns with the result.                                            *)
LEMMA ReturnStep ==
  ASSUME CacheInv, NEW p \in Callers, Return(p)
  PROVE  CacheInv'
<1>1. TypeOK /\ (\A q \in Callers : CallerOK(q)) /\ CacheInv
  BY DEF CacheInv
<1>2. /\ pc[p] \in {"call", "fetch"} /\ UNCHANGED <<cache, keyOf, once, mux>>
      /\ pc' = [pc EXCEPT ![p] = "idle"] /\ want' = [want EXCEPT ![p] = None] /\ entry' = [entry EXCEPT ![p] = None]
  BY DEF Return, Leave
<1>3. TypeOK'
  BY <1>1, <1>2 DEF TypeOK
<1>4. \A q \in Callers : CallerOK(q)'
  BY <1>1, <1>2 DEF CallerOK, TypeOK
<1>5. \A q \in Callers : pc'[q] = "add" => Cached(want'[q]) = {}
  BY <1>1, <1>2 DEF CacheInv, TypeOK
<1> QED
  BY <1>2, <1>3, <1>4, <1>5, CacheFrame

--------------------------------------------------------------------------------
(* The theorems.                                                                *)

(* CacheInv holds of every reachable state of the cache on top of the client.   *)
LEMMA ReaderInvariance == ReaderSpec => []CacheInv
<1>1. ReaderInit => CacheInv
  BY InitCacheInv DEF ReaderInit
<1>2. CacheInv /\ [ReaderNext]_readerVars => CacheInv'
  <2> SUFFICES ASSUME CacheInv, [ReaderNext]_readerVars PROVE CacheInv'
    OBVIOUS
  <2>1. CASE UNCHANGED vars
    BY <2>1 DEF vars, CacheInv, TypeOK, CallerOK, Unique, Cached, Places, NoFailureCached
  <2>2. ASSUME NEW p \in Callers, Local(p) \/ (\E k \in Keys : GetFunction(p, k)) \/ Answered(p)
        PROVE  CacheInv'
    BY <2>2, LookupStep, AddStep, FetchStep, RemoveFailedStep, ReturnStep DEF Local, Answered
  <2> QED
    BY <2>1, <2>2 DEF ReaderNext, readerVars, vars, Ask
<1> QED
  BY <1>1, <1>2, PTL DEF ReaderSpec

(* In every reachable state, a caller that is about to add an entry finds none   *)
(* for its function, so that nobody replaces what is cached.                     *)
THEOREM AlwaysSingleFlight == ReaderSpec => []SingleFlight
<1>1. CacheInv => SingleFlight
  BY DEF CacheInv, SingleFlight
<1> QED
  BY <1>1, ReaderInvariance, PTL

(* In no reachable state does the cache hold the result of a failed fetch.       *)
THEOREM FailureNeverCached == ReaderSpec => []NoFailureCached
<1>1. CacheInv => NoFailureCached
  BY DEF CacheInv
<1> QED
  BY <1>1, ReaderInvariance, PTL

(* getClient replaces the HTTP client only when it is too old, whoever found it  *)
(* too old before: the second check under the write lock decides.                *)
THEOREM ClientRenewedWhenOld == ReaderSpec => RenewedOnlyWhenOld
<1>1. [ReaderNext]_readerVars => [client' # client => client' = client + 1 /\ (client = 0 \/ old)]_clientVars
  <2> SUFFICES ASSUME [ReaderNext]_readerVars, client' # client
               PROVE  client' = client + 1 /\ (client = 0 \/ old)
    OBVIOUS
  <2>1. PICK p \in Callers : Couch!Renew(p)
    BY DEF ReaderNext, readerVars, clientVars, Ask, Answered, Couch!Step, Couch!Deadline, Couch!Expire,
           Couch!Request, Couch!Consume, Couch!ReadClient, Couch!Do
  <2> QED
    BY <2>1 DEF Couch!Renew, Couch!TooOld
<1> QED
  BY <1>1, PTL DEF ReaderSpec, RenewedOnlyWhenOld, Couch!RenewedOnlyWhenOld, Couch!vars, clientVars

================================================================================
