-------------------------------- MODULE Runtimes -------------------------------
(******************************************************************************)
(* The runtimes of the configuration: ByteSize (pkg/units/units.go),            *)
(* RuntimeManifests.Decode (pkg/exec/runtimes.go), which walks over the families *)
(* in the order of a Go map, and what reconcilePrewarm and Get                   *)
(* (pkg/exec/pool.go) look up in the result.                                     *)
(*                                                                              *)
(* A kind, and a key of the manifests, is a pair of the text up to the colon and *)
(* the tag after it, such as <<"nodejs", "14">> for nodejs:14.  Nothing ties the *)
(* kinds of a family to its name: two families may have versions of one kind,    *)
(* and a kind may be the alias $family:default of any family.                    *)
(******************************************************************************)
EXTENDS Integers, Sequences, FiniteSetsExt

CONSTANTS
  Factor,      \* from one unit to the next; 1024 in the code
  Width        \* sizes are numbers modulo Width; 2^64 in the code

ASSUME SizeAssumption == Factor \in Nat \ {0} /\ Width \in Nat \ {0}

VARIABLES
  runtimes,    \* the configuration: the versions of each family
  left,        \* families the loop has not come to
  manifests,   \* what is decoded so far, by kind
  decoding     \* where Decode is

runtimeVars == <<runtimes, left, manifests, decoding>>

--------------------------------------------------------------------------------
(* Sizes.                                                                       *)

NoSize == -1
Units  == <<"B", "K", "M", "G">>
Bytes  == [u \in {"B", "K", "M", "G"} |->
             CASE u = "B" -> 1 [] u = "K" -> Factor [] u = "M" -> Factor * Factor
               [] u = "G" -> Factor * Factor * Factor]

\* ParseByteSize of a number and a unit; a text without a unit, with another one, or with a number
\* that is none or does not fit is an error.  The product is not checked.
ParseByteSize(text) ==
  IF text.unit \in DOMAIN Bytes /\ text.number \in 0..(Width - 1)
  THEN (text.number * Bytes[text.unit]) % Width ELSE NoSize

\* String: the largest unit that divides the size.
ByteSizeString(size) ==
  LET i == Max({j \in 1..4 : size % Bytes[Units[j]] = 0})
  IN [number |-> size \div Bytes[Units[i]], unit |-> Units[i]]

\* The memory limit of a function is a number of megabytes, and is written back as one.
LimitsMemory(megabytes)  == (megabytes * Bytes["M"]) % Width
MarshalledMemory(memory) == memory \div Bytes["M"]

--------------------------------------------------------------------------------
(* Decode.                                                                      *)

DefaultName(f)    == <<f, "default">>
Entry(m, kind, v) == [k \in DOMAIN m \cup {kind} |-> IF k = kind THEN v ELSE m[k]]
Decoded(version)  ==
  [ kind      |-> version.kind,
    stemcells |-> [i \in DOMAIN version.stemcells |->
                     [count  |-> version.stemcells[i].count,
                      memory |-> ParseByteSize(version.stemcells[i].memory)]] ]

\* A configuration: versions have a kind and stemcells, whose sizes do not exceed the range of sizes.
Versions == [ kind : STRING \X STRING, default : BOOLEAN,
              stemcells : Seq([count : Int, memory : [number : Nat, unit : STRING]]) ]
Fits(text) == text.unit \in DOMAIN Bytes => text.number * Bytes[text.unit] < Width
IsConfiguration(c) ==
  \A f \in DOMAIN c :
    /\ c[f] \in Seq(Versions)
    /\ \A i \in DOMAIN c[f] : \A j \in DOMAIN c[f][i].stemcells : Fits(c[f][i].stemcells[j].memory)

\* json.Unmarshal of the whole configuration, before any of it is looked at.
Unmarshal ==
  /\ decoding = "text"
  /\ decoding' = IF \E f \in DOMAIN runtimes : \E i \in DOMAIN runtimes[f] :
                      \E j \in DOMAIN runtimes[f][i].stemcells :
                        ParseByteSize(runtimes[f][i].stemcells[j].memory) = NoSize
                 THEN "refused" ELSE IF left = {} THEN "decoded" ELSE "families"
  /\ UNCHANGED <<runtimes, left, manifests>>

\* One version of the inner loop, on what the versions before it left.
AddVersion(f, m, version) ==
  LET known == Entry(m.manifests, version.kind, Decoded(version)) IN
  IF m.failed THEN m
  ELSE IF ~version.default THEN [manifests |-> known, failed |-> FALSE]
  ELSE IF DefaultName(f) \in DOMAIN known THEN [manifests |-> known, failed |-> TRUE]
  ELSE [manifests |-> Entry(known, DefaultName(f), Decoded(version)), failed |-> FALSE]

\* The inner loop over the versions of a family: what there is after each of them.
AddVersions(f, m, versions) ==
  LET after[i \in 0..Len(versions)] ==
        IF i = 0 THEN [manifests |-> m, failed |-> FALSE] ELSE AddVersion(f, after[i - 1], versions[i])
  IN after

\* One family of the outer loop; which one comes next is up to the map.
DecodeFamily(f) ==
  LET after == AddVersions(f, manifests, runtimes[f])[Len(runtimes[f])]
  IN /\ decoding = "families" /\ f \in left
     /\ left' = left \ {f}
     /\ manifests' = after.manifests
     /\ decoding' = IF after.failed THEN "refused" ELSE IF left' = {} THEN "decoded" ELSE "families"
     /\ UNCHANGED runtimes

RuntimesInit(configurations) ==
  /\ runtimes \in configurations
  /\ left = DOMAIN runtimes /\ manifests = <<>> /\ decoding = "text"
RuntimesIdle == runtimes = <<>> /\ left = {} /\ manifests = <<>> /\ decoding = "idle"
RuntimesNext == Unmarshal \/ \E f \in DOMAIN runtimes : DecodeFamily(f)

--------------------------------------------------------------------------------
(* What the pool makes of it.                                                   *)

\* Mutation: the aliases are not skipped.
ExplicitKindsAll == DOMAIN manifests
\* The runtimes reconcilePrewarm looks at: not the :default ones.
ExplicitKinds == {k \in DOMAIN manifests : k[2] # "default"}

\* The numbers necessaryCreations may hold for a key of an empty pool: of the stemcell configurations
\* of one memory the last one stays, of the entries of one kind the one the map has last.
NecessaryCreations(kind, memory) ==
  LET cells(k) == manifests[k].stemcells
      same(k)  == {i \in DOMAIN cells(k) : cells(k)[i].memory = memory}
  IN {cells(k)[Max(same(k))].count : k \in {x \in ExplicitKinds : manifests[x].kind = kind /\ same(x) # {}}}

--------------------------------------------------------------------------------
(* What the configuration means.                                                *)

Megabytes == 0..(Width \div Bytes["M"] - 1)

Defaults(f) == {i \in DOMAIN runtimes[f] : runtimes[f][i].default}
\* The keys a version is to be found under, and the families and versions to be found under a key.
Claim(f, i)     == {runtimes[f][i].kind} \cup (IF i \in Defaults(f) THEN {DefaultName(f)} ELSE {})
Claims(f, k)    == {i \in DOMAIN runtimes[f] : k \in Claim(f, i)}
Claimants(k)    == {f \in DOMAIN runtimes : Claims(f, k) # {}}
LastClaim(f, k) == runtimes[f][Max(Claims(f, k))]
KeysOf(f)       == UNION {Claim(f, i) : i \in DOMAIN runtimes[f]}
\* The alias is taken when the default comes: by its own kind, or by a version of the family before it.
Taken(f, i) == runtimes[f][i].kind = DefaultName(f) \/ \E j \in Claims(f, DefaultName(f)) : j < i
\* Whether a text says so many megabytes.
Says(text, megabytes) == text.number * Bytes[text.unit] = megabytes * Bytes["M"]
\* The last number of stemcells of so many megabytes that a version is configured with.
Configured(version, megabytes) ==
  LET cells == version.stemcells
      same  == {i \in DOMAIN cells : Says(cells[i].memory, megabytes)}
  IN IF same = {} THEN {} ELSE {cells[Max(same)].count}

\* Sizes, and memory limits, that were written can be read.
SizesReadBack ==
  /\ \A size \in 0..(Width - 1) : ParseByteSize(ByteSizeString(size)) = size
  /\ \A mb \in Megabytes : MarshalledMemory(LimitsMemory(mb)) = mb

\* In whatever order the map of families, and later the map of manifests, is walked
\* (pkg/exec/runtimes.go:28-46): a configuration that is decoded has no family whose alias is taken when
\* its default comes, has an entry for every kind and alias and no other, and each entry is the last
\* version of that kind or alias of one of the families that have it.  So the order of the map is seen only
\* under a key that two families have; and in any case the number of containers prewarmed of a kind is the
\* one of the version found under that kind, never of another entry that is the same kind, and is kept
\* under the key a function with that memory limit looks for (pkg/exec/pool.go:538-550).  A configuration
\* is refused only for a size that cannot be read, or an alias that is taken in its family or by another.
ManifestsAsConfigured ==
  /\ SizesReadBack
  /\ decoding = "decoded" =>
       /\ \A f \in DOMAIN runtimes : \A i \in Defaults(f) : ~Taken(f, i)
       /\ DOMAIN manifests = UNION {KeysOf(f) : f \in DOMAIN runtimes}
       /\ \A k \in DOMAIN manifests : \E f \in Claimants(k) :
            /\ manifests[k] = Decoded(LastClaim(f, k))
            /\ \A mb \in Megabytes :
                 NecessaryCreations(k, LimitsMemory(mb)) =
                   IF k[2] = "default" THEN {} ELSE Configured(LastClaim(f, k), mb)
  /\ decoding = "refused" =>
       \/ \E f \in DOMAIN runtimes : \E i \in Defaults(f) :
            Taken(f, i) \/ Claimants(DefaultName(f)) # {f}
       \/ \E f \in DOMAIN runtimes : \E i \in DOMAIN runtimes[f] :
            \E j \in DOMAIN runtimes[f][i].stemcells :
              runtimes[f][i].stemcells[j].memory.unit \notin DOMAIN Bytes

================================================================================
