---------------------------- MODULE MCContainerPool ----------------------------
(* Small instances of ContainerPool: two functions of one unit of memory each  *)
(* ("a", "b"), one of two units ("c"), and one that no invoker can run ("x").   *)
EXTENDS ContainerPool, TLC

SmallKeys == {"a", "b"}
MixedKeys == {"a", "c", "x"}
OneKind   == {"p"}
Kinds     == {"p", "q", "r"}

MCPrewarmKey == [k \in Keys |-> CASE k \in {"a", "b"} -> "p" [] k = "c" -> "q" [] k = "x" -> "r"]
MCMemory     == [pk \in PrewarmKeys |-> CASE pk = "p" -> 1 [] pk = "q" -> 2 [] pk = "r" -> MaxMemory + 1]
NoStemcells  == [pk \in PrewarmKeys |-> 0]
OneStemcell  == [pk \in PrewarmKeys |-> IF pk = "p" THEN 1 ELSE 0]
\* The namespace of "a" comes and goes on the list of those that need rules of their own.
RulesForA    == [k \in Keys |-> IF k = "a" THEN BOOLEAN ELSE {FALSE}]
NoRules      == [k \in Keys |-> {FALSE}]

Symmetry == Permutations(Callers) \cup Permutations(IPs)

================================================================================
