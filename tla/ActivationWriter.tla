---------------------------- MODULE ActivationWriter ----------------------------
(* What the writer of activations promises to its callers (the interface        *)
(* entities.ActivationWriter and the comments of pkg/couchdb/batcher.go): an    *)
(* activation that was accepted is settled once, that is written or given up    *)
(* after the database refused it, and Shutdown returns only when nothing that   *)
(* was accepted is still waiting.                                               *)
CONSTANT Activations
VARIABLES waiting, settled, open

Init == waiting = {} /\ settled = {} /\ open = "yes"

Accept(a) ==
  /\ open = "yes" /\ a \notin waiting \cup settled
  /\ waiting' = waiting \cup {a}
  /\ UNCHANGED <<settled, open>>

\* A whole batch is settled at once.
Settle(S) ==
  /\ S # {} /\ S \subseteq waiting
  /\ waiting' = waiting \ S
  /\ settled' = settled \cup S
  /\ UNCHANGED open

Close == open = "yes" /\ open' = "closing" /\ UNCHANGED <<waiting, settled>>
Closed == open = "closing" /\ waiting = {} /\ open' = "no" /\ UNCHANGED <<waiting, settled>>

Next == \/ \E a \in Activations : Accept(a)
        \/ \E S \in SUBSET Activations : Settle(S)
        \/ Close \/ Closed

Spec == Init /\ [][Next]_<<waiting, settled, open>>

=================================================================================
