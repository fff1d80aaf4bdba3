-------------------------- MODULE MCActivationBatcher --------------------------
(* Activations of one unit, and one ("big") that alone exceeds the               *)
(* limit of two units of a batch.                                                *)
EXTENDS ActivationBatcher, TLC

MCSize == [a \in Activations |-> IF a = "big" THEN 3 ELSE 1]
Three  == {"a", "b", "big"}

================================================================================
