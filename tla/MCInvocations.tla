----------------------------- MODULE MCInvocations -----------------------------
(* Messages "k1", "k2" on the topic and others over HTTP, in one namespace.         *)
EXTENDS Invocations, TLC

TwoMessages  == <<"k1", "k2">>
OneMessage   == <<"k1">>
OneNamespace == [m \in Messages |-> "n1"]
\* Workers are interchangeable; nothing but the safety runs uses it.
WorkerSymmetry == Permutations(Workers)

================================================================================
