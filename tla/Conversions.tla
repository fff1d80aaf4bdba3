------------------------------ MODULE Conversions ------------------------------
(******************************************************************************)
(* The conversions of the invoker side by side: the configuration into           *)
(* runtimes, a message and a function into payloads, what an invocation met into *)
(* an activation.  They share no state; a behaviour has one of them, with any of *)
(* its inputs.                                                                   *)
(******************************************************************************)
EXTENDS Payload, Runtimes, ActivationRecord

CONSTANTS
  Calls,            \* messages with parameters, and functions with code, of every kind
  Configurations,   \* configurations of the runtimes
  Requests          \* what messages say of an activation

\* The inputs are what their writers can write.
ASSUME CallsAssumption == Calls \subseteq Messages \X Documents
ASSUME ConfigurationsAssumption == \A c \in Configurations : IsConfiguration(c)
ASSUME RequestsAssumption == Requests \subseteq AllRequests

vars == <<payloadVars, runtimeVars, recordVars>>

Init ==
  \/ PayloadInit(Calls) /\ RuntimesIdle /\ RecordIdle
  \/ PayloadIdle /\ RuntimesInit(Configurations) /\ RecordIdle
  \/ PayloadIdle /\ RuntimesIdle /\ RecordInit(Requests)

Next ==
  \/ PayloadNext /\ UNCHANGED <<runtimeVars, recordVars>>
  \/ RuntimesNext /\ UNCHANGED <<payloadVars, recordVars>>
  \/ RecordNext /\ UNCHANGED <<payloadVars, runtimeVars>>

Spec == Init /\ [][Next]_vars

================================================================================
