------------------------------ MODULE MCContainers ------------------------------
(* The life of two containers and the logs of a third: they share no state, so one *)
(* of the two moves while the other rests: nothing was invoked yet, or there is no *)
(* container.                                                                      *)
EXTENDS DockerContainer, ContainerLogs

MCInit == Init /\ LogsInit
MCNext == \/ activation = 0 /\ Next /\ UNCHANGED logsVars
          \/ usableIPs = IPs /\ LogsNext /\ UNCHANGED vars
\* What is fair of one is not enabled while it rests.
MCSpec == MCInit /\ [][MCNext]_<<vars, logsVars>> /\ Fairness /\ LogsFairness

================================================================================
