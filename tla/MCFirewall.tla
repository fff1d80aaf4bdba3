------------------------------- MODULE MCFirewall -------------------------------
(* Two nodes ("n1", "n2"), two addresses of CoreDNS's service and of its pod, a   *)
(* cluster address ("c"), the gateway, the metadata service and the internet.     *)
EXTENDS Firewall

MCAddress == {"n1", "n2", "k", "s1", "s2", "d1", "d2", "c", "gateway", "metadata", "web"}
InCluster == {"s1", "s2", "d1", "d2", "c"}
OnNode    == {"gateway"}
Metadata  == {"metadata"}
MCValues  == [o \in {"nodes", "api", "dns", "pods"} |->
                CASE o = "nodes" -> {{"n1"}, {"n2"}, {"n1", "n2"}}
                  [] o = "api"   -> {{"k"}, Missing}
                  [] o = "dns"   -> {{"s1"}, {"s2"}}
                  [] o = "pods"  -> {{"d1"}, {"d2"}}]
MCSynced  == [o \in {"nodes", "api", "dns", "pods"} |->
                CASE o = "nodes" -> {"n1"} [] o = "api" -> {"k"} [] o = "dns" -> {"s1"} [] o = "pods" -> {"d1"}]
================================================================================
