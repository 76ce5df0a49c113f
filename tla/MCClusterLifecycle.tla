------------------------- MODULE MCClusterLifecycle -------------------------
(* One ClusterDeployment that uses everything a deletion has to wait for.  *)
EXTENDS ClusterLifecycle

MCConfigs == {[cleanup |-> TRUE, kine |-> TRUE, ipam |-> TRUE]}

=============================================================================
