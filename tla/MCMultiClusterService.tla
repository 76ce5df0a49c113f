----------------------- MODULE MCMultiClusterService -----------------------
(* app depends on base; both select the only cluster, and base keeps its   *)
(* services on clusters it does not select any more.  Only base is         *)
(* upgraded; app is made at its last version, by the same call as a later  *)
(* one would be.                                                           *)
EXTENDS MultiClusterService

MCLabels == {[c \in Cluster |-> "x"]}
MCShapes ==
    {[m \in MCS |-> [version |-> IF m = "app" THEN 2 ELSE 1,
                     deps |-> IF m = "app" THEN {"base"} ELSE {},
                     sel |-> "x", self |-> FALSE, keep |-> m = "base", ok |-> TRUE]]}
=============================================================================
