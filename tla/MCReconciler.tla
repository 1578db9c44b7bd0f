---------------------------- MODULE MCReconciler ----------------------------
(***************************************************************************)
(* Resources for TLC: two kinds that own a Deployment, under one name, and *)
(* a ClusterStream, whose Reconcile differs.                               *)
(***************************************************************************)
EXTENDS Reconciler

MCChildType ==
    [joiner |-> "Deployment", channel |-> "Deployment", processor |-> "Deployment",
     stream |-> "Subscription", clusterstream |-> "Component"]

Resources(kinds) == {[kind |-> k, name |-> "a"] : k \in kinds}

OneProcessor     == Resources({"processor"})
SameName         == Resources({"processor", "joiner"})
OneClusterStream == Resources({"clusterstream"})
=============================================================================
