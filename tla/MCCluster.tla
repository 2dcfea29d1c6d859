------------------------------ MODULE MCCluster ------------------------------
(* TLC instances of StwCluster. *)
EXTENDS StwCluster

\* ClusterStalls is about behaviours in which every server lives.
AllAlive == \A s \in Nodes : phase[s] # "dead"
=============================================================================
