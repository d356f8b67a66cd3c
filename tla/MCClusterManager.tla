------------------------- MODULE MCClusterManager -------------------------
(* Model-checking instances of ClusterManager. *)
EXTENDS ClusterManager
=============================================================================
