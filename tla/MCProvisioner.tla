--------------------------- MODULE MCProvisioner ---------------------------
(* Model-checking instances of Provisioner. *)
EXTENDS Provisioner

MCData == ClusterData
MCNewData ==
  [spec |-> 1, applied |-> 0, failed |-> 0,
   driver |-> FALSE, migrated |-> FALSE, anno |-> "none"]

\* All of a configuration is compared: every provider but EKS.
Whole == [k \in 1 .. 2 |-> k]
=============================================================================
