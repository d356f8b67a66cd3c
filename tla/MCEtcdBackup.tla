---------------------------- MODULE MCEtcdBackup ----------------------------
(* Model-checking instances of EtcdBackup. *)
EXTENDS EtcdBackup

MCData == BackupData
MCNewData == [created |-> FALSE, completed |-> "none"]
=============================================================================
