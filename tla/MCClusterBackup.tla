-------------------------- MODULE MCClusterBackup --------------------------
(* TLC instance of ClusterBackup.                                             *)
EXTENDS ClusterBackup
=============================================================================
