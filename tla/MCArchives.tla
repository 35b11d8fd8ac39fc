----------------------------- MODULE MCArchives -----------------------------
(***************************************************************************)
(* Backup streams and WIM files.  A run is about one layer or part of one  *)
(* of them, and the rest stays as it is.                                   *)
(***************************************************************************)
EXTENDS MCBackup, MCWim

MCInit == (BackupInit /\ WimIdle) \/ (WimInit /\ BackupIdle)

MCNext ==
  \/ BackupNext /\ UNCHANGED wimVars
  \/ WimNext /\ UNCHANGED backupVars

MCSpec == MCInit /\ [][MCNext]_<<backupVars, wimVars>>
=============================================================================
