---------------------------- MODULE StoreFileMC ----------------------------
(***************************************************************************)
(* Names for the processes of StoreFile.                                   *)
(***************************************************************************)
EXTENDS StoreFile

CONSTANTS agent1, agent2, cron
=============================================================================
