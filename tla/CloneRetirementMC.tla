-------------------------- MODULE CloneRetirementMC ------------------------
(***************************************************************************)
(* Names for the directories and the calls of CloneRetirement.             *)
(***************************************************************************)
EXTENDS CloneRetirement

CONSTANTS d1, d2, plain1, squash1, abort1
=============================================================================
