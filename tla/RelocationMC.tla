---------------------------- MODULE RelocationMC ---------------------------
(***************************************************************************)
(* Names for the calls of Relocation; either may be any.                   *)
(***************************************************************************)
EXTENDS Relocation, TLC

CONSTANTS p1, p2
CallSymmetry == Permutations(Procs)
=============================================================================
