------------------------ MODULE CoordinationStoreMC ------------------------
(* Instances of CoordinationStore for TLC: the sets of the cfg files are   *)
(* model values; owners and resources are interchangeable.                 *)
EXTENDS CoordinationStore, TLC

Symmetry == Permutations(Owners) \cup Permutations(Resources)
=============================================================================
