--------------------------- MODULE LeaseBrokerMC ---------------------------
(* Instances of LeaseBroker for TLC: every set of the cfg files holds      *)
(* model values, and those of one set are interchangeable.                 *)
EXTENDS LeaseBroker, TLC

Symmetry ==
  Permutations(Brokers) \cup Permutations(Tasks) \cup Permutations(Workers)
    \cup Permutations(Paths) \cup Permutations(Keys)
=============================================================================
