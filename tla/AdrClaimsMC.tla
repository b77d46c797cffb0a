---------------------------- MODULE AdrClaimsMC ----------------------------
(* Instances of AdrClaims for TLC: the sessions are model values and       *)
(* interchangeable.                                                        *)
EXTENDS AdrClaims, TLC

Symmetry == Permutations(Claimers)
=============================================================================
