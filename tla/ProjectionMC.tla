---------------------------- MODULE ProjectionMC ----------------------------
(* Instances of Projection for TLC.                                        *)
EXTENDS Projection
=============================================================================
