--------------------------- MODULE HitlProposalMC ---------------------------
(***************************************************************************)
(* Names for the processes of HitlProposal.                                *)
(***************************************************************************)
EXTENDS HitlProposal

CONSTANTS p1, p2, e1, n1
=============================================================================
