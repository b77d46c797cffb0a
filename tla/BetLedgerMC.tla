---------------------------- MODULE BetLedgerMC ----------------------------
(***************************************************************************)
(* Values for the constants of BetLedger: the search for a bet's id finds  *)
(* the bet's own block, or that of a bet whose id begins with it.          *)
(***************************************************************************)
EXTENDS BetLedger, TLC

CONSTANTS a1, a2, b1, b2

OwnBlock == b1 :> b1 @@ b2 :> b2
PrefixHit == b1 :> b2 @@ b2 :> b2
==============================================================================
