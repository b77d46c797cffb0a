--------------------------- MODULE MeshConsumerMC ---------------------------
(***************************************************************************)
(* Names for the events and the consumers of MeshConsumer.                 *)
(***************************************************************************)
EXTENDS MeshConsumer

CONSTANTS e1, e2, e3, c1, c2
=============================================================================
