--------------------------- MODULE MCOrderEscrow ----------------------------
(* An AshantiHub rider and a third-party one. *)
EXTENDS OrderEscrow

CONSTANTS own, third

=============================================================================
