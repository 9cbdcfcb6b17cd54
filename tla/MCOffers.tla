------------------------------ MODULE MCOffers ------------------------------
(* One order and two riders, one of them a third party's; two passes of   *)
(* the engine at once and one manager.                                     *)
EXTENDS Offers
==============================================================================
