---------------------------- MODULE MCStorePickup ----------------------------
(* An order of four, one of it the coupon's, two pages, two disputes.      *)
EXTENDS StorePickup
==============================================================================
