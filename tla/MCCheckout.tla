----------------------------- MODULE MCCheckout -----------------------------
(* Requests for the last units of a listing: one unit each, but for the    *)
(* third, which wants two. The coupon discounts differ, so that the coupon *)
(* may reach its last use before its budget, or after it.                  *)
EXTENDS Checkout

CONSTANTS o1, o2, o3, o4

MCQuantity == [o \in Order |-> IF o = o3 THEN 2 ELSE 1]
MCDiscount == [o \in Coded |-> IF o = o1 THEN 1 ELSE IF o = o2 THEN 2 ELSE 3]

=============================================================================
