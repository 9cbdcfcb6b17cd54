----------------------------- MODULE RefundMath -----------------------------
(***************************************************************************)
(* How money is divided when part of an order is refunded: the shares of   *)
(* the vendors (ledger.refunds.allocate), the platform fee that belongs to *)
(* a refunded base (fee_share) and the part of the payment charge given    *)
(* back.  Amounts are whole pesewas.                                       *)
(***************************************************************************)
EXTENDS Integers, FiniteSets, Functions

AtMost(a, b) == IF a <= b THEN a ELSE b

\* n / d rounded half up.
HalfUp(n, d) == (2 * n + d) \div (2 * d)

\* The part of a charged fee that belongs to `refunded` pesewas of its base.
FeeShare(charged, base, refunded) ==
  IF refunded >= base THEN charged ELSE HalfUp(charged * refunded, base)

\* A partial refund gives back its share of the payment charge, at most what is left of it.
ChargeShare(charge, left, amount, paid) ==
  IF paid = 0 THEN 0 ELSE AtMost(left, HalfUp(charge * amount, paid))

\* Slip: the smallest remainders are served first.
Behind(remainder, k) ==
  {i \in DOMAIN remainder : \/ remainder[i] < remainder[k]
                            \/ remainder[i] = remainder[k] /\ i < k}

\* The keys served before k: a larger remainder, or the same and an earlier key.
ServedBefore(remainder, k) ==
  {i \in DOMAIN remainder : \/ remainder[i] > remainder[k]
                            \/ remainder[i] = remainder[k] /\ i < k}

\* The amount split over the rooms in proportion: floor shares, and what they leave over
\* a pesewa each to the largest remainders.
Allocate(amount, room) ==
  LET total == SumFunction(room)
      floor == [k \in DOMAIN room |-> (amount * room[k]) \div total]
      remainder == [k \in DOMAIN room |-> (amount * room[k]) % total]
      spare == amount - SumFunction(floor)
  IN  IF amount <= 0 \/ total <= 0
      THEN [k \in DOMAIN room |-> 0]
      ELSE [k \in DOMAIN room |->
              floor[k] + IF Cardinality(ServedBefore(remainder, k)) < spare THEN 1 ELSE 0]

=============================================================================
