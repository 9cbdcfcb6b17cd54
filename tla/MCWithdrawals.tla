--------------------------- MODULE MCWithdrawals ---------------------------
(* Withdrawals on a small instance: one holder asking twice, so that       *)
(* money returned by the first can be withdrawn again by the second.       *)
EXTENDS Withdrawals

CONSTANTS w1, w2, h1

MCHolderOf == [w \in Withdrawal |-> h1]
MCAmount == [w \in Withdrawal |-> IF w = w1 THEN 2 ELSE 1]

=============================================================================
