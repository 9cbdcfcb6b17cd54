---------------------------- MODULE RefundShares ----------------------------
(***************************************************************************)
(* An order's items refunded in several parts: what ledger.refunds._post   *)
(* writes on each vendor's fee snapshot, whatever the parts and their      *)
(* order.  The amounts are those a partial refund may have.                *)
(***************************************************************************)
EXTENDS RefundMath

CONSTANTS Snapshots, \* fee snapshots of the order, one a vendor, in primary-key order
          MaxBase    \* the largest item subtotal

ASSUME SharesAssumption == Snapshots \in Nat \ {0} /\ MaxBase \in Nat \ {0}

Snapshot == 1..Snapshots

VARIABLES
  snapBase,    \* OrderFeeSnapshot.base_pesewas
  snapCharged, \* OrderFeeSnapshot.charged_pesewas: a part of the base
  snapBack,    \* refunded_base_pesewas and refunded_fee_pesewas
  lastPart     \* history: the last refund, its amount and shares, and the rooms it found

shareVars == <<snapBase, snapCharged, snapBack, lastPart>>

SharesInit ==
  /\ snapBase \in [Snapshot -> 1..MaxBase]
  /\ snapCharged \in {c \in [Snapshot -> 0..MaxBase] : \A v \in Snapshot : c[v] <= snapBase[v]}
  /\ snapBack = [base |-> [v \in Snapshot |-> 0], fee |-> [v \in Snapshot |-> 0]]
  /\ lastPart = [amount |-> 0, share |-> [v \in Snapshot |-> 0], room |-> snapBase]

SnapRoom == [v \in Snapshot |-> snapBase[v] - snapBack.base[v]]

\* Slip: the fee of each part is rounded by itself.
RefundByItself(amount) ==
  LET share == Allocate(amount, SnapRoom)
      fee == [v \in Snapshot |-> FeeShare(snapCharged[v], snapBase[v], share[v])]
  IN  /\ snapBack' = [base |-> [v \in Snapshot |-> snapBack.base[v] + share[v]],
                      fee |-> [v \in Snapshot |-> snapBack.fee[v] + fee[v]]]
      /\ lastPart' = [amount |-> amount, share |-> share, room |-> SnapRoom]
      /\ UNCHANGED <<snapBase, snapCharged>>

\* refund_order of part of the items: the shares, then each snapshot's new totals.
RefundInPart(amount) ==
  LET share == Allocate(amount, SnapRoom)
      after == [v \in Snapshot |-> snapBack.base[v] + share[v]]
  IN  /\ snapBack' = [base |-> after,
                      fee |-> [v \in Snapshot |-> FeeShare(snapCharged[v], snapBase[v], after[v])]]
      /\ lastPart' = [amount |-> amount, share |-> share, room |-> SnapRoom]
      /\ UNCHANGED <<snapBase, snapCharged>>

SharesNext == \E amount \in 1..SumFunction(SnapRoom) : RefundInPart(amount)

SharesSpec == SharesInit /\ [][SharesNext]_shareVars

-----------------------------------------------------------------------------
SharesTypeOK ==
  /\ snapBase \in [Snapshot -> 1..MaxBase] /\ snapCharged \in [Snapshot -> 0..MaxBase]
  /\ snapBack \in [base : [Snapshot -> 0..MaxBase], fee : [Snapshot -> 0..MaxBase]]
  /\ lastPart \in [amount : Nat, share : [Snapshot -> Nat], room : [Snapshot -> Nat]]

\* allocate's promise: the shares make up the amount, each stays within its room, and none
\* is a whole pesewa away from its exact part.
SharesAreFair ==
  LET total == SumFunction(lastPart.room) IN
  /\ SumFunction(lastPart.share) = lastPart.amount
  /\ \A v \in Snapshot :
       LET off == lastPart.share[v] * total - lastPart.amount * lastPart.room[v]
       IN  lastPart.share[v] <= lastPart.room[v] /\ -total < off /\ off < total

\* The fee given back depends on the base refunded and not on the parts it was refunded
\* in: all of it comes back with the last part, and no part of it is more than what the
\* refund takes, so a refund after release never raises a vendor's balance.
FeeFollowsBase ==
  [][\A v \in Snapshot :
       LET fee == snapBack.fee'[v] - snapBack.fee[v]
       IN  /\ 0 <= fee /\ fee <= lastPart.share'[v]
           /\ snapBack.base'[v] = snapBase[v] => snapBack.fee'[v] = snapCharged[v]]_shareVars

=============================================================================
