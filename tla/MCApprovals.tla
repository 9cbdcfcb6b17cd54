----------------------------- MODULE MCApprovals -----------------------------
(* Two registrations of one business, by a scout and by an Operations       *)
(* lead; two changes of one money setting, by the scout and by the Super    *)
(* Admin himself; or the Super Admin's request to resolve a payout, which   *)
(* takes two people. The scout's manager is the General Manager, who may    *)
(* leave and holds the pool's permission.                                   *)
EXTENDS Approvals

CONSTANTS boss, gm, ops, scout, cosign, kyc1, kyc2, pay, own, res

MCKindOf == [r \in Request |-> IF r \in {kyc1, kyc2} THEN "kyc" ELSE IF r = res THEN "payout" ELSE "setting"]
MCMaker == [r \in Request |-> IF r \in {kyc1, pay} THEN scout ELSE IF r = kyc2 THEN ops ELSE boss]
MCAsks == [r \in Request |-> IF KindOf[r] = "kyc" THEN "verified" ELSE "rejected"]
MCManager == [s \in Staff |-> IF s = scout THEN gm ELSE NoOne]

\* Bound: the targets and requests of all kinds but one are as at first.
OneKind ==
  \E k \in Kind : \A other \in Kind \ {k} :
    target[other] = "pending" /\ \A r \in OnTarget(other) : status[r] = "none"

==============================================================================
