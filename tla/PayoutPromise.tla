--------------------------- MODULE PayoutPromise ---------------------------
(***************************************************************************)
(* What the withdrawal engine promises a holder, with every process, crash *)
(* and report left out: money asked for leaves the balance at once, and    *)
(* then, once and for good, it either goes to the destination or comes     *)
(* back.  Withdrawals.tla implements this specification.                   *)
(***************************************************************************)
EXTENDS Integers

CONSTANTS Withdrawal, Holder, HolderOf, Amount, Opening

VARIABLES phase,  \* "none", "held", "paid" or "returned"
          wallet  \* what the holder can spend

Init ==
  /\ phase = [w \in Withdrawal |-> "none"]
  /\ wallet = [h \in Holder |-> Opening]

Hold(w) ==
  /\ phase[w] = "none"
  /\ wallet[HolderOf[w]] >= Amount[w]
  /\ phase' = [phase EXCEPT ![w] = "held"]
  /\ wallet' = [wallet EXCEPT ![HolderOf[w]] = @ - Amount[w]]

Pay(w) ==
  /\ phase[w] = "held"
  /\ phase' = [phase EXCEPT ![w] = "paid"]
  /\ UNCHANGED wallet

GiveBack(w) ==
  /\ phase[w] = "held"
  /\ phase' = [phase EXCEPT ![w] = "returned"]
  /\ wallet' = [wallet EXCEPT ![HolderOf[w]] = @ + Amount[w]]

\* Sales and refunds move the same balance by other doors, a pesewa at a time.
Trade(h) ==
  /\ \E n \in {-1, 1} : wallet' = [wallet EXCEPT ![h] = @ + n]
  /\ UNCHANGED phase

Next ==
  \/ \E w \in Withdrawal : Hold(w) \/ Pay(w) \/ GiveBack(w)
  \/ \E h \in Holder : Trade(h)

Spec == Init /\ [][Next]_<<phase, wallet>>

=============================================================================
