---------------------------- MODULE OfficeProofs ----------------------------
(***************************************************************************)
(* Two parts of the office, which share nothing but this module.           *)
(*                                                                         *)
(* Approvals, for any staff, requests and kinds: nobody decides a change   *)
(* of their own, an amount that needs two has two, each approval takes     *)
(* effect once and two decisions on one target never overlap.              *)
(*                                                                         *)
(* Billing, for any grace, any periods and any number of runs of the job   *)
(* at once: an owner who paid is not told the period ended and not hidden  *)
(* before it does, and nobody is hidden without fair warning.  That an     *)
(* unpaid business is hidden in the end is liveness: TLC's.                *)
(***************************************************************************)
EXTENDS Approvals, Billing, TLAPS

\* What is signed: nothing before the request is there, each slot by someone who may.
SignedInv ==
  \A r \in Request :
    /\ status[r] \in {"none", "reading"} =>
         needs[r] = 1 /\ approver[r] = NoOne /\ cosigner[r] = NoOne
    /\ needs[r] = 2 => KindOf[r] \in WithAmount
    /\ approver[r] # NoOne => approver[r] # cosigner[r] /\ ~Barred(KindOf[r], approver[r])
    /\ cosigner[r] # NoOne => cosigner[r] \in Cosigner /\ ~Barred(KindOf[r], cosigner[r])

\* The queue settles by approving or rejecting.
SettledInv == \A r \in settled : status[r] \in {"approved", "rejected"}

\* The target's lock: one decision on it at a time, so none was ever overtaken.
LockInv ==
  /\ overtaken = {}
  /\ \A q, r \in Request :
       KindOf[q] = KindOf[r] /\ deciding[q] # NoOne /\ deciding[r] # NoOne => q = r

IInv ==
  /\ TypeOK
  /\ SignedInv
  /\ SomeoneElseDecides
  /\ LargeHasTwo
  /\ SettledInv /\ AppliedOnce
  /\ LockInv

\* All a signature, a decision or an application depends on is as it was.
SameRequests ==
  UNCHANGED <<status, needs, signatures, decidedBy, history>>

USE ApprovalsAssumption DEF ApprovalsAssumption

-----------------------------------------------------------------------------
(* The operators.                                                          *)

\* A request enters one of the three levels, with a manager assigned or nobody.
LEMMA EnterEffect ==
  ASSUME TypeOK, NEW r \in Request, NEW s \in {"manager", "pool", "super_admin"}, Enter(r, s)
  PROVE  /\ stage' \in [Request -> {"manager", "pool", "super_admin"}]
         /\ assigned' \in [Request -> Staff \cup {NoOne}]
         /\ late' \subseteq Request
BY DEF TypeOK, Enter

\* The first level of a request is one of the three.
LEMMA FirstStep ==
  ASSUME NEW r \in Request
  PROVE  NextStep(r, 0) \in {"manager", "pool", "super_admin"}
BY DEF NextStep, Rank

\* A signature comes from someone at work who is not the maker, has not signed and is
\* not barred; the second slot is only for two, and for a co-signer.
LEMMA SlotEffect ==
  ASSUME TypeOK, NEW r \in Request, NEW s \in Staff, Slot(r, s) # "none"
  PROVE  /\ status[r] = "pending"
         /\ s # Maker[r] /\ s # approver[r] /\ s # cosigner[r]
         /\ ~Barred(KindOf[r], s)
         /\ Slot(r, s) \in {"approver", "cosigner"}
         /\ Slot(r, s) = "cosigner" => needs[r] = 2 /\ s \in Cosigner
BY DEF Slot, MayDecide

\* Where nobody else decides on the target, a decision that lands overtakes nobody.
LEMMA LandsEffect ==
  ASSUME TypeOK, LockInv, NEW k \in Kind, NEW r, NEW v \in Value, Lands(k, r, v),
         \/ TargetFree(k)
         \/ r \in Request /\ KindOf[r] = k /\ deciding[r] # NoOne
  PROVE  target' \in [Kind -> Value] /\ overtaken' = {}
BY DEF TypeOK, LockInv, Lands, TargetFree, OnTarget

-----------------------------------------------------------------------------
(* The invariant holds at first and is kept by every step.                 *)

LEMMA InitInv == Init => IInv
BY DEF Init, IInv, TypeOK, SignedInv, SomeoneElseDecides, LargeHasTwo, SettledInv, AppliedOnce,
       LockInv

\* A step that changes no request, signature or history keeps what is said of them.
LEMMA SameKeeps ==
  ASSUME IInv, SameRequests, TypeOK',
         deciding' = deciding \/ \E r \in Request : deciding' = [deciding EXCEPT ![r] = NoOne]
  PROVE  IInv'
<1>1. SignedInv' /\ SomeoneElseDecides' /\ LargeHasTwo'
  BY DEF IInv, SameRequests, signatures, SignedInv, SomeoneElseDecides, LargeHasTwo
<1>2. SettledInv' /\ AppliedOnce'
  BY DEF IInv, SameRequests, history, SettledInv, AppliedOnce
<1>3. LockInv'
  BY DEF IInv, TypeOK, SameRequests, history, LockInv
<1> QED
  BY <1>1, <1>2, <1>3 DEF IInv

\* The maker's steps.
LEMMA MakerSteps ==
  ASSUME IInv, NEW r \in Request,
         SubmitRead(r) \/ Submit(r) \/ SubmitDirect(r) \/ Cancel(r)
  PROVE  IInv'
<1> USE DEF IInv
<1>1. CASE SubmitRead(r)
  <2>1. TypeOK'
    BY <1>1 DEF SubmitRead, TypeOK, step, signatures, history
  <2>2. SignedInv' /\ SomeoneElseDecides' /\ LargeHasTwo'
    BY <1>1 DEF SubmitRead, TypeOK, signatures, SignedInv, SomeoneElseDecides, LargeHasTwo
  <2>3. SettledInv' /\ AppliedOnce' /\ LockInv'
    BY <1>1 DEF SubmitRead, TypeOK, history, SettledInv, AppliedOnce, LockInv
  <2> QED
    BY <2>1, <2>2, <2>3
<1>2. CASE Submit(r)
  <2>1. TypeOK'
    <3>1. /\ stage' \in [Request -> {"manager", "pool", "super_admin"}]
          /\ assigned' \in [Request -> Staff \cup {NoOne}]
          /\ late' \subseteq Request
      BY <1>2, FirstStep, EnterEffect DEF Submit
    <3>2. status' \in [Request -> {"none", "reading", "pending", "approved", "rejected", "cancelled"}]
          /\ needs' \in [Request -> {1, 2}]
      BY <1>2 DEF Submit, TypeOK
    <3> QED
      BY <1>2, <3>1, <3>2 DEF Submit, TypeOK, signatures, history
  <2>2. SignedInv' /\ SomeoneElseDecides' /\ LargeHasTwo'
    BY <1>2 DEF Submit, TypeOK, signatures, SignedInv, SomeoneElseDecides, LargeHasTwo
  <2>3. SettledInv' /\ AppliedOnce' /\ LockInv'
    BY <1>2 DEF Submit, TypeOK, history, SettledInv, AppliedOnce, LockInv
  <2> QED
    BY <2>1, <2>2, <2>3
<1>3. CASE SubmitDirect(r)
  <2>0. target' \in [Kind -> Value] /\ overtaken' = {}
    <3>1. KindOf[r] \in Kind /\ Asks[r] \in Value
      OBVIOUS
    <3>2. Lands(KindOf[r], r, Asks[r]) /\ TargetFree(KindOf[r])
      BY <1>3 DEF SubmitDirect
    <3> QED
      BY <3>1, <3>2, LandsEffect
  <2>1. TypeOK'
    <3>1. UNCHANGED <<stage, assigned, late, needs, approver, cosigner, reopening, deciding,
                      away, settled>>
      BY <1>3 DEF SubmitDirect, step, signatures
    <3>2. /\ status' = [status EXCEPT ![r] = "approved"]
          /\ before' = [before EXCEPT ![r] = target[KindOf[r]]]
          /\ decidedBy' = [decidedBy EXCEPT ![r] = Maker[r]]
          /\ effects' = [effects EXCEPT ![r] = @ + 1]
      BY <1>3 DEF SubmitDirect
    <3> QED
      BY <2>0, <3>1, <3>2 DEF TypeOK
  <2>2. SignedInv' /\ SomeoneElseDecides' /\ LargeHasTwo'
    BY <1>3 DEF SubmitDirect, TypeOK, signatures, SignedInv, SomeoneElseDecides, LargeHasTwo
  <2>3. SettledInv' /\ AppliedOnce' /\ LockInv'
    BY <1>3, <2>0 DEF SubmitDirect, TypeOK, SettledInv, AppliedOnce, LockInv
  <2> QED
    BY <2>1, <2>2, <2>3
<1>4. CASE Cancel(r)
  <2>1. TypeOK'
    BY <1>4 DEF Cancel, TypeOK, step, signatures, history
  <2>2. SignedInv' /\ SomeoneElseDecides' /\ LargeHasTwo'
    BY <1>4 DEF Cancel, TypeOK, signatures, SignedInv, SomeoneElseDecides, LargeHasTwo
  <2>3. SettledInv' /\ AppliedOnce' /\ LockInv'
    BY <1>4 DEF Cancel, TypeOK, history, SettledInv, AppliedOnce, LockInv
  <2> QED
    BY <2>1, <2>2, <2>3
<1> QED
  BY <1>1, <1>2, <1>3, <1>4

\* The steps of those who decide in the inbox.
LEMMA BeginSteps ==
  ASSUME IInv, NEW r \in Request, NEW s \in Staff, BeginApprove(r, s) \/ Reject(r, s)
  PROVE  IInv'
<1> USE DEF IInv
<1>1. CASE BeginApprove(r, s)
  <2>1. TypeOK'
    BY <1>1 DEF BeginApprove, TypeOK, step, signatures, history
  <2>2. SignedInv' /\ SomeoneElseDecides' /\ LargeHasTwo'
    BY <1>1 DEF BeginApprove, signatures, SignedInv, SomeoneElseDecides, LargeHasTwo
  <2>3. SettledInv' /\ AppliedOnce' /\ LockInv'
    BY <1>1 DEF BeginApprove, TypeOK, history, SettledInv, AppliedOnce, LockInv, TargetFree,
                OnTarget
  <2> QED
    BY <2>1, <2>2, <2>3
<1>2. CASE Reject(r, s)
  <2>0. status[r] = "pending" /\ s # Maker[r]
    BY <1>2, SlotEffect DEF Reject
  <2>1. TypeOK'
    BY <1>2 DEF Reject, TypeOK, step, signatures, history
  <2>2. SignedInv' /\ SomeoneElseDecides' /\ LargeHasTwo'
    BY <1>2, <2>0 DEF Reject, TypeOK, signatures, SignedInv, SomeoneElseDecides, LargeHasTwo
  <2>3. SettledInv' /\ AppliedOnce' /\ LockInv'
    BY <1>2, <2>0 DEF Reject, TypeOK, history, SettledInv, AppliedOnce, LockInv
  <2> QED
    BY <2>1, <2>2, <2>3
<1> QED
  BY <1>1, <1>2

\* A signature: the first of two, or the one that applies the change.
LEMMA FinishStep ==
  ASSUME IInv, NEW r \in Request, FinishApprove(r)
  PROVE  IInv'
<1> USE DEF IInv
<1> DEFINE s == deciding[r]
           slot == Slot(r, s)
           by == IF slot = "approver" THEN s ELSE approver[r]
<1>0. /\ s \in Staff /\ s # NoOne /\ slot # "none"
      /\ approver' = IF slot = "approver" THEN [approver EXCEPT ![r] = s] ELSE approver
      /\ cosigner' = IF slot = "cosigner" THEN [cosigner EXCEPT ![r] = s] ELSE cosigner
      /\ deciding' = [deciding EXCEPT ![r] = NoOne]
      /\ UNCHANGED <<before, needs, reopening, away>>
      /\ Completes(r, slot) => Apply(r, by)
      /\ ~Completes(r, slot) => SignFirst(r)
  BY DEF FinishApprove, TypeOK
<1>1. /\ status[r] = "pending"
      /\ s # Maker[r] /\ s # approver[r] /\ s # cosigner[r]
      /\ ~Barred(KindOf[r], s)
      /\ slot \in {"approver", "cosigner"}
      /\ slot = "cosigner" => needs[r] = 2 /\ s \in Cosigner
  BY <1>0, SlotEffect
<1> HIDE DEF s, slot
<1>2. SignedInv'
  <2>1. status' = status \/ status' = [status EXCEPT ![r] = "approved"]
    BY <1>0 DEF Apply, SignFirst
  <2> QED
    BY <1>0, <1>1, <2>1 DEF SignedInv, TypeOK
<1>3. CASE Completes(r, slot)
  <2>0. Apply(r, by) /\ by \in Staff \ {Maker[r]}
    BY <1>0, <1>1, <1>3 DEF Completes, TypeOK, SomeoneElseDecides
  <2>1. target' \in [Kind -> Value] /\ overtaken' = {}
    BY <1>0, <2>0, LandsEffect DEF Apply, s
  <2>2. TypeOK'
    BY <1>0, <1>1, <2>0, <2>1 DEF Apply, TypeOK, step
  <2>3. SomeoneElseDecides'
    BY <1>0, <1>1, <2>0 DEF Apply, TypeOK, SomeoneElseDecides
  <2>4. LargeHasTwo'
    <3> SUFFICES ASSUME NEW q \in Request, status'[q] = "approved", needs'[q] = 2
                 PROVE  /\ approver'[q] # NoOne /\ cosigner'[q] \in Cosigner
                        /\ approver'[q] # cosigner'[q]
                        /\ KindOf[q] \in Money => {approver'[q], cosigner'[q]} \cap GeneralManager = {}
      BY DEF LargeHasTwo
    <3>1. CASE q # r
      BY <1>0, <2>0, <3>1 DEF Apply, TypeOK, LargeHasTwo
    <3>2. CASE q = r
      <4>1. approver'[r] # NoOne /\ cosigner'[r] # NoOne
        BY <1>0, <1>1, <1>3, <3>2 DEF Completes, TypeOK
      <4>2. /\ cosigner'[r] \in Cosigner /\ approver'[r] # cosigner'[r]
            /\ ~Barred(KindOf[r], approver'[r]) /\ ~Barred(KindOf[r], cosigner'[r])
        BY <1>2, <4>1 DEF SignedInv
      <4> QED
        BY <3>2, <4>1, <4>2 DEF Barred
    <3> QED
      BY <3>1, <3>2
  <2>5. SettledInv' /\ AppliedOnce'
    BY <1>0, <1>1, <2>0 DEF Apply, TypeOK, SettledInv, AppliedOnce
  <2>6. LockInv'
    BY <1>0, <2>1 DEF LockInv, TypeOK
  <2> QED
    BY <1>2, <2>2, <2>3, <2>4, <2>5, <2>6
<1>4. CASE ~Completes(r, slot)
  <2>0. SignFirst(r)
    BY <1>0, <1>4
  <2>1. TypeOK'
    <3>1. /\ stage' \in [Request -> {"manager", "pool", "super_admin"}]
          /\ assigned' \in [Request -> Staff \cup {NoOne}]
          /\ late' \subseteq Request
      BY <2>0, EnterEffect DEF SignFirst, TypeOK
    <3> QED
      BY <1>0, <1>1, <2>0, <3>1 DEF SignFirst, TypeOK, history
  <2>2. SomeoneElseDecides' /\ LargeHasTwo'
    BY <1>0, <1>1, <2>0 DEF SignFirst, TypeOK, SomeoneElseDecides, LargeHasTwo
  <2>3. SettledInv' /\ AppliedOnce' /\ LockInv'
    BY <1>0, <2>0 DEF SignFirst, TypeOK, history, SettledInv, AppliedOnce, LockInv
  <2> QED
    BY <1>2, <2>1, <2>2, <2>3
<1> QED
  BY <1>3, <1>4

\* The queue settles every pending request on the business it decides.
LEMMA QueueStep ==
  ASSUME IInv, NEW k \in Kind, NEW s \in Staff, NEW v \in {"verified", "rejected"},
         QueueDecide(k, s, v)
  PROVE  IInv'
<1> USE DEF IInv
<1> DEFINE closed == OnTarget(k) \cap Pending
<1>0. /\ k \in Queued /\ TargetFree(k)
      /\ \A r \in closed : Maker[r] # s
      /\ status' = [r \in Request |-> IF r \notin closed THEN status[r]
                                      ELSE IF v = "verified" THEN "approved" ELSE "rejected"]
      /\ decidedBy' = [r \in Request |-> IF r \in closed THEN s ELSE decidedBy[r]]
      /\ settled' = settled \cup closed
      /\ Lands(k, NoOne, v)
      /\ UNCHANGED <<stage, assigned, late, before, needs, approver, cosigner, reopening,
                     deciding, away, effects>>
  BY DEF QueueDecide, step, signatures
<1>1. target' \in [Kind -> Value] /\ overtaken' = {}
  <2>1. v \in Value
    OBVIOUS
  <2> QED
    BY <1>0, <2>1, LandsEffect
<1>2. \A r \in closed : r \in Request /\ status[r] = "pending" /\ KindOf[r] = k
  BY DEF OnTarget, Pending
<1> HIDE DEF closed
<1>3. TypeOK'
  BY <1>0, <1>1, <1>2 DEF TypeOK
<1>4. SignedInv'
  BY <1>0, <1>2 DEF SignedInv
<1>5. SomeoneElseDecides'
  BY <1>0, <1>2 DEF SomeoneElseDecides
<1>6. LargeHasTwo'
  BY <1>0, <1>2 DEF SignedInv, LargeHasTwo
<1>7. SettledInv'
  BY <1>0, <1>2 DEF SettledInv, TypeOK
<1>8. AppliedOnce'
  BY <1>0, <1>2 DEF AppliedOnce, TypeOK
<1>9. LockInv'
  BY <1>0, <1>1 DEF LockInv
<1> QED
  BY <1>3, <1>4, <1>5, <1>6, <1>7, <1>8, <1>9

\* What changes no request: a failed approval, the re-review, an edit elsewhere, time, people.
LEMMA OtherSteps ==
  ASSUME IInv,
         \/ \E r \in Request : ApproveFails(r) \/ RunsOut(r) \/ Escalate(r)
         \/ \E k \in Kind, s \in Staff : ReReviewRead(k, s) \/ ReReviewSave(k, s)
         \/ \E k \in Kind, v \in Value : EditElsewhere(k, v)
         \/ \E s \in Leavers : Leave(s) \/ Return(s)
  PROVE  IInv'
<1> USE DEF IInv
<1>1. ASSUME NEW r \in Request, ApproveFails(r) PROVE IInv'
  <2>1. TypeOK'
    BY <1>1 DEF ApproveFails, TypeOK, step, signatures, history
  <2> QED
    BY <1>1, <2>1, SameKeeps DEF ApproveFails, SameRequests
<1>2. ASSUME NEW r \in Request, RunsOut(r) PROVE IInv'
  <2>1. TypeOK'
    BY <1>2 DEF RunsOut, TypeOK, signatures, history
  <2> QED
    BY <1>2, <2>1, SameKeeps DEF RunsOut, SameRequests
<1>3. ASSUME NEW r \in Request, Escalate(r) PROVE IInv'
  <2>1. PICK s \in {"manager", "pool", "super_admin"} : Enter(r, s)
    <3>1. stage[r] \in {"manager", "pool", "super_admin"}
      BY DEF TypeOK
    <3>2. NextStep(r, Rank[stage[r]]) \in {"manager", "pool", "super_admin", "none"}
      BY DEF NextStep
    <3> QED
      BY <1>3, <3>1, <3>2 DEF Escalate
  <2>2. TypeOK'
    BY <1>3, <2>1, EnterEffect DEF Escalate, TypeOK, signatures, history
  <2> QED
    BY <1>3, <2>2, SameKeeps DEF Escalate, SameRequests
<1>4. ASSUME NEW k \in Kind, NEW s \in Staff, ReReviewRead(k, s) \/ ReReviewSave(k, s)
      PROVE  IInv'
  <2>1. TypeOK'
    BY <1>4 DEF ReReviewRead, ReReviewSave, TypeOK, step, signatures, history
  <2> QED
    BY <1>4, <2>1, SameKeeps DEF ReReviewRead, ReReviewSave, SameRequests
<1>5. ASSUME NEW k \in Kind, NEW v \in Value, EditElsewhere(k, v) PROVE IInv'
  <2>1. TypeOK'
    BY <1>5 DEF EditElsewhere, TypeOK, step, signatures, history
  <2> QED
    BY <1>5, <2>1, SameKeeps DEF EditElsewhere, SameRequests
<1>6. ASSUME NEW s \in Leavers, Leave(s) \/ Return(s) PROVE IInv'
  <2>1. TypeOK'
    BY <1>6 DEF Leave, Return, TypeOK, step, signatures, history
  <2> QED
    BY <1>6, <2>1, SameKeeps DEF Leave, Return, SameRequests
<1> QED
  BY <1>1, <1>2, <1>3, <1>4, <1>5, <1>6

LEMMA NextInv == IInv /\ [Next]_vars => IInv'
<1>1. ASSUME IInv, Next PROVE IInv'
  <2>1. ASSUME NEW r \in Request, SubmitRead(r) \/ Submit(r) \/ SubmitDirect(r) \/ Cancel(r)
        PROVE  IInv'
    BY <1>1, <2>1, MakerSteps
  <2>2. ASSUME NEW r \in Request, NEW s \in Staff, BeginApprove(r, s) \/ Reject(r, s)
        PROVE  IInv'
    BY <1>1, <2>2, BeginSteps
  <2>3. ASSUME NEW r \in Request, FinishApprove(r) PROVE IInv'
    BY <1>1, <2>3, FinishStep
  <2>4. ASSUME NEW k \in Kind, NEW s \in Staff, NEW v \in {"verified", "rejected"},
               QueueDecide(k, s, v)
        PROVE  IInv'
    BY <1>1, <2>4, QueueStep
  <2> QED
    BY <1>1, <2>1, <2>2, <2>3, <2>4, OtherSteps DEF Next
<1>2. ASSUME IInv, UNCHANGED vars PROVE IInv'
  BY <1>2 DEF vars, step, signatures, history, IInv, TypeOK, SignedInv, SomeoneElseDecides,
              LargeHasTwo, SettledInv, AppliedOnce, LockInv
<1> QED
  BY <1>1, <1>2

THEOREM Inductive == Spec => []IInv
BY InitInv, NextInv, PTL DEF Spec

-----------------------------------------------------------------------------

\* Every variable keeps its type.
THEOREM TypesHold == Spec => []TypeOK
<1>1. IInv => TypeOK
  BY DEF IInv
<1> QED
  BY <1>1, Inductive, PTL

\* No change takes effect, in the inbox or at the queue, on its maker's word alone.
THEOREM NobodyDecidesTheirOwn == Spec => []SomeoneElseDecides
<1>1. IInv => SomeoneElseDecides
  BY DEF IInv
<1> QED
  BY <1>1, Inductive, PTL

\* A large amount applied from the inbox carries two signatures, one a co-signer's.
THEOREM LargeAmountsHaveTwo == Spec => []LargeHasTwo
<1>1. IInv => LargeHasTwo
  BY DEF IInv
<1> QED
  BY <1>1, Inductive, PTL

\* A request is applied once when it is approved in the inbox, and never otherwise.
THEOREM EffectsMatch == Spec => []AppliedOnce
<1>1. IInv => AppliedOnce
  BY DEF IInv
<1> QED
  BY <1>1, Inductive, PTL

\* Two decisions on one target, whichever door they come by, never overlap.
THEOREM OneDecisionAtATime == Spec => []DecisionsInTurn
<1>1. IInv => DecisionsInTurn
  BY DEF IInv, LockInv, DecisionsInTurn
<1> QED
  BY <1>1, Inductive, PTL

-----------------------------------------------------------------------------
(* The subscription clock.                                                 *)

Notice == {"ended", "day 7", "day 13", "paused"}
Phase == {"overdue", "reminders", "pause"}

ClockTyped ==
  /\ time \in 0..MaxTime
  /\ period \in Nat \cup {Never}
  /\ clock \in [overdue : Nat \cup {Never}, day7 : BOOLEAN, day13 : BOOLEAN, paused : BOOLEAN]
  /\ told \in Seq(Notice) /\ first \in Nat \cup {Never} /\ covered \in BOOLEAN
RunTyped ==
  run \in [Run -> [phase : Phase \cup {"idle"}, listed : BOOLEAN, now : 0..MaxTime]]
RestTyped ==
  /\ paying \subseteq Cycle
  /\ offered \in BOOLEAN /\ selling \in BOOLEAN /\ pausing \in BOOLEAN
  /\ switched \in 0..MaxSwitches

\* A clock that does not run has sent nothing; one that does has said first that the period
\* ended, at most LateDiscovery and the length of a run after overdue_since.
ToldInv ==
  /\ clock.overdue = Never => clock = Stopped /\ told = <<>>
  /\ clock.overdue # Never =>
       /\ told # <<>>
       /\ first \in Nat /\ first <= clock.overdue + LateDiscovery + Slow
\* A notice sent left its stamp.
Stamped(c, n) ==
  /\ n = "day 7" => c.day7
  /\ n = "day 13" => c.day13
  /\ n = "paused" => c.paused
StampInv == \A i \in 1..Len(told) : Stamped(clock, told[i])
\* Within a paid period the clock does not run.
PaidInv == covered => clock.overdue = Never /\ time < period
\* A run's `now` is past, and not for longer than a run takes.
RunInv ==
  \A r \in Run :
    /\ run[r].now <= time
    /\ run[r].phase = "idle" => run[r] = Idle
    /\ run[r] # Idle => time <= run[r].now + Slow

ClockInv == ClockTyped /\ ToldInv /\ StampInv /\ PaidInv
BillingInv == ClockInv /\ RunTyped /\ RunInv /\ RestTyped

LEMMA Parts == BillingTypeOK <=> ClockTyped /\ RunTyped /\ RestTyped
BY DEF BillingTypeOK, ClockTyped, RunTyped, RestTyped, Notice, Phase

LEMMA Amounts ==
  /\ Day7 \in Nat /\ Day13 \in Nat /\ Grace \in Nat /\ LateDiscovery \in Nat
  /\ Slow \in Nat /\ MaxTime \in Nat /\ MaxSwitches \in Nat
  /\ Never = -1 /\ Never \notin Nat
BY BillingAssumption DEF Never

LEMMA StoppedType ==
  /\ Stopped \in [overdue : Nat \cup {Never}, day7 : BOOLEAN, day13 : BOOLEAN, paused : BOOLEAN]
  /\ Stopped.overdue = Never /\ ~Stopped.paused
BY DEF Stopped

LEMMA StartIdle ==
  Idle \in [phase : Phase \cup {"idle"}, listed : BOOLEAN, now : {0}] /\ Idle.now = 0
BY DEF Idle

LEMMA Ranks ==
  /\ \A n \in Notice \ {"paused"} : NoticeRank(n) < NoticeRank("paused")
  /\ \A n \in {"ended", "day 7"} : NoticeRank(n) < NoticeRank("day 13")
  /\ NoticeRank("ended") < NoticeRank("day 7")
<1>1. NoticeRank("ended") < NoticeRank("day 7")
  BY DEF NoticeRank
<1>2. NoticeRank("ended") < NoticeRank("day 13") /\ NoticeRank("day 7") < NoticeRank("day 13")
  BY DEF NoticeRank
<1>3. NoticeRank("ended") < NoticeRank("paused") /\ NoticeRank("day 7") < NoticeRank("paused") /\ NoticeRank("day 13") < NoticeRank("paused")
  BY DEF NoticeRank
<1>4. \A n \in Notice \ {"paused"} : n = "ended" \/ n = "day 7" \/ n = "day 13"
  BY DEF Notice
<1>5. \A n \in Notice \ {"paused"} : NoticeRank(n) < NoticeRank("paused")
  BY <1>3, <1>4, Zenon
<1>6. \A n \in {"ended", "day 7"} : NoticeRank(n) < NoticeRank("day 13")
  BY <1>2, Zenon
<1> QED BY <1>1, <1>5, <1>6

LEMMA NothingTold ==
  /\ <<>> \in Seq(Notice)
  /\ Len(<<>>) = 0 /\ ~(\E i \in 1..Len(<<>>) : TRUE)
OBVIOUS

LEMMA InitIInv == BillingInit => BillingInv
<1> SUFFICES ASSUME BillingInit PROVE BillingInv
  OBVIOUS
<1>1. ClockTyped
  <2>1. time \in 0..MaxTime /\ period \in Nat \cup {Never} /\ first \in Nat \cup {Never}
    BY Amounts DEF BillingInit
  <2>2. told \in Seq(Notice) /\ covered \in BOOLEAN
    BY NothingTold DEF BillingInit
  <2> QED BY <2>1, <2>2, StoppedType DEF BillingInit, ClockTyped
<1>2. ToldInv /\ PaidInv
  BY StoppedType DEF BillingInit, ToldInv, PaidInv
<1>3. StampInv
  BY NothingTold DEF BillingInit, StampInv
<1>4. RunTyped /\ RunInv
  BY Amounts DEF BillingInit, RunTyped, RunInv, Idle, Phase
<1>5. RestTyped
  BY Amounts DEF BillingInit, RestTyped
<1> QED BY <1>1, <1>2, <1>3, <1>4, <1>5 DEF BillingInv, ClockInv

\* What a step leaves alone keeps its part of the invariant.
LEMMA ClockStands ==
  ASSUME ClockInv, UNCHANGED <<time, period, clock, told, first, covered>>
  PROVE  ClockInv'
BY DEF ClockInv, ClockTyped, ToldInv, StampInv, PaidInv

LEMMA RunStands ==
  ASSUME RunTyped, RunInv, UNCHANGED <<time, run>>
  PROVE  RunTyped' /\ RunInv'
BY DEF RunTyped, RunInv

-----------------------------------------------------------------------------
(* The owner's steps.                                                      *)

LEMMA OwnerKeeps ==
  ASSUME BillingInv, NEW length \in Cycle,
         \/ Subscribe(length) \/ BeginPayment(length)
         \/ FinalizeSubscription(length) \/ PaymentFailed(length)
  PROVE  BillingInv'
<1> USE DEF BillingInv
<1>1. length \in Nat \ {0}
  BY BillingAssumption
<1>2. CASE Subscribe(length)
  <2>1. ClockInv'
    <3>1. /\ period' = time + length /\ UNCHANGED <<time, clock, told, first, covered>>
      BY <1>2 DEF Subscribe, noticeHistory
    <3>2. period' \in Nat /\ time < period'
      BY <1>1, <3>1, Amounts DEF ClockInv, ClockTyped
    <3>3. ClockTyped' /\ PaidInv'
      BY <3>1, <3>2 DEF ClockInv, ClockTyped, PaidInv
    <3>4. ToldInv' /\ StampInv'
      BY <3>1 DEF ClockInv, ToldInv, StampInv
    <3> QED BY <3>3, <3>4 DEF ClockInv
  <2> QED BY <1>2, <2>1, RunStands DEF Subscribe, switches, RestTyped
<1>3. CASE BeginPayment(length)
  <2>1. ClockInv'
    BY <1>3, ClockStands DEF BeginPayment, subscription, noticeHistory
  <2> QED BY <1>3, <2>1, RunStands DEF BeginPayment, switches, RestTyped
<1>4. CASE FinalizeSubscription(length)
  <2>1. ClockInv'
    <3>1. CASE UNCHANGED <<period, clock, noticeHistory>>
      BY <1>4, <3>1, ClockStands DEF FinalizeSubscription, noticeHistory
    <3>2. CASE /\ period' = time + length /\ clock' = Stopped
               /\ told' = <<>> /\ first' = Never /\ covered' = TRUE
      <4>1. time' = time /\ period' \in Nat /\ time < period'
        BY <1>1, <1>4, <3>2, Amounts DEF FinalizeSubscription, ClockInv, ClockTyped
      <4>2. ClockTyped'
        BY <3>2, <4>1, StoppedType DEF ClockInv, ClockTyped
      <4>3. ToldInv' /\ PaidInv'
        BY <3>2, <4>1, StoppedType DEF ToldInv, PaidInv
      <4>4. StampInv'
        BY <3>2, NothingTold DEF StampInv
      <4> QED BY <4>2, <4>3, <4>4 DEF ClockInv
    <3> QED BY <1>4, <3>1, <3>2 DEF FinalizeSubscription
  <2> QED BY <1>4, <2>1, RunStands DEF FinalizeSubscription, switches, RestTyped
<1>5. CASE PaymentFailed(length)
  <2>1. ClockInv'
    BY <1>5, ClockStands DEF PaymentFailed, subscription, noticeHistory
  <2> QED BY <1>5, <2>1, RunStands DEF PaymentFailed, switches, RestTyped
<1> QED BY <1>2, <1>3, <1>4, <1>5

-----------------------------------------------------------------------------
(* The job's steps.                                                        *)

\* A notice more, and its stamp.
LEMMA TellAdds ==
  ASSUME told \in Seq(Notice), first \in Nat \cup {Never}, time \in Nat, NEW n \in Notice, Tell(n)
  PROVE  /\ told' \in Seq(Notice) /\ Len(told') = Len(told) + 1 /\ told' # <<>> /\ told' # told
         /\ told'[Len(told')] = n
         /\ \A i \in 1..Len(told) : told'[i] = told[i]
         /\ first' = (IF told = <<>> THEN time ELSE first) /\ first' \in Nat \cup {Never}
BY DEF Tell

\* Every row handled is due: it was not paused, and the period had ended.
LEMMA HandleKeeps ==
  ASSUME ClockInv, NEW phase \in Phase, NEW now \in 0..MaxTime,
         now <= time, time <= now + Slow,
         Due(phase, now), Handle(phase, now), UNCHANGED <<time, period, covered>>
  PROVE  ClockInv'
<1> USE DEF ClockInv
<1>1. time \in Nat /\ now \in Nat
  BY Amounts DEF ClockTyped
<1>2. CASE phase = "overdue"
  <2>1. OverdueDue(now) /\ MarkOverdue(now)
    BY <1>2 DEF Due, Handle
  <2>2. period \in Nat /\ period <= now /\ clock.overdue = Never /\ clock = Stopped /\ told = <<>>
    BY <2>1 DEF OverdueDue, ClockTyped, ToldInv
  <2>3. ~covered
    BY <1>1, <2>2 DEF PaidInv
  <2> DEFINE start == ClockStart(period, now)
  <2>4. start \in Nat /\ now <= start + LateDiscovery
    BY <1>1, <2>2, Amounts DEF ClockStart
  <2>5. clock' = [clock EXCEPT !.overdue = start] /\ Tell("ended")
    BY <2>1 DEF MarkOverdue
  <2>6. /\ told' \in Seq(Notice) /\ told' # <<>> /\ Len(told') = 1 /\ told'[1] = "ended"
        /\ first' = time
    <3>1. Len(told) = 0 /\ "ended" \in Notice
      BY <2>2, NothingTold DEF Notice
    <3>2. /\ told' \in Seq(Notice) /\ Len(told') = Len(told) + 1 /\ told' # <<>>
          /\ told'[Len(told')] = "ended" /\ first' = time
      BY <1>1, <2>2, <2>5, <3>1, TellAdds DEF ClockTyped
    <3>3. Len(told') = 1
      BY <3>1, <3>2
    <3> QED BY <3>2, <3>3
  <2>7. ClockTyped'
    BY <1>1, <2>4, <2>5, <2>6 DEF ClockTyped
  <2>8. clock'.overdue = start /\ start # Never /\ first' <= start + LateDiscovery + Slow
    BY <1>1, <2>4, <2>5, <2>6, Amounts DEF ClockTyped
  <2>9. ToldInv' /\ PaidInv'
    BY <1>1, <2>3, <2>6, <2>8 DEF ToldInv, PaidInv
  <2>10. StampInv'
    <3> SUFFICES ASSUME NEW i \in 1..Len(told') PROVE told'[i] = "ended"
      BY DEF StampInv, Stamped
    <3>1. i = 1
      BY <2>6
    <3> QED BY <2>6, <3>1
  <2> QED BY <2>7, <2>9, <2>10
<1>3. CASE phase # "overdue"
  <2>1. clock.overdue # Never /\ clock.overdue \in Nat
    BY <1>3 DEF Due, ReminderDue, PauseDue, Phase, ClockTyped
  <2>2. PICK n \in Notice :
          /\ Tell(n) /\ n # "ended"
          /\ clock' = [clock EXCEPT !.day7 = clock.day7 \/ n = "day 7",
                                    !.day13 = clock.day13 \/ n = "day 13",
                                    !.paused = clock.paused \/ n = "paused"]
    BY <1>3 DEF Handle, SendReminder, Pause, Phase, Notice, ClockTyped
  <2>3. /\ told' \in Seq(Notice) /\ Len(told') = Len(told) + 1 /\ told' # <<>>
        /\ told'[Len(told')] = n /\ \A i \in 1..Len(told) : told'[i] = told[i]
        /\ first' = first
    BY <1>1, <2>1, <2>2, TellAdds DEF ClockTyped, ToldInv
  <2>4. /\ clock'.overdue = clock.overdue
        /\ Stamped(clock', n)
        /\ \A m \in Notice : Stamped(clock, m) => Stamped(clock', m)
    BY <2>2 DEF ClockTyped, Stamped
  <2>5. ClockTyped'
    BY <2>2, <2>3 DEF ClockTyped
  <2>6. ToldInv' /\ PaidInv'
    BY <2>1, <2>3, <2>4 DEF ToldInv, PaidInv
  <2>7. StampInv'
    <3> SUFFICES ASSUME NEW i \in 1..Len(told')
                 PROVE  Stamped(clock', told'[i])
      BY DEF StampInv
    <3>1. CASE i \in 1..Len(told)
      <4>1. told'[i] = told[i]
        BY <2>3, <3>1
      <4>2. told[i] \in Notice /\ Stamped(clock, told[i])
        BY <3>1 DEF StampInv, ClockTyped
      <4> QED BY <2>4, <4>1, <4>2
    <3>2. CASE i = Len(told')
      <4>1. told'[i] = n
        BY <2>3, <3>2
      <4> QED BY <2>4, <4>1
    <3>3. Len(told) \in Nat /\ Len(told') = Len(told) + 1
      BY <2>3 DEF ClockTyped
    <3> QED BY <3>1, <3>2, <3>3
  <2> QED BY <2>5, <2>6, <2>7
<1> QED BY <1>2, <1>3

\* A run goes on to a phase with a name, or is over.
LEMMA NextPhaseKeeps ==
  ASSUME RunTyped, RunInv, time \in Nat, NEW r \in Run, run[r].phase \in Phase, NextPhase(r),
         time' = time
  PROVE  RunTyped' /\ RunInv'
<1> DEFINE next == [overdue |-> "reminders", reminders |-> "pause", pause |-> "idle"][run[r].phase]
           then == [phase |-> next, listed |-> FALSE, now |-> run[r].now]
<1>1. next \in {"reminders", "pause", "idle"}
  BY DEF Phase
<1>2. \/ run' = [run EXCEPT ![r] = Idle]
      \/ next # "idle" /\ run' = [run EXCEPT ![r] = then]
  BY DEF NextPhase
<1>3. CASE run' = [run EXCEPT ![r] = Idle]
  <2>1. RunTyped'
    BY <1>3, Amounts, StartIdle DEF RunTyped
  <2>2. run'[r] = Idle /\ \A q \in Run \ {r} : run'[q] = run[q]
    BY <1>3 DEF RunTyped
  <2>3. RunInv'
    BY <2>2, Amounts, StartIdle DEF RunInv, RunTyped
  <2> QED BY <2>1, <2>3
<1>4. CASE next # "idle" /\ run' = [run EXCEPT ![r] = then]
  <2>1. then \in [phase : Phase, listed : BOOLEAN, now : 0..MaxTime]
    BY <1>1, <1>4 DEF RunTyped, Phase
  <2>2. run[r] # Idle
    BY DEF Idle, Phase
  <2> QED BY <1>4, <2>1, <2>2 DEF RunTyped, RunInv, Phase
<1> QED BY <1>2, <1>3, <1>4

LEMMA JobKeeps ==
  ASSUME BillingInv, NEW r \in Run, Tick(r) \/ List(r) \/ Take(r) \/ Skip(r) \/ Die(r)
  PROVE  BillingInv'
<1> USE DEF BillingInv
<1>1. run[r] # Idle => run[r].phase \in Phase /\ run[r].now \in 0..MaxTime
  BY DEF RunTyped, RunInv
<1>2. (run[r].listed => run[r] # Idle) /\ time \in Nat
  BY Amounts DEF Idle, ClockInv, ClockTyped
<1>3. CASE Tick(r)
  <2>1. ClockInv'
    BY <1>3, ClockStands DEF Tick, subscription, noticeHistory
  <2>2. time \in 0..MaxTime /\ time' = time
    BY <1>3 DEF Tick, ClockInv, ClockTyped
  <2>3. RunTyped' /\ RunInv'
    BY <1>3, <2>2, Amounts DEF Tick, RunTyped, RunInv, Phase
  <2> QED BY <1>3, <2>1, <2>3 DEF Tick, switches, RestTyped
<1>4. CASE List(r)
  <2>1. ClockInv'
    BY <1>4, ClockStands DEF List, subscription, noticeHistory
  <2>2. RunTyped' /\ RunInv'
    <3>1. CASE NextPhase(r)
      BY <1>1, <1>2, <1>4, <3>1, NextPhaseKeeps DEF List
    <3>2. CASE run' = [run EXCEPT ![r].listed = TRUE]
      BY <1>1, <1>4, <3>2 DEF List, RunTyped, RunInv, Idle, Phase
    <3> QED BY <1>4, <3>1, <3>2 DEF List
  <2> QED BY <1>4, <2>1, <2>2 DEF List, switches, RestTyped
<1>5. CASE Take(r)
  <2>1. ClockInv'
    <3>1. CASE UNCHANGED <<subscription, noticeHistory>>
      BY <1>5, <3>1, ClockStands DEF Take, subscription, noticeHistory
    <3>2. CASE /\ StillDue(run[r].phase, run[r].now)
               /\ Handle(run[r].phase, run[r].now) /\ UNCHANGED <<period, covered>>
      <4>1. /\ run[r].phase \in Phase /\ run[r].now \in 0..MaxTime
            /\ run[r].now <= time /\ time <= run[r].now + Slow
        BY <1>1, <1>2, <1>5 DEF Take, RunInv
      <4>2. Due(run[r].phase, run[r].now) /\ time' = time
        BY <1>5, <3>2 DEF StillDue, Take
      <4> QED BY <3>2, <4>1, <4>2, HandleKeeps
    <3> QED BY <1>5, <3>1, <3>2 DEF Take
  <2>2. RunTyped' /\ RunInv'
    BY <1>1, <1>2, <1>5, NextPhaseKeeps DEF Take
  <2> QED BY <1>5, <2>1, <2>2 DEF Take, switches, RestTyped
<1>6. CASE Skip(r)
  <2>1. ClockInv'
    BY <1>6, ClockStands DEF Skip, subscription, noticeHistory
  <2>2. RunTyped' /\ RunInv'
    BY <1>1, <1>2, <1>6, NextPhaseKeeps DEF Skip
  <2> QED BY <1>6, <2>1, <2>2 DEF Skip, switches, RestTyped
<1>7. CASE Die(r)
  <2>1. ClockInv'
    BY <1>7, ClockStands DEF Die, subscription, noticeHistory
  <2>2. RunTyped' /\ RunInv'
    <3>1. RunTyped'
      BY <1>7, Amounts, StartIdle DEF Die, RunTyped
    <3>2. run'[r] = Idle /\ \A q \in Run \ {r} : run'[q] = run[q]
      BY <1>7 DEF Die, RunTyped
    <3>3. RunInv'
      BY <1>2, <1>7, <3>2, Amounts, StartIdle DEF Die, RunInv, RunTyped
    <3> QED BY <3>1, <3>3
  <2> QED BY <1>7, <2>1, <2>2 DEF Die, switches, RestTyped
<1> QED BY <1>3, <1>4, <1>5, <1>6, <1>7

-----------------------------------------------------------------------------
LEMMA NextIInv == BillingInv /\ [BillingNext]_billingVars => BillingInv'
<1> SUFFICES ASSUME BillingInv, [BillingNext]_billingVars PROVE BillingInv'
  OBVIOUS
<1>1. CASE OwnerStep
  BY <1>1, OwnerKeeps DEF OwnerStep
<1>2. CASE JobStep
  BY <1>2, JobKeeps DEF JobStep
<1>3. CASE Switch
  <2>1. ClockInv' /\ RunTyped' /\ RunInv'
    BY <1>3, ClockStands, RunStands DEF Switch, subscription, noticeHistory, BillingInv
  <2>2. RestTyped'
    <3>1. switched' \in 0..MaxSwitches /\ paying' \subseteq Cycle
      BY <1>3, Amounts DEF Switch, BillingInv, RestTyped
    <3>2. offered' \in BOOLEAN /\ selling' \in BOOLEAN /\ pausing' \in BOOLEAN
      BY <1>3, Zenon DEF Switch, BillingInv, RestTyped
    <3> QED BY <3>1, <3>2 DEF RestTyped
  <2> QED BY <2>1, <2>2 DEF BillingInv
<1>4. CASE Pass
  <2>1. /\ time' = time + 1 /\ time \in Nat /\ time' \in 0..MaxTime
        /\ UNCHANGED <<period, clock, told, first>>
        /\ covered' = (covered /\ time' < period)
    BY <1>4, Amounts DEF Pass, subscription, BillingInv, ClockInv, ClockTyped
  <2>2. ClockInv'
    BY <2>1 DEF BillingInv, ClockInv, ClockTyped, ToldInv, StampInv, PaidInv
  <2>3. RunTyped' /\ RunInv'
    BY <1>4, <2>1, Amounts DEF Pass, BillingInv, RunTyped, RunInv
  <2> QED BY <1>4, <2>2, <2>3 DEF Pass, switches, BillingInv, RestTyped
<1>5. CASE UNCHANGED billingVars
  <2>1. UNCHANGED <<time, period, clock, paying, run, switches, told, first, covered>>
    BY <1>5 DEF billingVars, subscription, noticeHistory
  <2> QED BY <2>1, ClockStands, RunStands DEF BillingInv, switches, RestTyped
<1> QED BY <1>1, <1>2, <1>3, <1>4, <1>5 DEF BillingNext

\* The invariant the others follow from.
THEOREM BillingInductive == BillingSpec => []BillingInv
BY InitIInv, NextIInv, PTL DEF BillingSpec

\* Every variable has its type.
THEOREM BillingTypesHold == BillingSpec => []BillingTypeOK
<1>1. BillingInv => BillingTypeOK
  BY Parts DEF BillingInv, ClockInv
<1> QED BY <1>1, BillingInductive, PTL

\* clear_after_payment with _each's second look: whatever runs of the job are on their way
\* when a payment lands, its period is shown as paid to its end.
THEOREM PaidPeriodsAreShown == BillingSpec => []PaidIsShown
<1>1. BillingInv => PaidIsShown
  <2> SUFFICES ASSUME BillingInv, covered PROVE told = <<>> /\ ~Hidden /\ State # "overdue"
    BY DEF PaidIsShown
  <2>1. clock.overdue = Never /\ time < period /\ clock = Stopped /\ told = <<>>
    BY DEF BillingInv, ClockInv, PaidInv, ToldInv
  <2>2. ~clock.paused
    BY <2>1, StoppedType
  <2>3. ~(period <= time)
    BY <2>1, Amounts DEF BillingInv, ClockInv, ClockTyped
  <2> QED BY <2>1, <2>2, <2>3 DEF Hidden, State
<1> QED BY <1>1, BillingInductive, PTL

\* A step that sends a notice sends it in its turn, and the last not before the grace is over.
LEMMA InTurn ==
  ASSUME BillingInv, NEW r \in Run, Take(r), told' # told, told' # <<>>
  PROVE  LET notice == told'[Len(told')] IN
         /\ \A i \in 1..Len(told) : NoticeRank(told[i]) < NoticeRank(notice)
         /\ (told = <<>>) <=> (notice = "ended")
         /\ notice = "paused" => time - first >= Grace - LateDiscovery - Slow
<1> DEFINE phase == run[r].phase
           now == run[r].now
           notice == told'[Len(told')]
<1>1. Due(phase, now) /\ Handle(phase, now)
  BY DEF Take, StillDue, noticeHistory
<1>2. now \in Nat /\ now <= time /\ time \in Nat
  BY DEF BillingInv, RunTyped, RunInv, ClockInv, ClockTyped
<1>3. /\ told \in Seq(Notice) /\ first \in Nat \cup {Never}
      /\ \A i \in 1..Len(told) : told[i] \in Notice /\ Stamped(clock, told[i])
  BY DEF BillingInv, ClockInv, ClockTyped, StampInv
<1>4. CASE phase = "overdue"
  <2>1. clock.overdue = Never /\ Tell("ended")
    BY <1>1, <1>4 DEF Due, Handle, OverdueDue, MarkOverdue
  <2>2. told = <<>>
    BY <2>1 DEF BillingInv, ClockInv, ToldInv
  <2>3. notice = "ended"
    BY <1>2, <1>3, <2>1, TellAdds DEF Notice
  <2> QED BY <2>2, <2>3, NothingTold
<1>5. CASE phase = "reminders"
  <2>1. /\ clock.overdue # Never /\ ~clock.paused /\ ~clock.day13
        /\ \/ Tell("day 13")
           \/ Tell("day 7") /\ ~clock.day7
    BY <1>1, <1>5 DEF Due, Handle, ReminderDue, SendReminder
  <2>2. told # <<>>
    BY <2>1 DEF BillingInv, ClockInv, ToldInv
  <2>3. \/ notice = "day 13"
        \/ notice = "day 7" /\ ~clock.day7
    BY <1>2, <1>3, <2>1, TellAdds DEF Notice
  <2>4. \A i \in 1..Len(told) : told[i] = "ended" \/ (told[i] = "day 7" /\ clock.day7)
    BY <1>3, <2>1 DEF Stamped, Notice
  <2>5. \A i \in 1..Len(told) : NoticeRank(told[i]) < NoticeRank(notice)
    <3> SUFFICES ASSUME NEW i \in 1..Len(told) PROVE NoticeRank(told[i]) < NoticeRank(notice)
      OBVIOUS
    <3>1. CASE notice = "day 13"
      <4>1. told[i] \in {"ended", "day 7"}
        BY <2>4
      <4> QED BY <3>1, <4>1, Ranks, Zenon
    <3>2. CASE notice = "day 7" /\ ~clock.day7
      <4>1. told[i] = "ended"
        BY <2>4, <3>2
      <4> QED BY <3>2, <4>1, Ranks, Zenon
    <3> QED BY <2>3, <3>1, <3>2
  <2> QED BY <2>2, <2>3, <2>5
<1>6. CASE phase = "pause"
  <2>1. clock.overdue # Never /\ ~clock.paused /\ clock.overdue <= now - Grace /\ Tell("paused")
    BY <1>1, <1>6 DEF Due, Handle, PauseDue, Pause
  <2>2. /\ told # <<>> /\ first \in Nat /\ clock.overdue \in Nat
        /\ first <= clock.overdue + LateDiscovery + Slow
    BY <2>1 DEF BillingInv, ClockInv, ClockTyped, ToldInv
  <2>3. notice = "paused"
    BY <1>2, <1>3, <2>1, TellAdds DEF Notice
  <2>4. \A i \in 1..Len(told) : told[i] \in Notice \ {"paused"}
    BY <1>3, <2>1 DEF Stamped
  <2>5. \A i \in 1..Len(told) : NoticeRank(told[i]) < NoticeRank(notice)
    <3> SUFFICES ASSUME NEW i \in 1..Len(told) PROVE NoticeRank(told[i]) < NoticeRank(notice)
      OBVIOUS
    <3> QED BY <2>3, <2>4, Ranks, Zenon
  <2>6. time - first >= Grace - LateDiscovery - Slow
    BY <1>2, <2>1, <2>2, Amounts
  <2> QED BY <2>2, <2>3, <2>5, <2>6
<1> QED BY <1>1, <1>4, <1>5, <1>6 DEF Due

\* "Nobody is paused on the spot for a lapse they were never told about" (clock.py): for every
\* grace, however late the job comes and however its runs cross.
THEOREM NobodyIsHiddenUnwarned == BillingSpec => FairWarning
<1> DEFINE Warned ==
      LET notice == told'[Len(told')] IN
      told' # told /\ told' # <<>> =>
        /\ \A i \in 1..Len(told) : NoticeRank(told[i]) < NoticeRank(notice)
        /\ (told = <<>>) <=> (notice = "ended")
        /\ notice = "paused" => time - first >= Grace - LateDiscovery - Slow
<1>1. BillingInv /\ [BillingNext]_billingVars => Warned
  <2> SUFFICES ASSUME BillingInv, [BillingNext]_billingVars, told' # told, told' # <<>> PROVE Warned
    OBVIOUS
  <2>1. PICK r \in Run : Take(r)
    BY DEF BillingNext, OwnerStep, JobStep, Subscribe, BeginPayment, FinalizeSubscription, PaymentFailed,
       Tick, List, Skip, Die, Switch, Pass, noticeHistory, billingVars
  <2> QED BY <2>1, InTurn
<1>2. BillingInv /\ [BillingNext]_billingVars => [Warned]_billingVars
  BY <1>1
<1> QED BY <1>2, BillingInductive, PTL DEF BillingSpec, FairWarning

=============================================================================
