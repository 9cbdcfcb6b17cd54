------------------------------ MODULE Approvals ------------------------------
(***************************************************************************)
(* The approvals engine: a change is staged, waits for someone other than  *)
(* its maker, moves up when nobody answers, and is applied once; and the   *)
(* KYC queue, the second door to one of its kinds.  Sources:               *)
(* src/backend/approvals/{services,rules,models}.py, accounts/kyc.py,      *)
(* accounts/views.py.                                                      *)
(*                                                                         *)
(* Every kind has one target here.  A decision holds the request's row and *)
(* then the target's advisory lock until it commits: it is two steps, the  *)
(* check of what is decided and its application.  A refusal, a failed      *)
(* check and a crashed process roll everything back: no step.  Reminders   *)
(* and notices are not modelled; permissions and roles do not change,      *)
(* people come and go.                                                     *)
(***************************************************************************)
EXTENDS Naturals, FiniteSets

CONSTANTS Staff, Request, Kind, Value, NoOne,
          KindOf, Maker, Asks, \* of a request: its kind, its maker, the state it asks for
          Manager,        \* of a staffer
          SuperAdmin, ViewAll, Pool, Cosigner, GeneralManager, \* who holds which role or permission
          TwoPeople, Money, WithAmount, \* kinds: ApprovalKind.two_people, money, amount_of
          Queued,         \* the kinds that have a queue of their own beside the inbox: business.kyc
          Desk,           \* bound: who works at that queue, of those who may
          Leavers         \* bound: who may be suspended

ASSUME ApprovalsAssumption ==
  /\ NoOne \notin Staff
  /\ KindOf \in [Request -> Kind] /\ Maker \in [Request -> Staff] /\ Asks \in [Request -> Value]
  /\ Manager \in [Staff -> Staff \cup {NoOne}]
  /\ SuperAdmin \subseteq ViewAll /\ ViewAll \subseteq Staff
  /\ Pool \subseteq Staff /\ GeneralManager \subseteq Staff
  /\ Cosigner \subseteq Staff \ ViewAll
  /\ Desk \subseteq Pool \cup ViewAll /\ Leavers \subseteq Staff
  /\ TwoPeople \subseteq Kind /\ Money \subseteq Kind
  /\ WithAmount \subseteq Kind /\ Queued \subseteq TwoPeople \ WithAmount
  /\ {"pending", "verified", "rejected"} \subseteq Value

VARIABLES
  status, stage, assigned, \* ApprovalRequest, by request
  before,    \* the target's state as the maker read it
  needs,     \* required_approvals
  approver, cosigner, \* ApprovalDecision in each slot
  decidedBy,
  late,      \* the requests past due_at
  target,    \* what the kind's current_state reads
  reopening, \* who has read the target of a kind as rejected, to send it back, and not saved yet
  deciding,  \* who approves a request, between the check and the commit
  away,      \* staff suspended or inactive
  settled,   \* history: the requests the queue closed
  effects,   \* history: how often a request was applied
  overtaken  \* history: the requests whose target was decided on behind their check

signatures == <<approver, cosigner>>
step == <<stage, assigned, late>>
history == <<settled, effects, overtaken>>
vars == <<status, step, before, needs, signatures, decidedBy, target, reopening, deciding, away, history>>

Init ==
  /\ status = [r \in Request |-> "none"]
  /\ stage = [r \in Request |-> "super_admin"]
  /\ assigned = [r \in Request |-> NoOne]
  /\ before \in [Request -> {"pending"}]
  /\ needs = [r \in Request |-> 1]
  /\ approver = [r \in Request |-> NoOne]
  /\ cosigner = [r \in Request |-> NoOne]
  /\ decidedBy = [r \in Request |-> NoOne]
  /\ late = {}
  /\ target = [k \in Kind |-> "pending"]
  /\ reopening = {}
  /\ deciding = [r \in Request |-> NoOne]
  /\ away = {}
  /\ settled = {} /\ overtaken = {}
  /\ effects = [r \in Request |-> 0]

Pending == {r \in Request : status[r] = "pending"}
OnTarget(k) == {r \in Request : KindOf[r] = k}
Unlocked(r) == deciding[r] = NoOne

-----------------------------------------------------------------------------
(* Who decides.                                                            *)

\* barred: the General Manager on money.
Barred(k, s) == k \in Money /\ s \in GeneralManager

Rank == [manager |-> 1, pool |-> 2, super_admin |-> 3]

\* A manager at work who may decide the kind.
ManagerDecides(r) ==
  LET m == Manager[Maker[r]] IN m \in Staff \ away /\ ~Barred(KindOf[r], m)

\* Slip: past its manager, a request stays in the pool.
NextStepSame(r, from) == IF from = 0 /\ ManagerDecides(r) THEN "manager" ELSE "pool"
\* default_chain: the first step past a rank; _next_step: "none" past the last.
NextStep(r, from) ==
  IF from = 0 /\ ManagerDecides(r) THEN "manager"
  ELSE IF from < Rank["pool"] THEN "pool"
  ELSE IF from < Rank["super_admin"] THEN "super_admin"
  ELSE "none"

\* _enter_stage.
Enter(r, s) ==
  /\ stage' = [stage EXCEPT ![r] = s]
  /\ assigned' = [assigned EXCEPT ![r] = IF s = "manager" THEN Manager[Maker[r]] ELSE NoOne]
  /\ late' = late \ {r}

\* waiting_on.
WaitingOn(r) ==
  IF approver[r] = NoOne THEN "approver"
  ELSE IF needs[r] = 2 /\ cosigner[r] = NoOne THEN "cosigner"
  ELSE "none"

\* _regular_approvers.
Regular(r) ==
  {s \in Staff \ (away \cup {Maker[r]}) :
     /\ ~Barred(KindOf[r], s)
     /\ CASE stage[r] = "manager" -> s = assigned[r]
          [] stage[r] = "pool" -> s \in Pool
          [] OTHER -> s \in ViewAll}

\* Slip: the maker is not looked at.
MayDecideAny(r, s) ==
  /\ status[r] = "pending"
  /\ s \notin {approver[r], cosigner[r]} /\ ~Barred(KindOf[r], s)

\* Pending, and not the maker, nor someone who signed, nor barred.
MayDecide(r, s) ==
  /\ status[r] = "pending"
  /\ s # Maker[r]
  /\ s \notin {approver[r], cosigner[r]} /\ ~Barred(KindOf[r], s)

\* slot_for.
Slot(r, s) ==
  IF ~MayDecide(r, s) THEN "none"
  ELSE IF WaitingOn(r) = "approver" /\ (s \in ViewAll \/ s \in Regular(r)) THEN "approver"
  ELSE IF needs[r] = 2 /\ WaitingOn(r) # "none" /\ s \in Cosigner THEN "cosigner"
  ELSE "none"

-----------------------------------------------------------------------------
(* The maker.                                                              *)

\* A Super Admin's own change, unless the kind takes two people.
Direct(r) == Maker[r] \in SuperAdmin /\ KindOf[r] \notin TwoPeople

\* _submit reads the target's state without its lock ...
SubmitRead(r) ==
  /\ status[r] = "none" /\ ~Direct(r) /\ Maker[r] \notin away
  /\ before' = [before EXCEPT ![r] = target[KindOf[r]]]
  /\ status' = [status EXCEPT ![r] = "reading"]
  /\ UNCHANGED <<step, needs, signatures, decidedBy, target, reopening, deciding, away, history>>

\* ... and commits the request; two must sign an amount over the limit in force now.
Submit(r) ==
  /\ status[r] = "reading"
  /\ status' = [status EXCEPT ![r] = "pending"]
  /\ \E n \in {1, 2} : (n = 2 => KindOf[r] \in WithAmount) /\ needs' = [needs EXCEPT ![r] = n]
  /\ Enter(r, NextStep(r, 0))
  /\ UNCHANGED <<before, signatures, decidedBy, target, reopening, deciding, away, history>>

\* Slip: nobody waits for the target's lock.
TargetUnlocked(k) == TRUE
\* No decision on the target is between its check and its commit.
TargetFree(k) == \A r \in OnTarget(k) : deciding[r] = NoOne

\* A decision on the target lands, by request r or (NoOne) at the queue.
Lands(k, r, v) ==
  /\ target' = [target EXCEPT ![k] = v]
  /\ overtaken' = overtaken \cup {q \in OnTarget(k) \ {r} : deciding[q] # NoOne}

SubmitDirect(r) ==
  /\ status[r] = "none" /\ Direct(r) /\ Maker[r] \notin away
  /\ TargetFree(KindOf[r])
  /\ status' = [status EXCEPT ![r] = "approved"]
  /\ before' = [before EXCEPT ![r] = target[KindOf[r]]]
  /\ decidedBy' = [decidedBy EXCEPT ![r] = Maker[r]]
  /\ Lands(KindOf[r], r, Asks[r])
  /\ effects' = [effects EXCEPT ![r] = @ + 1]
  /\ UNCHANGED <<step, needs, signatures, reopening, deciding, away, settled>>

Cancel(r) ==
  /\ status[r] = "pending" /\ Unlocked(r) /\ Maker[r] \notin away
  /\ status' = [status EXCEPT ![r] = "cancelled"]
  /\ decidedBy' = [decidedBy EXCEPT ![r] = Maker[r]]
  /\ UNCHANGED <<step, before, needs, signatures, target, reopening, deciding, away, history>>

-----------------------------------------------------------------------------
(* The decision.                                                           *)

\* is_kyc_submitter, its requests: no maker of one for this business, whatever became of it.
Submitter(k, s) == \E r \in OnTarget(k) : Maker[r] = s /\ status[r] \notin {"none", "reading"}

\* _approve up to the kind's validation. A slot is signed once (the table's constraint).
BeginApprove(r, s) ==
  /\ s \in Staff \ away /\ Unlocked(r)
  /\ Slot(r, s) # "none"
  /\ Slot(r, s) = "cosigner" => cosigner[r] = NoOne
  /\ TargetFree(KindOf[r])
  /\ target[KindOf[r]] = before[r]
  /\ KindOf[r] \in Queued => target[KindOf[r]] = "pending"
  /\ deciding' = [deciding EXCEPT ![r] = s]
  /\ UNCHANGED <<status, step, before, needs, signatures, decidedBy, target, reopening, away, history>>

\* Slip: one signature applies a request, whatever it needs.
OneIsEnough(r, slot) == slot = "approver" \/ needs[r] = 1
\* The signature in this slot is the last the request waits for.
Completes(r, slot) ==
  \/ needs[r] = 1
  \/ slot = "approver" /\ cosigner[r] # NoOne
  \/ slot = "cosigner" /\ approver[r] # NoOne

\* _first_of_two.
SignFirst(r) ==
  /\ Enter(r, stage[r])
  /\ UNCHANGED <<status, decidedBy, target, history>>

\* The change is applied, in the approver's name. approve_owner, the kind of the queue,
\* looks again at the owner and at who supplied its details.
Apply(r, by) ==
  /\ KindOf[r] \in Queued => target[KindOf[r]] = "pending" /\ ~Submitter(KindOf[r], by)
  /\ status' = [status EXCEPT ![r] = "approved"]
  /\ decidedBy' = [decidedBy EXCEPT ![r] = by]
  /\ Lands(KindOf[r], r, Asks[r])
  /\ effects' = [effects EXCEPT ![r] = @ + 1]
  /\ UNCHANGED <<step, settled>>

FinishApprove(r) ==
  LET s == deciding[r]
      slot == Slot(r, s)
  IN  /\ s # NoOne /\ slot # "none"
      /\ approver' = IF slot = "approver" THEN [approver EXCEPT ![r] = s] ELSE approver
      /\ cosigner' = IF slot = "cosigner" THEN [cosigner EXCEPT ![r] = s] ELSE cosigner
      /\ IF Completes(r, slot)
         THEN Apply(r, IF slot = "approver" THEN s ELSE approver[r])
         ELSE SignFirst(r)
      /\ deciding' = [deciding EXCEPT ![r] = NoOne]
      /\ UNCHANGED <<before, needs, reopening, away>>

\* The kind's apply refuses or crashes, or the process dies.
ApproveFails(r) ==
  /\ deciding[r] # NoOne
  /\ deciding' = [deciding EXCEPT ![r] = NoOne]
  /\ UNCHANGED <<status, step, before, needs, signatures, decidedBy, target, reopening, away, history>>

Reject(r, s) ==
  /\ s \in Staff \ away /\ Unlocked(r)
  /\ Slot(r, s) # "none"
  /\ status' = [status EXCEPT ![r] = "rejected"]
  /\ decidedBy' = [decidedBy EXCEPT ![r] = s]
  /\ UNCHANGED <<step, before, needs, signatures, target, reopening, deciding, away, history>>

-----------------------------------------------------------------------------
(* The KYC queue.                                                          *)

\* approve_owner and reject_owner from the queue, with close_pending_for_target.
QueueDecide(k, s, v) ==
  LET closed == OnTarget(k) \cap Pending IN
  /\ k \in Queued /\ s \in Desk \ away
  /\ \A r \in closed : Unlocked(r) /\ Maker[r] # s
  /\ TargetFree(k)
  /\ ~Submitter(k, s)
  /\ target[k] = "pending"
  /\ status' = [r \in Request |-> IF r \notin closed THEN status[r]
                                  ELSE IF v = "verified" THEN "approved" ELSE "rejected"]
  /\ decidedBy' = [r \in Request |-> IF r \in closed THEN s ELSE decidedBy[r]]
  /\ settled' = settled \cup closed
  /\ Lands(k, NoOne, v)
  /\ UNCHANGED <<step, before, needs, signatures, reopening, deciding, away, effects>>

\* KYCReReviewView reads the owner without a lock, and then saves it.
ReReviewRead(k, s) ==
  /\ k \in Queued /\ s \in Desk \ away
  /\ ~Submitter(k, s)
  /\ target[k] = "rejected"
  /\ reopening' = reopening \cup {<<k, s>>}
  /\ UNCHANGED <<status, step, before, needs, signatures, decidedBy, target, deciding, away, history>>

ReReviewSave(k, s) ==
  /\ <<k, s>> \in reopening
  /\ target' = [target EXCEPT ![k] = "pending"]
  /\ reopening' = reopening \ {<<k, s>>}
  /\ UNCHANGED <<status, step, before, needs, signatures, decidedBy, deciding, away, history>>

\* The target of another kind is changed where no approval is asked for.
EditElsewhere(k, v) ==
  /\ k \notin Queued
  /\ target' = [target EXCEPT ![k] = v]
  /\ UNCHANGED <<status, step, before, needs, signatures, decidedBy, reopening, deciding, away, history>>

-----------------------------------------------------------------------------
(* Time and people.                                                        *)

\* The response time of the level is over.
RunsOut(r) ==
  /\ status[r] = "pending" /\ r \notin late
  /\ late' = late \cup {r}
  /\ UNCHANGED <<status, stage, assigned, before, needs, signatures, decidedBy, target, reopening, deciding, away, history>>

AssigneeGone(r) == stage[r] = "manager" /\ assigned[r] \in away

\* _escalate_one: past its time, or its manager gone, a request moves up; at the last
\* level, or with only the co-signer missing, it gets a new time.
Escalate(r) ==
  LET up == NextStep(r, Rank[stage[r]]) IN
  /\ status[r] = "pending" /\ Unlocked(r)
  /\ \/ WaitingOn(r) = "approver" /\ (AssigneeGone(r) \/ r \in late)
        /\ Enter(r, IF up = "none" THEN stage[r] ELSE up)
     \/ WaitingOn(r) = "cosigner" /\ r \in late /\ Enter(r, stage[r])
  /\ UNCHANGED <<status, before, needs, signatures, decidedBy, target, reopening, deciding, away, history>>

Leave(s) ==
  /\ away' = away \cup {s}
  /\ UNCHANGED <<status, step, before, needs, signatures, decidedBy, target, reopening, deciding, history>>

Return(s) ==
  /\ away' = away \ {s}
  /\ UNCHANGED <<status, step, before, needs, signatures, decidedBy, target, reopening, deciding, history>>

Next ==
  \/ \E r \in Request :
       \/ SubmitRead(r) \/ Submit(r) \/ SubmitDirect(r) \/ Cancel(r)
       \/ \E s \in Staff : BeginApprove(r, s) \/ Reject(r, s)
       \/ FinishApprove(r) \/ ApproveFails(r)
       \/ RunsOut(r) \/ Escalate(r)
  \/ \E k \in Kind :
       \/ \E s \in Staff :
            \/ \E v \in {"verified", "rejected"} : QueueDecide(k, s, v)
            \/ ReReviewRead(k, s) \/ ReReviewSave(k, s)
       \/ \E v \in Value : EditElsewhere(k, v)
  \/ \E s \in Leavers : Leave(s) \/ Return(s)

Spec == Init /\ [][Next]_vars

\* A transaction that holds a row ends; time passes; escalate_due runs every five minutes
\* and skips a locked row, which is not locked for ever.
Fairness ==
  \A r \in Request :
    /\ WF_vars(FinishApprove(r) \/ ApproveFails(r))
    /\ WF_vars(RunsOut(r))
    /\ SF_vars(Escalate(r))

FairSpec == Spec /\ Fairness

-----------------------------------------------------------------------------
TypeOK ==
  /\ status \in [Request -> {"none", "reading", "pending", "approved", "rejected", "cancelled"}]
  /\ stage \in [Request -> {"manager", "pool", "super_admin"}]
  /\ assigned \in [Request -> Staff \cup {NoOne}]
  /\ before \in [Request -> Value]
  /\ needs \in [Request -> {1, 2}]
  /\ approver \in [Request -> Staff \cup {NoOne}]
  /\ cosigner \in [Request -> Staff \cup {NoOne}]
  /\ decidedBy \in [Request -> Staff \cup {NoOne}]
  /\ late \subseteq Request
  /\ target \in [Kind -> Value]
  /\ reopening \subseteq Queued \X Staff
  /\ deciding \in [Request -> Staff \cup {NoOne}]
  /\ away \subseteq Staff
  /\ settled \subseteq Request /\ overtaken \subseteq Request
  /\ effects \in [Request -> Nat]

\* No change takes effect on its maker's word alone, but for a Super Admin's own of a kind
\* that allows it; whoever signs or decides it at the queue is someone else.
SomeoneElseDecides ==
  \A r \in Request :
    /\ Maker[r] \notin {approver[r], cosigner[r]}
    /\ status[r] \in {"approved", "rejected"} => decidedBy[r] # Maker[r] \/ Direct(r)

\* A large amount applied from the inbox carries two signatures, of two people, one of
\* them a co-signer's, and on money neither is the General Manager's.
LargeHasTwo ==
  \A r \in Request :
    status[r] = "approved" /\ needs[r] = 2 =>
      /\ approver[r] # NoOne /\ cosigner[r] \in Cosigner
      /\ approver[r] # cosigner[r]
      /\ KindOf[r] \in Money => {approver[r], cosigner[r]} \cap GeneralManager = {}

\* What was approved in the inbox was applied, once; nothing else ever is: not what was
\* returned, cancelled, or settled at the queue.
AppliedOnce ==
  \A r \in Request :
    effects[r] = IF status[r] = "approved" /\ r \notin settled THEN 1 ELSE 0

\* Two decisions on one target never both pass the stale check before either is applied.
DecisionsInTurn == \A r \in overtaken : effects[r] = 0

\* A request nobody answers reaches the Super Admins (or is signed, or over).
ReachesSuperAdmin ==
  \A r \in Request :
    status[r] = "pending" ~>
      stage[r] = "super_admin" \/ approver[r] # NoOne \/ status[r] # "pending"

=============================================================================
