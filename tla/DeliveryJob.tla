---------------------------- MODULE DeliveryJob -----------------------------
(***************************************************************************)
(* The delivery of one paid door-to-door order: how the job reaches a      *)
(* rider (the manager's assignment, an accepted offer, a forced one), the  *)
(* rider's steps, the shops skipped, a second trip the customer pays for,  *)
(* and the cases all this opens.  Sources: src/backend/delivery/{services, *)
(* stops,dispatching,board,redelivery}.py, orders/{views,models}.py.       *)
(*                                                                         *)
(* Every action holds the order row's lock, so it is one step; what a      *)
(* manager or the engine read before taking it is `picked`.  Codes, pins,  *)
(* waiting times and whether an in-house rider is free are the             *)
(* environment's.  Arriving at a shop or at the door changes nothing here: *)
(* AT_PICKUP is "accepted" and AT_CUSTOMER "picked_up".  No order money    *)
(* moves in this module: OrderEscrow completes its actions.                *)
(***************************************************************************)
EXTENDS Integers, FiniteSets

CONSTANTS Vendors,  \* vendors of the order, one stop each, in the order they are visited
          Rider,
          Cases,    \* bound: cases opened on the order
          MaxTrips, \* bound: re-deliveries asked for
          LateReads \* an assignment may use an older reading of the waiting list

ASSUME JobAssumption ==
  /\ Vendors \in Nat \ {0} /\ Cases \in Nat /\ MaxTrips \in Nat
  /\ IsFiniteSet(Rider) /\ Rider \cap {"none", "open", "skipped"} = {}
  /\ LateReads \in BOOLEAN

Vendor == 1..Vendors
Case == 1..Cases

VARIABLES
  order,    \* Order.status
  moving,   \* Order.delivery_status
  refunded, \* a whole refund was given (is_wholly_refunded)
  job,      \* DeliveryAssignment and its PickupStops
  picked,   \* the order was on a waiting list read earlier, by one who may still assign it
  redo,     \* Redelivery: the status of the latest
  firstLeg, \* Redelivery.first_rider of the first
  trips,    \* how many were asked for
  case      \* Dispute

assignment == <<job, moving, picked>>
redelivery == <<redo, firstLeg, trips>>
jobVars == <<order, refunded, assignment, redelivery, case>>

NoJob == [status |-> "none", rider |-> "none", stop |-> [v \in Vendor |-> "open"],
          pickedBy |-> "none", reason |-> "none"]
NoCase == [status |-> "none", scope |-> 0, asks |-> 0]

JobInit ==
  /\ order = "paid" /\ moving = "processing" /\ refunded = FALSE
  /\ job = NoJob /\ picked = FALSE
  /\ redo = "none" /\ firstLeg = "none" /\ trips = 0
  /\ case = [c \in Case |-> NoCase]

First(S) == CHOOSE v \in S : \A w \in S : v <= w
Open(j) == {v \in Vendor : j.stop[v] = "open"}
Collected(j) == {v \in Vendor : j.stop[v] \in Rider}
CollectedByRider(j) == \E v \in Vendor : j.stop[v] = j.rider

\* Slip: whoever collected, the pickup counts.
AnyPickup(j) == j.status # "none" /\ (Collected(j) # {} \/ j.pickedBy # "none")
\* pickup_made: by the rider who has the job now.
PickupMade(j) == j.status # "none" /\ (CollectedByRider(j) \/ j.pickedBy = j.rider)

Delivered(j) == j.status = "delivered"
\* customer_unavailable: the trip reached the address and found no one.
Away(j) == j.status = "failed" /\ j.reason = "away"

-----------------------------------------------------------------------------
(* Cases. `scope` is the vendor whose skipped stop opened it, or 0 for the  *)
(* whole order; `asks` is the refund waiting for approval, in OrderEscrow.  *)

Unopened == {c \in Case : case[c].status = "none"}
OpenCases(scope) == {c \in Case : case[c].status = "open" /\ case[c].scope = scope}

NewCase(scope) ==
  /\ Unopened # {}
  /\ case' = [case EXCEPT ![First(Unopened)] = [NoCase EXCEPT !.status = "open", !.scope = scope]]

\* open_case_for_skipped_stop: a case its earlier skip opened, still open, is kept.
CaseOfSkip(v) == IF OpenCases(v) # {} THEN UNCHANGED case ELSE NewCase(v)

\* open_case_for_failed_delivery keeps an open delivery case; an open case raised for
\* another reason is not one.
CaseOfFailure == (OpenCases(0) # {} /\ UNCHANGED case) \/ NewCase(0)

\* A customer, Support, or a verification that does not match.
OpenCase ==
  /\ NewCase(0)
  /\ UNCHANGED <<order, refunded, assignment, redelivery>>

-----------------------------------------------------------------------------
(* Giving the job to a rider.                                              *)

\* reopen_for_new_rider: after a failure the collected stops are visited again, and the
\* skipped ones too when every shop was skipped.
StopsReopened ==
  [v \in Vendor |->
     IF job.status = "failed" /\ (job.stop[v] \in Rider \/ job.reason = "all_skipped")
     THEN "open" ELSE job.stop[v]]

\* assign: the job starts again for the rider. (To the same rider again it is no change.)
GivenTo(r) ==
  [status |-> "assigned", rider |-> r, stop |-> StopsReopened,
   pickedBy |-> "none", reason |-> "none"]

\* Slip: a trip that found the customer away is repeated with no fee paid.
RedoPaidOrNot == TRUE
\* check_assign: the second trip waits for its fee.
RedoPaid == Away(job) => redo = "paid"

Assign(r, status) ==
  /\ job.status \in {"none", "assigned", "accepted", "failed"}
  /\ job.rider = r => job.status = "failed"
  /\ RedoPaid
  /\ job' = [GivenTo(r) EXCEPT !.status = status]
  /\ redo' = IF Away(job) THEN "assigned" ELSE redo
  /\ UNCHANGED <<order, refunded, firstLeg, trips, case>>

\* AssignDispatchView: the order is read again under its lock, its delivery status synced.
AssignByManager(r) ==
  /\ order = "paid"
  /\ Assign(r, "assigned")
  /\ moving' = "processing"
  /\ UNCHANGED picked

\* accept_offer: assigned and accepted at once, if no rider holds the order meanwhile.
AcceptOffer(r) ==
  /\ order = "paid"
  /\ job.status \in {"none", "failed"}
  /\ Assign(r, "accepted")
  /\ moving' = "processing"
  /\ UNCHANGED picked

\* board.waiting_orders.
Waiting ==
  /\ order = "paid" /\ moving # "delivered" /\ ~refunded
  /\ job.status \in {"none", "failed"}

ReadWaiting ==
  /\ LateReads /\ Waiting /\ ~picked
  /\ picked' = TRUE
  /\ UNCHANGED <<order, refunded, job, moving, redelivery, case>>

\* force_assign, by a manager or the engine: the list was read before the lock was
\* taken, the order's status is not read again.
ForceAssign(r) ==
  /\ Waiting \/ picked
  /\ Assign(r, "assigned")
  /\ picked' = FALSE
  /\ UNCHANGED moving

-----------------------------------------------------------------------------
(* The rider's steps. None looks at the order's status.                    *)

Accept ==
  /\ job.status = "assigned"
  /\ job' = [job EXCEPT !.status = "accepted"]
  /\ moving' = "processing"
  /\ UNCHANGED <<order, refunded, picked, redelivery, case>>

\* The pickup is the rider's who has the job only when that rider collected a stop.
PickupBy(j) == IF CollectedByRider(j) THEN j.rider ELSE j.stop[First(Collected(j))]

\* _after_stop.
AfterStop(j) ==
  /\ job' = IF Open(j) # {} THEN j
            ELSE IF Collected(j) = {}
            THEN [j EXCEPT !.status = "failed", !.reason = "all_skipped"]
            ELSE [j EXCEPT !.status = "picked_up", !.pickedBy = PickupBy(j)]
  /\ moving' = IF job'.status = "picked_up" THEN "out" ELSE moving
  /\ UNCHANGED <<order, refunded, picked, redelivery>>

\* pickup, at the current stop.
Collect ==
  /\ job.status = "accepted" /\ Open(job) # {}
  /\ AfterStop([job EXCEPT !.stop[First(Open(job))] = job.rider])
  /\ UNCHANGED case

\* skip_stop: the rider the current stop, a manager any open one.
Skip(v, byManager) ==
  /\ job.status \in IF byManager THEN {"assigned", "accepted"} ELSE {"accepted"}
  /\ v \in Open(job)
  /\ byManager \/ v = First(Open(job))
  /\ CaseOfSkip(v)
  /\ AfterStop([job EXCEPT !.stop[v] = "skipped"])

\* redelivery.complete: the second trip is over and its fee earned.
RedoDone == redo' = IF redo = "assigned" THEN "completed" ELSE redo

Deliver ==
  /\ job.status = "picked_up"
  /\ job' = [job EXCEPT !.status = "delivered"]
  /\ moving' = "delivered"
  /\ RedoDone
  /\ UNCHANGED <<order, refunded, picked, firstLeg, trips, case>>

CantDeliver(reason) ==
  /\ job.status = "picked_up"
  /\ job' = [job EXCEPT !.status = "failed", !.reason = reason]
  /\ RedoDone
  /\ CaseOfFailure
  /\ UNCHANGED <<order, refunded, moving, picked, firstLeg, trips>>

-----------------------------------------------------------------------------
(* A second trip at the customer's request.                                *)

RedoOpen == redo \in {"waiting", "paid", "assigned"}

RequestRedo ==
  /\ trips < MaxTrips
  /\ order = "paid" /\ ~refunded /\ Away(job) /\ ~RedoOpen
  /\ redo' = "waiting"
  /\ trips' = trips + 1
  /\ firstLeg' = IF firstLeg = "none" THEN job.rider ELSE firstLeg
  /\ UNCHANGED <<order, refunded, assignment, case>>

PayRedo ==
  /\ redo = "waiting"
  /\ redo' = "paid"
  /\ UNCHANGED <<order, refunded, assignment, firstLeg, trips, case>>

CancelRedo ==
  /\ redo \in {"waiting", "paid"}
  /\ redo' = IF redo = "waiting" THEN "cancelled" ELSE "refunded"
  /\ UNCHANGED <<order, refunded, assignment, firstLeg, trips, case>>

\* for_whole_refund, close_for_whole_refund: what becomes of an open request.
RedoClosed(j) ==
  CASE redo = "waiting" -> "cancelled"
    [] redo = "paid" \/ (redo = "assigned" /\ ~PickupMade(j)) -> "refunded"
    [] redo = "assigned" /\ PickupMade(j) -> "completed"
    [] OTHER -> redo

JobTypeOK ==
  /\ order \in {"paid", "cancelled"}
  /\ moving \in {"processing", "out", "delivered"}
  /\ refunded \in BOOLEAN /\ picked \in BOOLEAN
  /\ job \in [status : {"none", "assigned", "accepted", "picked_up", "delivered", "failed"},
              rider : Rider \cup {"none"},
              stop : [Vendor -> Rider \cup {"open", "skipped"}],
              pickedBy : Rider \cup {"none"},
              reason : {"none", "away", "other", "all_skipped", "order_cancelled"}]
  /\ redo \in {"none", "waiting", "paid", "assigned", "completed", "refunded", "cancelled"}
  /\ firstLeg \in Rider \cup {"none"}
  /\ trips \in 0..MaxTrips

=============================================================================
