------------------------------- MODULE Offers -------------------------------
(***************************************************************************)
(* How a paid order comes to a rider: the engine's passes, offers with a   *)
(* timer, the manager's own offers and forced assignments, and the riders' *)
(* answers.  Sources: src/backend/delivery/{dispatching,views_queue,board, *)
(* services,tasks}.py.                                                     *)
(*                                                                         *)
(* Only the two forced paths and the accept take row locks.  Everything    *)
(* else is a read, then a write of what was read: a step each.  A refusal  *)
(* rolls back what it marked: no step.  Nothing keeps the engine's passes  *)
(* apart: the worker takes two tasks at a time (infra/compose), and a pass *)
(* is due every ten seconds.  The ranking is any choice among the eligible;*)
(* a rider's own conditions (shift, break, fix, papers, cash, distance) are*)
(* one set, `able`.  Paid re-deliveries and the vendor's opening time are  *)
(* not modelled.                                                           *)
(***************************************************************************)
EXTENDS Naturals, FiniteSets, FiniteSetsExt

CONSTANTS Order, Rider, NoOne,
          InHouse,     \* AshantiHub's own riders; the others are a third party's
          MaxJobs,     \* max_active_jobs
          MaxDeclines, \* max_declines
          OfferId,     \* bound: offers whose row still matters
          Desk,   \* managers at the queue
          Engine, \* the worker's slots: so many passes can run at once, the lowest free one next
          MaxIncidents \* bound: incidents, of all kinds together

ASSUME OffersAssumption ==
  /\ OfferId \subseteq Nat /\ NoOne \notin Rider \cup Order \cup OfferId
  /\ InHouse \subseteq Rider
  /\ Desk \cap Engine = {}
  /\ Engine \subseteq Nat /\ {MaxJobs, MaxDeclines, MaxIncidents} \subseteq Nat

Process == Desk \cup Engine

VARIABLES
  paid,   \* orders PAID and not wholly refunded
  job,    \* DeliveryAssignment.status by order; "skipped" is a failure where every shop skipped
  holder, \* DeliveryAssignment.dispatch
  offer,  \* Offer rows; one withdrawn or accepted counts for nothing and is NoOffer again
  late,   \* live offers past expires_at
  held,   \* orders with a QueueHold not yet over
  on,     \* auto_assign_on
  able,   \* riders whose own state lets them take a job
  todo,   \* the waiting orders a pass of the engine has still to look at
  plan,   \* what a process has read and is about to do
  incidents, \* passes that overlap, managers' requests and uses of the switch, failed trips,
             \* cancelled orders, riders who become able or unable
  said,   \* history: who refused what, and no process was in the middle of asking it
  asked   \* history: who of them the engine offered or gave it all the same

assignment == <<job, holder>>
history == <<said, asked>>
vars == <<paid, assignment, offer, late, held, on, able, todo, plan, incidents, history>>

NoOffer == [status |-> "none", order |-> NoOne, rider |-> NoOne]
Idle == [at |-> "idle", order |-> NoOne, rider |-> NoOne, old |-> NoOne]

Init ==
  /\ paid = Order
  /\ job = [o \in Order |-> "none"] /\ holder = [o \in Order |-> NoOne]
  /\ offer = [i \in OfferId |-> NoOffer] /\ late = {}
  /\ held = {} /\ on = TRUE /\ able \in SUBSET Rider
  /\ todo = [e \in Engine |-> {}]
  /\ plan = [p \in Process |-> Idle]
  /\ incidents = 0
  /\ said = {} /\ asked = {}

Failed(o) == job[o] \in {"failed", "skipped"}
Active(o) == job[o] \in {"assigned", "accepted", "road"}
\* board.waiting_orders.
Waiting == {o \in paid : job[o] = "none" \/ Failed(o)}

Live(o) == {i \in OfferId : offer[i].order = o /\ offer[i].status = "offered"}
\* live_offer: at most one, by the table's constraint.
LiveOffer(o) == IF Live(o) = {} THEN NoOne ELSE CHOOSE i \in Live(o) : TRUE

Refusals(o) == {i \in OfferId : offer[i].order = o /\ offer[i].status \in {"declined", "expired"}}
Refused(o) == {offer[i].rider : i \in Refusals(o)}
Jobs(r) == {o \in Order : Active(o) /\ holder[o] = r}

\* _rider_reason and _order_reason: nothing speaks against the rider.
Free(o) == {r \in able \ Refused(o) : Cardinality(Jobs(r)) < MaxJobs}

\* third_party_reassignment, reassignment_refused.
OwnRidersFirst(o, r) ==
  /\ job[o] \notin {"none", "assigned"} /\ holder[o] # r
  /\ r \notin InHouse /\ Free(o) \cap InHouse # {}

\* rank.
Eligible(o) == {r \in Free(o) : ~OwnRidersFirst(o, r)}

\* A force_assign between its lock of the order and its commit.
Locked(o) == \E p \in Process : plan[p].at = "locked" /\ plan[p].order = o

\* A refusal of the offer now crosses a process that read the offer as live and will write it,
\* or a pass that has already chosen its rider for its order.
Crossed(i) ==
  \/ \E p \in Process : plan[p].old = i
  \/ \E e \in Engine : plan[e].order = offer[i].order /\ plan[e].rider = offer[i].rider

-----------------------------------------------------------------------------
(* The engine.                                                             *)

\* Slip: nothing times out.
NoneOverdue == {}
\* What expire_offers updates.
Overdue == {i \in late : offer[i].status = "offered"}

Incident == incidents < MaxIncidents /\ incidents' = incidents + 1

Passing(e) == plan[e] # Idle \/ todo[e] # {}

\* The pass times out offers and, unless switched off, reads the waiting orders.
StartPass(e) ==
  /\ ~Passing(e) /\ \A f \in Engine : f < e => Passing(f)
  /\ IF \E f \in Engine : Passing(f) THEN Incident ELSE UNCHANGED incidents
  /\ offer' = [i \in OfferId |-> IF i \in Overdue THEN [offer[i] EXCEPT !.status = "expired"] ELSE offer[i]]
  /\ said' = said \cup {<<offer[i].rider, offer[i].order>> : i \in {j \in Overdue : ~Crossed(j)}}
  /\ late' = late \ Overdue
  /\ todo' = [todo EXCEPT ![e] = IF on THEN Waiting ELSE {}]
  /\ UNCHANGED <<paid, assignment, held, on, able, plan, asked>>

\* Left for a manager, kept out of the queue, or already offered.
Skipped(o) == job[o] = "skipped" \/ o \in held \/ Live(o) # {} \/ Eligible(o) = {}

\* One order of the pass: skipped, offered to an eligible rider, or given to them when the
\* time is short or enough riders have said no.
Consider(e, o) ==
  /\ plan[e] = Idle /\ o \in todo[e]
  /\ todo' = [todo EXCEPT ![e] = @ \ {o}]
  /\ \/ Skipped(o) /\ UNCHANGED plan
     \/ /\ ~Skipped(o)
        /\ \E r \in Eligible(o), short \in BOOLEAN :
             plan' = [plan EXCEPT ![e] =
               [at |-> IF short \/ Cardinality(Refusals(o)) >= MaxDeclines THEN "force" ELSE "offer",
                order |-> o, rider |-> r, old |-> NoOne]]
  /\ UNCHANGED <<paid, assignment, offer, late, held, on, able, incidents, history>>

\* An exception ends a manager's request, or the whole of that pass.
GiveUp(p) ==
  /\ plan' = [plan EXCEPT ![p] = Idle]
  /\ todo' = IF p \in Engine THEN [todo EXCEPT ![p] = {}] ELSE todo

-----------------------------------------------------------------------------
(* make_offer, by the engine or a manager: no lock, three steps.           *)

DeskStarts(d, o, r, what) ==
  /\ plan[d] = Idle /\ Incident
  /\ o \in Waiting
  /\ plan' = [plan EXCEPT ![d] = [at |-> what, order |-> o, rider |-> r, old |-> NoOne]]
  /\ UNCHANGED <<paid, assignment, offer, late, held, on, able, todo, history>>

\* The live offer is read ...
OfferRead(p) ==
  LET o == plan[p].order IN
  /\ plan[p].at = "offer"
  /\ IF OwnRidersFirst(o, plan[p].rider) THEN GiveUp(p)
     ELSE /\ plan' = [plan EXCEPT ![p].old = LiveOffer(o),
                                  ![p].at = IF Live(o) = {} THEN "create" ELSE "withdraw"]
          /\ UNCHANGED todo
  /\ UNCHANGED <<paid, assignment, offer, late, held, on, able, incidents, history>>

\* Slip: every offer of the order is withdrawn.
WithdrawAll(p) ==
  LET gone == {i \in OfferId : offer[i].order = plan[p].order} IN
  /\ plan[p].at = "withdraw"
  /\ offer' = [i \in OfferId |-> IF i \in gone THEN NoOffer ELSE offer[i]]
  /\ late' = late \ gone
  /\ plan' = [plan EXCEPT ![p].at = "create", ![p].old = NoOne]
  /\ UNCHANGED <<paid, assignment, held, on, able, todo, incidents, history>>

\* ... saved as withdrawn, whatever it is by now ...
OfferWithdraw(p) ==
  /\ plan[p].at = "withdraw"
  /\ offer' = [offer EXCEPT ![plan[p].old] = NoOffer]
  /\ late' = late \ {plan[p].old}
  /\ plan' = [plan EXCEPT ![p].at = "create", ![p].old = NoOne]
  /\ UNCHANGED <<paid, assignment, held, on, able, todo, incidents, history>>

\* No row, or one that counts for nothing any more and that nobody will write.
Spent == {i \in OfferId : offer[i] = NoOffer /\ \A p \in Process : plan[p].old # i}

Asks(p) ==
  LET who == <<plan[p].rider, plan[p].order>> IN
  asked' = IF p \in Engine /\ who \in said THEN asked \cup {who} ELSE asked

\* ... and the new one inserted, unless another is live.
OfferCreate(p) ==
  LET o == plan[p].order  r == plan[p].rider IN
  /\ plan[p].at = "create"
  /\ IF Live(o) # {} THEN GiveUp(p) /\ UNCHANGED <<offer, asked>>
     ELSE /\ Spent # {}
          /\ offer' = [offer EXCEPT ![Min(Spent)] = [status |-> "offered", order |-> o, rider |-> r]]
          /\ Asks(p)
          /\ plan' = [plan EXCEPT ![p] = Idle]
          /\ UNCHANGED todo
  /\ UNCHANGED <<paid, assignment, late, held, on, able, incidents, said>>

-----------------------------------------------------------------------------
(* The job changes hands.                                                  *)

\* services.assign, to rider r.
Assignable(o, r) == job[o] \notin {"road", "done"} /\ ~OwnRidersFirst(o, r)

\* A new, failed or swapped job starts again as s; the same rider's goes on.
Given(o, r, s) ==
  /\ holder' = [holder EXCEPT ![o] = r]
  /\ job' = [job EXCEPT ![o] = IF @ = "none" \/ Failed(o) \/ holder[o] # r THEN s ELSE @]
  /\ held' = held \ {o}

\* force_assign: the order is locked and its live offer read without a lock ...
ForceLock(p) ==
  LET o == plan[p].order IN
  /\ plan[p].at = "force" /\ ~Locked(o)
  /\ plan' = [plan EXCEPT ![p].at = "locked", ![p].old = LiveOffer(o)]
  /\ UNCHANGED <<paid, assignment, offer, late, held, on, able, todo, incidents, history>>

\* ... and saved as withdrawn with the assignment.
ForceCommit(p) ==
  LET o == plan[p].order  r == plan[p].rider IN
  /\ plan[p].at = "locked"
  /\ IF Assignable(o, r)
     THEN /\ Given(o, r, "assigned")
          /\ offer' = IF plan[p].old = NoOne THEN offer ELSE [offer EXCEPT ![plan[p].old] = NoOffer]
          /\ late' = late \ {plan[p].old}
          /\ Asks(p)
          /\ plan' = [plan EXCEPT ![p] = Idle]
          /\ UNCHANGED todo
     ELSE GiveUp(p) /\ UNCHANGED <<assignment, offer, late, held, asked>>
  /\ UNCHANGED <<paid, on, able, incidents, said>>

\* Slip: only whether the order is paid is looked at.
TakenPaid(o) == o \in paid
\* accept_offer: the order must still be waiting.
Takable(o) == o \in paid /\ ~(Active(o) \/ job[o] = "done")

Accept(i) ==
  LET o == offer[i].order  r == offer[i].rider IN
  /\ offer[i].status = "offered" /\ i \notin late
  /\ ~Locked(o)
  /\ Takable(o) /\ Assignable(o, r)
  /\ Given(o, r, "accepted")
  /\ offer' = [offer EXCEPT ![i] = NoOffer]
  /\ UNCHANGED <<paid, late, on, able, todo, plan, incidents, history>>

Decline(i) ==
  /\ offer[i].status = "offered"
  /\ offer' = [offer EXCEPT ![i].status = "declined"]
  /\ late' = late \ {i}
  /\ said' = IF Crossed(i) THEN said ELSE said \cup {<<offer[i].rider, offer[i].order>>}
  /\ UNCHANGED <<paid, assignment, held, on, able, todo, plan, incidents, asked>>

\* The rider's steps: a forced job accepted, the goods picked up, delivered.
Ride(o, from, to) ==
  /\ job[o] = from /\ ~Locked(o)
  /\ job' = [job EXCEPT ![o] = to]
  /\ UNCHANGED <<paid, holder, offer, late, held, on, able, todo, plan, incidents, history>>

\* Every shop skipped before the trip, or the trip failed.
FailTrip(o, how) ==
  /\ Incident /\ ~Locked(o)
  /\ job[o] \in (IF how = "skipped" THEN {"assigned", "accepted"} ELSE {"road"})
  /\ job' = [job EXCEPT ![o] = how]
  /\ UNCHANGED <<paid, holder, offer, late, held, on, able, todo, plan, history>>

-----------------------------------------------------------------------------
(* Around it.                                                              *)

\* A whole refund leaves the job; Support's cancel withdraws one not accepted yet.
CancelOrder(o) ==
  /\ Incident /\ o \in paid /\ ~Locked(o) /\ job[o] # "done"
  /\ paid' = paid \ {o}
  /\ \/ UNCHANGED assignment
     \/ job[o] = "assigned" /\ job' = [job EXCEPT ![o] = "none"] /\ holder' = [holder EXCEPT ![o] = NoOne]
  /\ UNCHANGED <<offer, late, held, on, able, todo, plan, history>>

Schedule(o) ==
  /\ Incident /\ o \in Waiting
  /\ held' = held \cup {o}
  /\ UNCHANGED <<paid, assignment, offer, late, on, able, todo, plan, history>>

HoldEnds(o) ==
  /\ o \in held
  /\ held' = held \ {o}
  /\ UNCHANGED <<paid, assignment, offer, late, on, able, todo, plan, incidents, history>>

TimesOut(i) ==
  /\ offer[i].status = "offered" /\ i \notin late
  /\ late' = late \cup {i}
  /\ UNCHANGED <<paid, assignment, offer, held, on, able, todo, plan, incidents, history>>

Switch ==
  /\ Incident
  /\ on' = ~on
  /\ UNCHANGED <<paid, assignment, offer, late, held, able, todo, plan, history>>

\* A rider starts or ends a shift, is suspended, loses the fix, and so on.
RiderChanges(r) ==
  /\ Incident
  /\ able' = IF r \in able THEN able \ {r} ELSE able \cup {r}
  /\ UNCHANGED <<paid, assignment, offer, late, held, on, todo, plan, history>>

Next ==
  \/ \E e \in Engine : StartPass(e) \/ \E o \in Order : Consider(e, o)
  \/ \E d \in Desk, o \in Order, r \in Rider, what \in {"offer", "force"} : DeskStarts(d, o, r, what)
  \/ \E p \in Process :
       \/ OfferRead(p) \/ OfferWithdraw(p) \/ OfferCreate(p)
       \/ ForceLock(p) \/ ForceCommit(p)
  \/ \E i \in OfferId : Accept(i) \/ Decline(i) \/ TimesOut(i)
  \/ \E o \in Order :
       \/ Ride(o, "assigned", "accepted") \/ Ride(o, "accepted", "road") \/ Ride(o, "road", "done")
       \/ FailTrip(o, "failed") \/ FailTrip(o, "skipped")
       \/ CancelOrder(o) \/ Schedule(o) \/ HoldEnds(o)
  \/ Switch
  \/ \E r \in Rider : RiderChanges(r)

Spec == Init /\ [][Next]_vars

\* The engine runs every ten seconds and looks at each order of its list; a started request
\* goes on; an offer's time runs out.
Fairness ==
  /\ \A e \in Engine : WF_vars(StartPass(e)) /\ \A o \in Order : WF_vars(Consider(e, o))
  /\ \A p \in Process :
       /\ WF_vars(OfferRead(p)) /\ WF_vars(OfferWithdraw(p)) /\ WF_vars(OfferCreate(p))
       /\ WF_vars(ForceLock(p)) /\ WF_vars(ForceCommit(p))
  /\ \A i \in OfferId : WF_vars(TimesOut(i))

FairSpec == Spec /\ Fairness

-----------------------------------------------------------------------------
TypeOK ==
  /\ paid \subseteq Order
  /\ job \in [Order -> {"none", "assigned", "accepted", "road", "done", "failed", "skipped"}]
  /\ holder \in [Order -> Rider \cup {NoOne}]
  /\ \A o \in Order : job[o] = "none" <=> holder[o] = NoOne
  /\ \A i \in OfferId :
       offer[i] = NoOffer \/ offer[i] \in [status : {"offered", "declined", "expired"}, order : Order, rider : Rider]
  /\ late \subseteq {i \in OfferId : offer[i].status = "offered"}
  /\ held \subseteq Order /\ on \in BOOLEAN /\ able \subseteq Rider
  /\ todo \in [Engine -> SUBSET Order]
  /\ plan \in [Process -> [at : {"idle", "offer", "withdraw", "create", "force", "locked"},
                           order : Order \cup {NoOne}, rider : Rider \cup {NoOne}, old : OfferId \cup {NoOne}]]
  /\ incidents \in 0..MaxIncidents
  /\ said \subseteq Rider \X Order /\ asked \subseteq said

\* A rider who took a job keeps it until it is withdrawn or a forced assignment takes it, however
\* many offers of the order are still open; goods on the road never change hands.
KeepsTheJob ==
  [][\A o \in Order :
       /\ job[o] \in {"assigned", "accepted"} /\ holder'[o] \notin {holder[o], NoOne} =>
            \E p \in Process : plan[p].at = "locked" /\ plan[p].order = o
       /\ job[o] \in {"road", "done"} => holder'[o] = holder[o]]_vars

\* Who declined or timed out on an order is not asked again by the engine, nor given it, however
\* many passes and managers are at work, whatever they withdraw and whatever became of the job
\* since. Only a refusal that crosses a process in the middle of asking may be lost.
RefusalsStand == asked = {}

\* A waiting order comes to a rider, or there is nobody to ask: all who could take it have
\* refused, or it is held, cancelled or left to a manager, or the engine is off.
FindsARider ==
  \A o \in Order :
    o \in Waiting ~> \/ o \notin Waiting \/ o \in held \/ ~on
                     \/ job[o] = "skipped" \/ Eligible(o) = {}

=============================================================================
