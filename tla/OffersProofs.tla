---------------------------- MODULE OffersProofs ----------------------------
(***************************************************************************)
(* For any orders, riders, managers and passes of the engine at once: the  *)
(* rows stay well typed, nobody loses a job to an offer left open, and a   *)
(* refusal that crosses nobody's asking stands for ever.  That an order    *)
(* comes to a rider is liveness: TLC's.                                    *)
(***************************************************************************)
EXTENDS Offers, WellFoundedInduction, TLAPS

\* A process past its choice has an order and a rider.
PlanInv == \A p \in Process : plan[p].at # "idle" => plan[p].order \in Order /\ plan[p].rider \in Rider

IInv == TypeOK /\ PlanInv

OfferRow == [status : {"offered", "declined", "expired"}, order : Order, rider : Rider]
PlanRow == [at : {"idle", "offer", "withdraw", "create", "force", "locked"},
            order : Order \cup {NoOne}, rider : Rider \cup {NoOne}, old : OfferId \cup {NoOne}]
JobStatus == {"none", "assigned", "accepted", "road", "done", "failed", "skipped"}

\* The parts of TypeOK, each disturbed by other steps.
JobsTyped ==
  /\ job \in [Order -> JobStatus] /\ holder \in [Order -> Rider \cup {NoOne}]
  /\ \A o \in Order : job[o] = "none" <=> holder[o] = NoOne
OffersTyped ==
  /\ \A i \in OfferId : offer[i] = NoOffer \/ offer[i] \in OfferRow
  /\ late \subseteq {i \in OfferId : offer[i].status = "offered"}
PlansTyped == todo \in [Engine -> SUBSET Order] /\ plan \in [Process -> PlanRow]
RestTyped ==
  /\ paid \subseteq Order /\ held \subseteq Order /\ on \in BOOLEAN /\ able \subseteq Rider
  /\ incidents \in 0..MaxIncidents
SaidTyped == said \subseteq Rider \X Order /\ asked \subseteq said

LEMMA Parts == TypeOK <=> JobsTyped /\ OffersTyped /\ PlansTyped /\ RestTyped /\ SaidTyped
BY DEF TypeOK, JobsTyped, OffersTyped, PlansTyped, RestTyped, SaidTyped, OfferRow, PlanRow, JobStatus

LEMMA PartsNext == TypeOK' <=> JobsTyped' /\ OffersTyped' /\ PlansTyped' /\ RestTyped' /\ SaidTyped'
BY DEF TypeOK, JobsTyped, OffersTyped, PlansTyped, RestTyped, SaidTyped, OfferRow, PlanRow, JobStatus

LEMMA IncidentType ==
  ASSUME incidents \in 0..MaxIncidents, Incident \/ UNCHANGED incidents
  PROVE  incidents' \in 0..MaxIncidents
BY OffersAssumption DEF Incident

LEMMA InitIInv == Init => IInv
<1> SUFFICES ASSUME Init PROVE IInv
  OBVIOUS
<1>1. TypeOK
  BY OffersAssumption DEF Init, TypeOK, Idle
<1>2. PlanInv
  BY DEF Init, PlanInv, Idle
<1> QED BY <1>1, <1>2 DEF IInv

LEMMA LiveOfferType == \A o \in Order : LiveOffer(o) \in OfferId \cup {NoOne}
BY DEF LiveOffer, Live

\* The order a rider is given keeps job and rider in step.
LEMMA GivenKeeps ==
  ASSUME JobsTyped, held \subseteq Order, NEW o \in Order, NEW r \in Rider,
         NEW s \in {"assigned", "accepted"}, Given(o, r, s)
  PROVE  JobsTyped' /\ held' \subseteq Order
<1>1. r # NoOne
  BY OffersAssumption
<1>2. /\ holder' = [holder EXCEPT ![o] = r]
      /\ \E t \in JobStatus \ {"none"} : job' = [job EXCEPT ![o] = t]
  BY DEF Given, Failed, JobsTyped, JobStatus
<1>3. JobsTyped'
  BY <1>1, <1>2 DEF JobsTyped
<1> QED BY <1>3 DEF Given

-----------------------------------------------------------------------------
(* One lemma per actor.                                                    *)

LEMMA EngineKeeps ==
  ASSUME IInv, NEW e \in Engine, StartPass(e) \/ \E o \in Order : Consider(e, o)
  PROVE  IInv'
<1> USE Parts DEF IInv
<1>1. CASE StartPass(e)
  <2>1. OffersTyped'
    BY <1>1 DEF StartPass, OffersTyped, Overdue, OfferRow, NoOffer
  <2>2. PlansTyped' /\ RestTyped' /\ JobsTyped'
    BY <1>1, IncidentType DEF StartPass, PlansTyped, RestTyped, JobsTyped, Waiting, assignment
  <2>3. SaidTyped'
    BY <1>1 DEF StartPass, SaidTyped, Overdue, OffersTyped, OfferRow, NoOffer
  <2>4. PlanInv'
    BY <1>1 DEF StartPass, PlanInv
  <2> QED BY <2>1, <2>2, <2>3, <2>4, PartsNext
<1>2. ASSUME NEW o \in Order, Consider(e, o) PROVE IInv'
  <2>1. /\ UNCHANGED <<paid, job, holder, offer, late, held, on, able, incidents, said, asked>>
        /\ todo' = [todo EXCEPT ![e] = @ \ {o}]
        /\ \/ plan' = plan
           \/ \E r \in Rider, at \in {"force", "offer"} :
                plan' = [plan EXCEPT ![e] = [at |-> at, order |-> o, rider |-> r, old |-> NoOne]]
    BY <1>2 DEF Consider, Eligible, Free, RestTyped, assignment, history
  <2>2. PlansTyped' /\ PlanInv'
    BY <2>1 DEF PlansTyped, PlanRow, PlanInv, Process
  <2>3. JobsTyped' /\ OffersTyped' /\ RestTyped' /\ SaidTyped'
    BY <2>1 DEF JobsTyped, OffersTyped, RestTyped, SaidTyped
  <2> QED BY <2>2, <2>3, PartsNext
<1> QED BY <1>1, <1>2

LEMMA ProcessKeeps ==
  ASSUME IInv, NEW p \in Process,
         OfferRead(p) \/ OfferWithdraw(p) \/ OfferCreate(p) \/ ForceLock(p) \/ ForceCommit(p)
  PROVE  IInv'
<1> USE Parts DEF IInv
<1> DEFINE o == plan[p].order
           r == plan[p].rider
<1>1. o \in Order /\ r \in Rider
  BY DEF PlanInv, OfferRead, OfferWithdraw, OfferCreate, ForceLock, ForceCommit
<1>2. PlansTyped' /\ PlanInv'
  <2> DEFINE Row(at, old) == [plan[p] EXCEPT !.at = at, !.old = old]
  <2>1. \/ plan' = [plan EXCEPT ![p] = Idle]
        \/ \E at \in {"create", "withdraw", "locked"}, old \in OfferId \cup {NoOne} :
             plan' = [plan EXCEPT ![p] = Row(at, old)]
    <3> plan \in [Process -> PlanRow]
      BY DEF PlansTyped
    <3>1. CASE OfferRead(p)
      <4>1. CASE OwnRidersFirst(o, r)
        BY <3>1, <4>1 DEF OfferRead, GiveUp
      <4>2. CASE ~OwnRidersFirst(o, r)
        <5> DEFINE at == IF Live(o) = {} THEN "create" ELSE "withdraw"
        <5>1. plan' = [plan EXCEPT ![p].old = LiveOffer(o), ![p].at = at]
          BY <3>1, <4>2 DEF OfferRead
        <5>2. plan' = [plan EXCEPT ![p] = Row(at, LiveOffer(o))]
          BY <5>1 DEF PlanRow
        <5> QED BY <5>2, <1>1, LiveOfferType
      <4> QED BY <4>1, <4>2
    <3>2. CASE OfferWithdraw(p)
      <4>1. plan' = [plan EXCEPT ![p] = Row("create", NoOne)]
        BY <3>2 DEF OfferWithdraw, PlanRow
      <4> QED BY <4>1
    <3>3. CASE OfferCreate(p)
      BY <3>3 DEF OfferCreate, GiveUp
    <3>4. CASE ForceLock(p)
      <4>1. plan' = [plan EXCEPT ![p] = Row("locked", LiveOffer(o))]
        BY <3>4 DEF ForceLock, PlanRow
      <4> QED BY <4>1, <1>1, LiveOfferType
    <3>5. CASE ForceCommit(p)
      BY <3>5 DEF ForceCommit, GiveUp
    <3> QED BY <3>1, <3>2, <3>3, <3>4, <3>5
  <2>2. plan' \in [Process -> PlanRow] /\ PlanInv'
    <3>1. CASE plan' = [plan EXCEPT ![p] = Idle]
      BY <3>1 DEF PlansTyped, PlanRow, Idle, PlanInv
    <3>2. ASSUME NEW at \in {"create", "withdraw", "locked"}, NEW old \in OfferId \cup {NoOne},
                 plan' = [plan EXCEPT ![p] = Row(at, old)]
          PROVE  plan' \in [Process -> PlanRow] /\ PlanInv'
      <4>1. Row(at, old) \in PlanRow /\ Row(at, old).order = o /\ Row(at, old).rider = r
        BY <3>2 DEF PlansTyped, PlanRow
      <4> HIDE DEF Row
      <4> QED BY <1>1, <3>2, <4>1 DEF PlansTyped, PlanInv
    <3> QED BY <2>1, <3>1, <3>2
  <2>3. todo' = todo \/ (p \in Engine /\ todo' = [todo EXCEPT ![p] = {}])
    BY DEF OfferRead, OfferWithdraw, OfferCreate, ForceLock, ForceCommit, GiveUp
  <2> QED BY <2>2, <2>3 DEF PlansTyped
<1>3. UNCHANGED <<paid, on, able, incidents, said>>
  BY DEF OfferRead, OfferWithdraw, OfferCreate, ForceLock, ForceCommit, history
<1>4. JobsTyped' /\ held' \subseteq Order
  <2>1. CASE ForceCommit(p) /\ Assignable(o, r)
    BY <1>1, <2>1, GivenKeeps DEF ForceCommit, RestTyped
  <2>2. CASE ~(ForceCommit(p) /\ Assignable(o, r))
    <3>1. UNCHANGED <<job, holder, held>>
      BY <2>2 DEF OfferRead, OfferWithdraw, OfferCreate, ForceLock, ForceCommit, GiveUp, assignment
    <3> QED BY <3>1 DEF JobsTyped, RestTyped
  <2> QED BY <2>1, <2>2
<1>5. OffersTyped'
  <2>1. \/ offer' = offer /\ late' = late
        \/ \E old : offer' = [offer EXCEPT ![old] = NoOffer] /\ late' = late \ {old}
        \/ late' = late \ {NoOne} /\ offer' = offer
        \/ /\ late' = late
           /\ \E i : offer' = [offer EXCEPT ![i] = [status |-> "offered", order |-> o, rider |-> r]]
    BY DEF OfferRead, OfferWithdraw, OfferCreate, ForceLock, ForceCommit, GiveUp
  <2>2. CASE \E old : offer' = [offer EXCEPT ![old] = NoOffer] /\ late' = late \ {old}
    BY <2>2 DEF OffersTyped
  <2>3. CASE /\ late' = late
             /\ \E i : offer' = [offer EXCEPT ![i] = [status |-> "offered", order |-> o, rider |-> r]]
    BY <1>1, <2>3 DEF OffersTyped, OfferRow
  <2> QED BY <2>1, <2>2, <2>3 DEF OffersTyped
<1>6. SaidTyped'
  <2>1. asked' = asked \/ (asked' = asked \cup {<<r, o>>} /\ <<r, o>> \in said)
    BY DEF OfferRead, OfferWithdraw, OfferCreate, ForceLock, ForceCommit, Asks, history
  <2> QED BY <1>3, <2>1 DEF SaidTyped
<1>7. RestTyped'
  BY <1>3, <1>4 DEF RestTyped
<1> QED BY <1>2, <1>4, <1>5, <1>6, <1>7, PartsNext

LEMMA RiderKeeps ==
  ASSUME IInv, NEW i \in OfferId, Accept(i) \/ Decline(i) \/ TimesOut(i)
  PROVE  IInv'
<1> USE Parts DEF IInv
<1>1. offer[i] \in OfferRow
  BY DEF Accept, Decline, TimesOut, OffersTyped, NoOffer
<1>2. UNCHANGED <<paid, on, able, todo, plan, incidents, asked>>
  BY DEF Accept, Decline, TimesOut, history
<1>3. JobsTyped' /\ held' \subseteq Order
  <2>1. CASE Accept(i)
    BY <1>1, <2>1, GivenKeeps DEF Accept, OfferRow, RestTyped
  <2>2. CASE Decline(i) \/ TimesOut(i)
    BY <2>2 DEF Decline, TimesOut, assignment, JobsTyped, RestTyped
  <2> QED BY <2>1, <2>2
<1>4. OffersTyped'
  <2>1. CASE Accept(i)
    BY <2>1 DEF Accept, OffersTyped
  <2>2. CASE Decline(i)
    BY <1>1, <2>2 DEF Decline, OffersTyped, OfferRow
  <2>3. CASE TimesOut(i)
    BY <2>3 DEF TimesOut, OffersTyped
  <2> QED BY <2>1, <2>2, <2>3
<1>5. SaidTyped'
  <2>1. said' = said \/ said' = said \cup {<<offer[i].rider, offer[i].order>>}
    BY DEF Accept, Decline, TimesOut, history
  <2> QED BY <1>1, <1>2, <2>1 DEF SaidTyped, OfferRow
<1>6. PlansTyped' /\ PlanInv' /\ RestTyped'
  BY <1>2, <1>3 DEF PlansTyped, PlanInv, RestTyped
<1> QED BY <1>3, <1>4, <1>5, <1>6, PartsNext

LEMMA OrderKeeps ==
  ASSUME IInv, NEW o \in Order,
         \/ Ride(o, "assigned", "accepted") \/ Ride(o, "accepted", "road") \/ Ride(o, "road", "done")
         \/ FailTrip(o, "failed") \/ FailTrip(o, "skipped")
         \/ CancelOrder(o) \/ Schedule(o) \/ HoldEnds(o)
  PROVE  IInv'
<1> USE Parts DEF IInv
<1>1. UNCHANGED <<offer, late, on, able, todo, plan, said, asked>>
  BY DEF Ride, FailTrip, CancelOrder, Schedule, HoldEnds, history
<1>2. /\ paid' \subseteq paid /\ held' \subseteq held \cup {o}
      /\ Incident \/ UNCHANGED incidents
  BY DEF Ride, FailTrip, CancelOrder, Schedule, HoldEnds
<1>3. \/ UNCHANGED <<job, holder>>
      \/ /\ job[o] # "none" /\ holder' = holder
         /\ \E t \in JobStatus \ {"none"} : job' = [job EXCEPT ![o] = t]
      \/ job' = [job EXCEPT ![o] = "none"] /\ holder' = [holder EXCEPT ![o] = NoOne]
  BY DEF Ride, FailTrip, CancelOrder, Schedule, HoldEnds, assignment, JobStatus
<1>4. JobsTyped'
  BY <1>3 DEF JobsTyped, JobStatus
<1>5. RestTyped'
  BY <1>1, <1>2, IncidentType DEF RestTyped
<1>6. OffersTyped' /\ PlansTyped' /\ PlanInv' /\ SaidTyped'
  BY <1>1 DEF OffersTyped, PlansTyped, PlanInv, SaidTyped
<1> QED BY <1>4, <1>5, <1>6, PartsNext

LEMMA DeskKeeps ==
  ASSUME IInv,
         \/ \E d \in Desk, o \in Order, r \in Rider, what \in {"offer", "force"} : DeskStarts(d, o, r, what)
         \/ Switch
         \/ \E r \in Rider : RiderChanges(r)
  PROVE  IInv'
<1> USE Parts DEF IInv
<1>1. UNCHANGED <<paid, job, holder, offer, late, held, todo, said, asked>>
  BY DEF DeskStarts, Switch, RiderChanges, assignment, history
<1>2. on' \in BOOLEAN /\ able' \subseteq Rider /\ Incident
  BY DEF DeskStarts, Switch, RiderChanges, RestTyped
<1>3. \/ plan' = plan
      \/ \E d \in Process, o \in Order, r \in Rider, what \in {"offer", "force"} :
           plan' = [plan EXCEPT ![d] = [at |-> what, order |-> o, rider |-> r, old |-> NoOne]]
  BY DEF DeskStarts, Switch, RiderChanges, Process
<1>4. PlansTyped' /\ PlanInv'
  BY <1>1, <1>3 DEF PlansTyped, PlanRow, PlanInv
<1>5. RestTyped'
  BY <1>1, <1>2, IncidentType DEF RestTyped
<1>6. JobsTyped' /\ OffersTyped' /\ SaidTyped'
  BY <1>1 DEF JobsTyped, OffersTyped, SaidTyped
<1> QED BY <1>4, <1>5, <1>6, PartsNext

LEMMA NextIInv == IInv /\ [Next]_vars => IInv'
<1> SUFFICES ASSUME IInv, [Next]_vars PROVE IInv'
  OBVIOUS
<1>1. CASE UNCHANGED vars
  BY <1>1 DEF vars, assignment, history, IInv, TypeOK, PlanInv
<1>2. CASE Next
  BY <1>2, EngineKeeps, ProcessKeeps, RiderKeeps, OrderKeeps, DeskKeeps DEF Next
<1> QED BY <1>1, <1>2

-----------------------------------------------------------------------------
\* A process past its choice has an order and a rider, and every row its type.
THEOREM Inductive == Spec => []IInv
BY InitIInv, NextIInv, PTL DEF Spec

\* Every row stays in its type, however many engines and managers work at once: an order with
\* a job has a rider and one without has none.
THEOREM TypesHold == Spec => []TypeOK
<1>1. IInv => TypeOK
  BY DEF IInv
<1> QED BY <1>1, Inductive, PTL

\* A rider keeps the job taken, whatever offers of the order are still open, until it is
\* withdrawn or a forced assignment that holds the order's lock takes it; goods on the road
\* never change hands (accept_offer, force_assign).
THEOREM JobsAreKept == Spec => KeepsTheJob
<1>1. IInv /\ [Next]_vars =>
        [\A o \in Order :
           /\ job[o] \in {"assigned", "accepted"} /\ holder'[o] \notin {holder[o], NoOne} =>
                \E p \in Process : plan[p].at = "locked" /\ plan[p].order = o
           /\ job[o] \in {"road", "done"} => holder'[o] = holder[o]]_vars
  <2> SUFFICES ASSUME IInv, Next, NEW q \in Order
               PROVE  /\ job[q] \in {"assigned", "accepted"} /\ holder'[q] \notin {holder[q], NoOne} =>
                           \E p \in Process : plan[p].at = "locked" /\ plan[p].order = q
                      /\ job[q] \in {"road", "done"} => holder'[q] = holder[q]
    OBVIOUS
  <2> USE Parts DEF IInv, JobsTyped
  <2>1. ASSUME NEW p \in Process, ForceCommit(p), plan[p].order = q
        PROVE  /\ plan[p].at = "locked"
               /\ job[q] \in {"road", "done"} => holder'[q] = holder[q]
    BY <2>1 DEF ForceCommit, Assignable, assignment
  <2>2. ASSUME NEW p \in Process, ForceCommit(p), plan[p].order # q
        PROVE  holder'[q] = holder[q]
    BY <2>2 DEF ForceCommit, Given, assignment
  <2>3. ASSUME NEW i \in OfferId, Accept(i)
        PROVE  job[q] \in {"assigned", "accepted", "road", "done"} => holder'[q] = holder[q]
    BY <2>3 DEF Accept, Takable, Given, Active
  <2>4. ASSUME NEW o \in Order, CancelOrder(o)
        PROVE  holder'[q] = holder[q] \/ (job[q] = "assigned" /\ holder'[q] = NoOne)
    BY <2>4 DEF CancelOrder, assignment
  <2>5. \/ holder' = holder
        \/ \E p \in Process : ForceCommit(p)
        \/ \E i \in OfferId : Accept(i)
        \/ \E o \in Order : CancelOrder(o)
    BY DEF Next, StartPass, Consider, DeskStarts, OfferRead, OfferWithdraw, OfferCreate, ForceLock,
           Decline, TimesOut, Ride, FailTrip, Schedule, HoldEnds, Switch, RiderChanges, assignment
  <2> QED BY <2>1, <2>2, <2>3, <2>4, <2>5
<1> QED BY <1>1, Inductive, PTL DEF Spec, KeepsTheJob

-----------------------------------------------------------------------------
(* A refusal that crosses nobody's asking stands.                          *)

Refusal(i) == offer[i].status \in {"declined", "expired"}

\* An offer refused for good: no process will write its row.
Firm(i) == Refusal(i) /\ \A p \in Process : plan[p].old # i

\* The rider's refusal is written, and no pass is about to ask.
Stands(r, o) ==
  /\ \E i \in OfferId : Firm(i) /\ offer[i].order = o /\ offer[i].rider = r
  /\ \A e \in Engine : ~(plan[e].order = o /\ plan[e].rider = r)

SaidStands == \A r \in Rider, o \in Order : <<r, o>> \in said => Stands(r, o)

\* There are no other rows.
RowsInv == offer = [i \in OfferId |-> offer[i]]

StandInv == SaidStands /\ RowsInv /\ asked = {}

\* Rows are changed one at a time, or all by the pass.
LEMMA RowsStay == RowsInv /\ [Next]_vars => RowsInv'
<1> SUFFICES ASSUME RowsInv, [Next]_vars PROVE RowsInv'
  OBVIOUS
<1>1. \/ offer' = offer
      \/ \E i, row : offer' = [offer EXCEPT ![i] = row]
      \/ \E e \in Engine : StartPass(e)
      \/ \E i \in OfferId : Decline(i)
  BY DEF Next, Consider, DeskStarts, OfferRead, OfferWithdraw, OfferCreate, ForceLock, ForceCommit,
       Accept, TimesOut, Ride, FailTrip, CancelOrder, Schedule, HoldEnds, Switch, RiderChanges, vars
<1>2. ASSUME NEW e \in Engine, StartPass(e) PROVE RowsInv'
  BY <1>2 DEF RowsInv, StartPass
<1>3. ASSUME NEW i \in OfferId, Decline(i) PROVE RowsInv'
  BY <1>3 DEF RowsInv, Decline
<1> QED BY <1>1, <1>2, <1>3 DEF RowsInv

\* A set of offers has a first.
LEMMA FirstOffer ==
  ASSUME NEW S, S \subseteq Nat, S # {}
  PROVE  Min(S) \in S
<1>1. PICK x \in S : \A y \in S : <<y, x>> \notin OpToRel(<, Nat)
  BY NatLessThanWellFounded, WFMin
<1>2. ASSUME NEW y \in S PROVE x <= y
  <2>1. ~(y < x)
    <3>1. <<y, x>> \in Nat \X Nat /\ <<y, x>>[1] = y /\ <<y, x>>[2] = x
      OBVIOUS
    <3> QED BY <1>1, <3>1, Zenon DEF OpToRel
  <2>2. x \in Nat /\ y \in Nat
    OBVIOUS
  <2> QED BY <2>1, <2>2
<1> QED BY <1>2 DEF Min

\* What a step must respect: rows refused for good, and who they were refused by; and what is
\* newly said must stand.
LEMMA StillStands ==
  ASSUME SaidStands,
         \A i \in OfferId : Firm(i) => offer'[i] = offer[i] /\ \A p \in Process : plan'[p].old # i,
         \A r \in Rider, o \in Order, e \in Engine :
           <<r, o>> \in said => ~(plan'[e].order = o /\ plan'[e].rider = r),
         \A r \in Rider, o \in Order : <<r, o>> \in said' => <<r, o>> \in said \/ Stands(r, o)'
  PROVE  SaidStands'
<1> SUFFICES ASSUME NEW r \in Rider, NEW o \in Order, <<r, o>> \in said PROVE Stands(r, o)'
  BY DEF SaidStands
<1>1. PICK i \in OfferId : Firm(i) /\ offer[i].order = o /\ offer[i].rider = r
  BY DEF SaidStands, Stands
<1>2. Firm(i)' /\ offer'[i].order = o /\ offer'[i].rider = r
  BY <1>1 DEF Firm, Refusal
<1> QED BY <1>2 DEF Stands

\* A step that moves no offer, says nothing and plans nothing.
LEMMA QuietKeeps ==
  ASSUME SaidStands, asked = {}, UNCHANGED <<offer, plan, said, asked>>
  PROVE  SaidStands' /\ asked' = {}
<1>1. SaidStands'
  BY StillStands DEF Firm, SaidStands, Stands
<1> QED BY <1>1

\* The riders' and the clock's refusals: of offers open, each stands if it crossed nobody.
LEMMA RefusalsWritten ==
  ASSUME SaidStands, NEW R, NEW s \in {"declined", "expired"},
         \A i \in R : i \in OfferId /\ offer[i] \in OfferRow /\ offer[i].status = "offered",
         \A i \in OfferId : offer'[i] = IF i \in R THEN [offer[i] EXCEPT !.status = s] ELSE offer[i],
         plan' = plan,
         \A r \in Rider, o \in Order : <<r, o>> \in said' =>
           \/ <<r, o>> \in said
           \/ \E i \in R : ~Crossed(i) /\ r = offer[i].rider /\ o = offer[i].order
  PROVE  SaidStands'
<1>1. \A i \in OfferId : Firm(i) => offer'[i] = offer[i] /\ \A p \in Process : plan'[p].old # i
  BY DEF Firm, Refusal
<1>2. \A i \in R : /\ offer'[i].status = s /\ offer'[i].order = offer[i].order
                   /\ offer'[i].rider = offer[i].rider
  BY DEF OfferRow
<1>3. ASSUME NEW r \in Rider, NEW o \in Order, NEW i \in R, ~Crossed(i), r = offer[i].rider, o = offer[i].order
      PROVE  Stands(r, o)'
  BY <1>2, <1>3 DEF Stands, Firm, Refusal, Crossed
<1>4. \A r \in Rider, o \in Order, e \in Engine :
        <<r, o>> \in said => ~(plan'[e].order = o /\ plan'[e].rider = r)
  BY DEF SaidStands, Stands
<1> QED BY <1>1, <1>3, <1>4, StillStands

\* The pass: what times out is a refusal, and who refused is not chosen.
LEMMA PassAsks ==
  ASSUME IInv, RowsInv, SaidStands, asked = {}, NEW e \in Engine,
         StartPass(e) \/ \E o \in Order : Consider(e, o)
  PROVE  SaidStands' /\ asked' = {}
<1>p. OffersTyped /\ PlansTyped /\ able \subseteq Rider /\ e \in Process
  BY Parts DEF IInv, RestTyped, Process
<1>1. CASE StartPass(e)
  <2>1. /\ plan' = plan /\ asked' = asked
        /\ said' = said \cup {<<offer[i].rider, offer[i].order>> : i \in {j \in Overdue : ~Crossed(j)}}
        /\ \A i \in OfferId : offer'[i] = IF i \in Overdue THEN [offer[i] EXCEPT !.status = "expired"]
                                          ELSE offer[i]
    BY <1>1 DEF StartPass
  <2>2. \A i \in Overdue : i \in OfferId /\ offer[i] \in OfferRow /\ offer[i].status = "offered"
    BY <1>p DEF Overdue, OffersTyped, NoOffer
  <2>3. \A r \in Rider, o \in Order : <<r, o>> \in said' =>
          \/ <<r, o>> \in said
          \/ \E i \in Overdue : ~Crossed(i) /\ r = offer[i].rider /\ o = offer[i].order
    BY <2>1
  <2>4. SaidStands'
    BY <2>1, <2>2, <2>3, RefusalsWritten
  <2> QED BY <2>1, <2>4
<1>2. ASSUME NEW o \in Order, Consider(e, o) PROVE SaidStands' /\ asked' = {}
  <2>1. UNCHANGED <<offer, said, asked>>
    BY <1>2 DEF Consider, history
  <2>2. CASE plan' = plan
    BY <2>1, <2>2, QuietKeeps
  <2>3. CASE plan' # plan
    <3>1. PICK r \in Eligible(o), at \in {"force", "offer"} :
            plan' = [plan EXCEPT ![e] = [at |-> at, order |-> o, rider |-> r, old |-> NoOne]]
      BY <1>2, <2>3 DEF Consider
    <3>2. r \in Rider /\ r \notin Refused(o)
      BY <1>p, <3>1 DEF Eligible, Free
    <3>3. <<r, o>> \notin said
      BY <3>2 DEF SaidStands, Stands, Firm, Refusal, Refused, Refusals
    <3>4. /\ plan'[e] = [at |-> at, order |-> o, rider |-> r, old |-> NoOne]
          /\ \A p \in Process : p # e => plan'[p] = plan[p]
      BY <1>p, <3>1 DEF PlansTyped
    <3>5. \A i \in OfferId : Firm(i) => offer'[i] = offer[i] /\ \A p \in Process : plan'[p].old # i
      BY <2>1, <3>4, OffersAssumption DEF Firm
    <3>6. \A q \in Rider, k \in Order, f \in Engine :
            <<q, k>> \in said => ~(plan'[f].order = k /\ plan'[f].rider = q)
      BY <3>3, <3>4 DEF SaidStands, Stands, Process
    <3> QED BY <2>1, <3>5, <3>6, StillStands
  <2> QED BY <2>2, <2>3
<1> QED BY <1>1, <1>2

\* What a process goes on to do: it writes a row it read as live, or one nobody else will, and
\* asks who had not refused.
LEMMA ProcessAsks ==
  ASSUME IInv, RowsInv, SaidStands, asked = {}, NEW p \in Process,
         OfferRead(p) \/ OfferWithdraw(p) \/ OfferCreate(p) \/ ForceLock(p) \/ ForceCommit(p)
  PROVE  SaidStands' /\ asked' = {}
<1> DEFINE o == plan[p].order
           r == plan[p].rider
<1>p. OffersTyped /\ PlansTyped /\ r \in Rider /\ o \in Order
  BY Parts DEF IInv, PlanInv, OfferRead, OfferWithdraw, OfferCreate, ForceLock, ForceCommit
<1>1. said' = said
  BY DEF OfferRead, OfferWithdraw, OfferCreate, ForceLock, ForceCommit, history
<1>2. p \in Engine => <<r, o>> \notin said
  BY <1>p DEF SaidStands, Stands
<1>3. asked' = {}
  BY <1>2 DEF OfferRead, OfferWithdraw, OfferCreate, ForceLock, ForceCommit, Asks, history
<1>4. LiveOffer(o) = NoOne \/ (LiveOffer(o) \in OfferId /\ ~Refusal(LiveOffer(o)))
  <2>1. Live(o) # {} => LiveOffer(o) \in Live(o)
    BY DEF LiveOffer
  <2> QED BY <2>1 DEF LiveOffer, Live, Refusal
<1>d. DOMAIN offer = OfferId
  BY DEF RowsInv
<1>5. \A i \in OfferId : Firm(i) => offer'[i] = offer[i]
  <2>1. CASE OfferCreate(p)
    <3>1. OfferId \subseteq Nat /\ Spent \subseteq OfferId
      BY OffersAssumption DEF Spent
    <3>2. Spent # {} => Min(Spent) \in Spent
      BY <3>1, FirstOffer
    <3>3. Min(Spent) \in Spent => ~Firm(Min(Spent))
      BY DEF Spent, Firm, Refusal, NoOffer
    <3>4. \/ offer' = offer
          \/ /\ ~Firm(Min(Spent))
             /\ offer' = [offer EXCEPT ![Min(Spent)] = [status |-> "offered", order |-> o, rider |-> r]]
      BY <2>1, <3>2, <3>3 DEF OfferCreate
    <3> HIDE DEF o, r
    <3> QED BY <3>4, <1>d
  <2>2. CASE ~OfferCreate(p)
    <3>1. offer' = offer \/ offer' = [offer EXCEPT ![plan[p].old] = NoOffer]
      BY <2>2 DEF OfferRead, OfferWithdraw, ForceLock, ForceCommit
    <3> QED BY <3>1, <1>d DEF Firm
  <2> QED BY <2>1, <2>2
<1>6. /\ \A q \in Process : q # p => plan'[q] = plan[q]
      /\ \/ plan'[p].order = NoOne /\ plan'[p].old = NoOne
         \/ /\ plan'[p].order = o /\ plan'[p].rider = r
            /\ plan'[p].old \in {NoOne, LiveOffer(o)}
  <2> plan \in [Process -> PlanRow]
    BY <1>p DEF PlansTyped
  <2>1. CASE OfferRead(p)
    <3>1. CASE OwnRidersFirst(o, r)
      BY <2>1, <3>1 DEF OfferRead, GiveUp, Idle
    <3>2. CASE ~OwnRidersFirst(o, r)
      <4>1. PICK at : plan' = [plan EXCEPT ![p].old = LiveOffer(o), ![p].at = at]
        BY <2>1, <3>2 DEF OfferRead
      <4>2. plan' = [plan EXCEPT ![p] = [plan[p] EXCEPT !.old = LiveOffer(o), !.at = at]]
        BY <4>1
      <4> QED BY <4>2 DEF PlanRow
    <3> QED BY <3>1, <3>2
  <2>2. CASE OfferWithdraw(p)
    BY <2>2 DEF OfferWithdraw, PlanRow
  <2>3. CASE OfferCreate(p)
    BY <2>3 DEF OfferCreate, GiveUp, Idle
  <2>4. CASE ForceLock(p)
    BY <2>4 DEF ForceLock, PlanRow
  <2>5. CASE ForceCommit(p)
    BY <2>5 DEF ForceCommit, GiveUp, Idle
  <2> QED BY <2>1, <2>2, <2>3, <2>4, <2>5
<1>7. \A i \in OfferId : Firm(i) => offer'[i] = offer[i] /\ \A q \in Process : plan'[q].old # i
  BY <1>4, <1>5, <1>6, OffersAssumption DEF Firm
<1>8. \A s \in Rider, k \in Order, e \in Engine :
        <<s, k>> \in said => ~(plan'[e].order = k /\ plan'[e].rider = s)
  BY <1>2, <1>6, OffersAssumption DEF SaidStands, Stands, Process
<1> QED BY <1>1, <1>3, <1>7, <1>8, StillStands

\* A rider's answer is given to an open offer, a manager's request asks for no pass.
LEMMA PersonAsks ==
  ASSUME IInv, RowsInv, SaidStands, asked = {},
         \/ \E i \in OfferId : Accept(i) \/ Decline(i)
         \/ \E d \in Desk, o \in Order, r \in Rider, what \in {"offer", "force"} : DeskStarts(d, o, r, what)
  PROVE  SaidStands' /\ asked' = {}
<1>p. OffersTyped /\ PlansTyped
  BY Parts DEF IInv
<1>1. ASSUME NEW i \in OfferId, Accept(i) PROVE SaidStands' /\ asked' = {}
  <2>1. /\ offer' = [offer EXCEPT ![i] = NoOffer] /\ offer[i].status = "offered"
        /\ UNCHANGED <<plan, said, asked>>
    BY <1>1 DEF Accept, history
  <2>2. \A j \in OfferId : Firm(j) => offer'[j] = offer[j] /\ \A p \in Process : plan'[p].old # j
    BY <2>1 DEF Firm, Refusal
  <2>3. \A r \in Rider, o \in Order, e \in Engine :
          <<r, o>> \in said => ~(plan'[e].order = o /\ plan'[e].rider = r)
    BY <2>1 DEF SaidStands, Stands
  <2> QED BY <2>1, <2>2, <2>3, StillStands
<1>2. ASSUME NEW i \in OfferId, Decline(i) PROVE SaidStands' /\ asked' = {}
  <2>1. /\ offer[i].status = "offered" /\ offer[i] \in OfferRow /\ i \in DOMAIN offer
        /\ offer' = [offer EXCEPT ![i] = [offer[i] EXCEPT !.status = "declined"]]
        /\ plan' = plan /\ asked' = asked
    BY <1>p, <1>2 DEF Decline, OffersTyped, NoOffer, RowsInv
  <2>2. \A r \in Rider, o \in Order : <<r, o>> \in said' =>
          \/ <<r, o>> \in said
          \/ \E j \in {i} : ~Crossed(j) /\ r = offer[j].rider /\ o = offer[j].order
    BY <1>2 DEF Decline
  <2>3. \A j \in OfferId : offer'[j] = IF j \in {i} THEN [offer[j] EXCEPT !.status = "declined"]
                                       ELSE offer[j]
    BY <2>1
  <2>4. \A j \in {i} : j \in OfferId /\ offer[j] \in OfferRow /\ offer[j].status = "offered"
    BY <2>1
  <2>5. plan' = plan
    BY <2>1
  <2>6. SaidStands'
    BY <2>2, <2>3, <2>4, <2>5, RefusalsWritten
  <2> QED BY <2>1, <2>6
<1>3. ASSUME NEW d \in Desk, NEW o \in Order, NEW r \in Rider, NEW what \in {"offer", "force"},
             DeskStarts(d, o, r, what)
      PROVE  SaidStands' /\ asked' = {}
  <2>1. UNCHANGED <<offer, said, asked>>
    BY <1>3 DEF DeskStarts, history
  <2>2. /\ plan'[d].old = NoOne
        /\ \A p \in Process : p # d => plan'[p] = plan[p]
    BY <1>p, <1>3 DEF DeskStarts, PlansTyped, Process
  <2>3. \A i \in OfferId : Firm(i) => offer'[i] = offer[i] /\ \A p \in Process : plan'[p].old # i
    BY <2>1, <2>2, OffersAssumption DEF Firm
  <2>4. \A e \in Engine : plan'[e] = plan[e]
    BY <2>2, OffersAssumption DEF Process
  <2>5. \A s \in Rider, k \in Order, e \in Engine :
          <<s, k>> \in said => ~(plan'[e].order = k /\ plan'[e].rider = s)
    BY <2>4 DEF SaidStands, Stands
  <2> QED BY <2>1, <2>3, <2>5, StillStands
<1> QED BY <1>1, <1>2, <1>3

\* However many passes and managers are at work at once: who refused an order, while nobody was
\* in the middle of asking, is not asked again by the engine, nor given it (rank, make_offer,
\* force_assign).
THEOREM RefusalsAreFinal == Spec => []RefusalsStand
<1>1. Init => StandInv
  BY DEF Init, StandInv, SaidStands, RowsInv
<1>2. IInv /\ StandInv /\ [Next]_vars => StandInv'
  <2> SUFFICES ASSUME IInv, RowsInv, SaidStands, asked = {}, [Next]_vars
               PROVE  SaidStands' /\ asked' = {}
    BY RowsStay DEF StandInv
  <2>1. \/ \E e \in Engine : StartPass(e) \/ \E o \in Order : Consider(e, o)
        \/ \E p \in Process :
             OfferRead(p) \/ OfferWithdraw(p) \/ OfferCreate(p) \/ ForceLock(p) \/ ForceCommit(p)
        \/ \E i \in OfferId : Accept(i) \/ Decline(i)
        \/ \E d \in Desk, o \in Order, r \in Rider, what \in {"offer", "force"} : DeskStarts(d, o, r, what)
        \/ UNCHANGED <<offer, plan, said, asked>>
    BY DEF Next, TimesOut, Ride, FailTrip, CancelOrder, Schedule, HoldEnds, Switch, RiderChanges,
         vars, history
  <2> QED BY <2>1, PassAsks, ProcessAsks, PersonAsks, QuietKeeps
<1>3. StandInv => RefusalsStand
  BY DEF StandInv, RefusalsStand
<1> QED BY <1>1, <1>2, <1>3, Inductive, PTL DEF Spec

=============================================================================
