------------------------------ MODULE Billing ------------------------------
(***************************************************************************)
(* One business's subscription and its overdue clock: periods paid, tried  *)
(* or chosen without a payment, and the hourly job that tells the owner of *)
(* an unpaid period and hides the business at its end.  Sources:           *)
(* src/backend/billing/{clock,serializers,views}.py,                       *)
(* payments/services.py (_finalize_subscription), listings/visibility.py.  *)
(*                                                                         *)
(* The job takes its time once, lists what is due, and handles each row in *)
(* a transaction of its own under the row's lock: a step to list and a     *)
(* step to take, in three phases, with anything in between.  A plan is one *)
(* tier, offered or not.  Every subscription is handled by itself.         *)
(***************************************************************************)
EXTENDS Integers, Sequences

CONSTANTS Run,    \* runs of the job at once: an hourly run may meet the one before it
          Cycle,  \* lengths of a period
          Day7, Day13, Grace, \* from overdue_since: day 7, day 13 and day 15 begin
          LateDiscovery,
          Slow,   \* assumed: how much time may pass during one run
          MaxTime, \* bound: the last moment
          MaxSwitches \* bound: changes of the plan's status and of the settings

ASSUME BillingAssumption ==
  /\ Cycle \subseteq Nat \ {0}
  /\ {Day7, Day13, Grace, LateDiscovery, Slow, MaxTime, MaxSwitches} \subseteq Nat
  /\ Day7 < Day13 /\ Day13 < Grace

Never == -1 \* NULL

VARIABLES
  time,
  period, \* Subscription.current_period_end; Never: no subscription
  clock,  \* overdue_since, the reminders' stamps and paused_at
  paying, \* lengths of the subscription payments begun and not answered
  run,    \* of each run: its phase, whether the row is on its list, its `now`
  offered, \* the tier has an ACTIVE plan
  selling, pausing, \* SUBSCRIPTIONS_ENABLED, SUBSCRIPTION_PAUSE_ENABLED
  switched, \* how often they changed
  told,   \* history: the notices sent since the last payment,
  first,  \* when the first of them was sent,
  covered \* and whether the period has not run out since

switches == <<offered, selling, pausing, switched>>
noticeHistory == <<told, first, covered>>
subscription == <<period, clock>>
billingVars == <<time, subscription, paying, run, switches, noticeHistory>>

Stopped == [overdue |-> Never, day7 |-> FALSE, day13 |-> FALSE, paused |-> FALSE]
Idle == [phase |-> "idle", listed |-> FALSE, now |-> 0]

BillingInit ==
  /\ time = 0
  /\ period \in {Never, 0} /\ clock = Stopped
  /\ paying = {}
  /\ run = [r \in Run |-> Idle]
  /\ offered = TRUE /\ selling = TRUE /\ pausing \in BOOLEAN /\ switched = 0
  /\ told = <<>> /\ first = Never /\ covered = FALSE

-----------------------------------------------------------------------------
(* The owner's paying and the payment's answer.                          *)

\* SubscriptionMeView.post and SubscriptionStartTrialView.post: a plan without a payment. The
\* period starts over, the clock is not touched. The trial's guard, that there is no
\* subscription yet, is not asked again when it is saved: it may replace one, too.
Subscribe(length) ==
  /\ selling /\ offered
  /\ period' = time + length
  /\ UNCHANGED <<time, clock, paying, run, switches, noticeHistory>>

\* TransactionMineListCreateView.post: the tier's plan, or the one the owner is on, has a price.
BeginPayment(length) ==
  /\ selling
  /\ offered \/ period # Never
  /\ paying' = paying \cup {length}
  /\ UNCHANGED <<time, subscription, run, switches, noticeHistory>>

\* _finalize_subscription and clear_after_payment, in one transaction; with no plan and no
\* subscription it only logs.
FinalizeSubscription(length) ==
  /\ length \in paying /\ paying' = paying \ {length}
  /\ \/ /\ offered \/ period # Never
        /\ period' = time + length
        /\ clock' = Stopped
        /\ told' = <<>> /\ first' = Never /\ covered' = TRUE
     \/ /\ ~offered /\ period = Never
        /\ UNCHANGED <<period, clock, noticeHistory>>
  /\ UNCHANGED <<time, run, switches>>

PaymentFailed(length) ==
  /\ length \in paying /\ paying' = paying \ {length}
  /\ UNCHANGED <<time, subscription, run, switches, noticeHistory>>

-----------------------------------------------------------------------------
(* The hourly job.                                                         *)

\* Slip: the days of a lapse discovered late count, too.
ClockStartAtEnd(end, now) == end

\* clock_start.
ClockStart(end, now) == IF now - end <= LateDiscovery THEN end ELSE now

OverdueDue(now) == clock.overdue = Never /\ ~clock.paused /\ period # Never /\ period <= now

ReminderDue(now) ==
  /\ clock.overdue # Never /\ ~clock.paused /\ clock.overdue > now - Grace
  /\ ~clock.day13
  /\ \/ clock.overdue <= now - Day13
     \/ ~clock.day7 /\ clock.overdue <= now - Day7

\* Slip: only who had the last reminder is paused.
PauseDueReminded(now) ==
  clock.overdue # Never /\ ~clock.paused /\ clock.day13 /\ clock.overdue <= now - Grace

PauseDue(now) == clock.overdue # Never /\ ~clock.paused /\ clock.overdue <= now - Grace

Due(phase, now) ==
  \/ phase = "overdue" /\ OverdueDue(now)
  \/ phase = "reminders" /\ ReminderDue(now)
  \/ phase = "pause" /\ PauseDue(now)

\* Slip: what was listed is handled.
StillDueAsListed(phase, now) == TRUE

\* The condition asked again of the locked row.
StillDue(phase, now) == Due(phase, now)

\* A notice to the owner, in the transaction of its stamp.
Tell(notice) ==
  /\ told' = Append(told, notice)
  /\ first' = IF told = <<>> THEN time ELSE first

MarkOverdue(now) ==
  /\ clock' = [clock EXCEPT !.overdue = ClockStart(period, now)]
  /\ Tell("ended")

\* Only the latest reminder that is due.
SendReminder(now) ==
  LET late == now - clock.overdue IN
  \/ /\ ~clock.day13 /\ late >= Day13
     /\ clock' = [clock EXCEPT !.day13 = TRUE] /\ Tell("day 13")
  \/ /\ ~clock.day7 /\ ~clock.day13 /\ late >= Day7 /\ late < Day13
     /\ clock' = [clock EXCEPT !.day7 = TRUE] /\ Tell("day 7")

Pause == clock' = [clock EXCEPT !.paused = TRUE] /\ Tell("paused")

Handle(phase, now) ==
  \/ phase = "overdue" /\ MarkOverdue(now)
  \/ phase = "reminders" /\ SendReminder(now)
  \/ phase = "pause" /\ Pause

\* tick: one `now` for the whole run.
Tick(r) ==
  /\ run[r] = Idle /\ selling
  /\ run' = [run EXCEPT ![r] = [phase |-> "overdue", listed |-> FALSE, now |-> time]]
  /\ UNCHANGED <<time, subscription, paying, switches, noticeHistory>>

\* On to the next phase; the pause is asked for only while it is on.
NextPhase(r) ==
  LET next == [overdue |-> "reminders", reminders |-> "pause", pause |-> "idle"][run[r].phase]
  IN  run' = [run EXCEPT ![r] = IF next = "idle" \/ (next = "pause" /\ ~pausing) THEN Idle
                                ELSE [phase |-> next, listed |-> FALSE, now |-> run[r].now]]

\* _each: the rows due are listed, then each is locked and asked again.
List(r) ==
  /\ run[r] # Idle /\ ~run[r].listed
  /\ IF Due(run[r].phase, run[r].now) THEN run' = [run EXCEPT ![r].listed = TRUE]
                                      ELSE NextPhase(r)
  /\ UNCHANGED <<time, subscription, paying, switches, noticeHistory>>

Take(r) ==
  /\ run[r].listed
  /\ IF StillDue(run[r].phase, run[r].now)
     THEN Handle(run[r].phase, run[r].now) /\ UNCHANGED <<period, covered>>
     ELSE UNCHANGED <<subscription, noticeHistory>>
  /\ NextPhase(r)
  /\ UNCHANGED <<time, paying, switches>>

\* The row is locked by someone else, or the handler raises and is rolled back.
Skip(r) ==
  /\ run[r].listed
  /\ NextPhase(r)
  /\ UNCHANGED <<time, subscription, paying, switches, noticeHistory>>

\* The worker stops; nothing resumes a run.
Die(r) ==
  /\ run[r] # Idle
  /\ run' = [run EXCEPT ![r] = Idle]
  /\ UNCHANGED <<time, subscription, paying, switches, noticeHistory>>

-----------------------------------------------------------------------------
\* A plan edited is not ACTIVE until it is approved; the two settings are set at a deploy.
Switch ==
  /\ switched < MaxSwitches /\ switched' = switched + 1
  /\ \/ offered' = ~offered /\ UNCHANGED <<selling, pausing>>
     \/ selling' = ~selling /\ UNCHANGED <<offered, pausing>>
     \/ pausing' = ~pausing /\ UNCHANGED <<offered, selling>>
  /\ UNCHANGED <<time, subscription, paying, run, noticeHistory>>

Pass ==
  /\ time < MaxTime /\ time' = time + 1
  /\ \A r \in Run : run[r] # Idle => time < run[r].now + Slow
  /\ covered' = (covered /\ time' < period)
  /\ UNCHANGED <<subscription, paying, run, switches, told, first>>

OwnerStep ==
  \E length \in Cycle :
    \/ Subscribe(length) \/ BeginPayment(length)
    \/ FinalizeSubscription(length) \/ PaymentFailed(length)
JobStep == \E r \in Run : Tick(r) \/ List(r) \/ Take(r) \/ Skip(r) \/ Die(r)

BillingNext == OwnerStep \/ JobStep \/ Switch \/ Pass

BillingSpec == BillingInit /\ [][BillingNext]_billingVars

\* Time passes, the job is started again and again and each run comes to its end; not all
\* of them are stopped in the same phase, find the row held or raise.
BillingFairness ==
  /\ WF_billingVars(Pass)
  /\ \A r \in Run : WF_billingVars(List(r) \/ Take(r) \/ Skip(r) \/ Die(r))
  /\ WF_billingVars(\E r \in Run : Tick(r)) /\ SF_billingVars(\E r \in Run : Take(r))
  /\ \A phase \in {"overdue", "reminders", "pause"} :
       SF_billingVars(\E r \in Run : run[r].phase = phase /\ List(r))

FairBilling == BillingSpec /\ BillingFairness

-----------------------------------------------------------------------------
BillingTypeOK ==
  /\ time \in 0..MaxTime
  /\ period \in Nat \cup {Never}
  /\ clock \in [overdue : Nat \cup {Never}, day7 : BOOLEAN, day13 : BOOLEAN, paused : BOOLEAN]
  /\ paying \subseteq Cycle
  /\ run \in [Run -> [phase : {"idle", "overdue", "reminders", "pause"}, listed : BOOLEAN,
                      now : 0..MaxTime]]
  /\ offered \in BOOLEAN /\ selling \in BOOLEAN /\ pausing \in BOOLEAN /\ switched \in 0..MaxSwitches
  /\ told \in Seq({"ended", "day 7", "day 13", "paused"})
  /\ first \in Nat \cup {Never} /\ covered \in BOOLEAN

\* hidden_business_q: what public browse leaves out.
Hidden == selling /\ pausing /\ clock.paused

\* subscription_state: what screens say of the business.
State ==
  IF ~selling \/ period = Never THEN "none"
  ELSE IF clock.paused /\ pausing THEN "paused"
  ELSE IF clock.overdue # Never \/ period <= time THEN "overdue"
  ELSE "active"

\* Until the end of the time paid for, nobody is told that the period ended, no screen says
\* so and the business is not hidden, whatever a run of the job read before the payment.
PaidIsShown ==
  covered => told = <<>> /\ ~Hidden /\ State # "overdue"

NoticeRank(notice) ==
  CASE notice = "ended" -> 1 [] notice = "day 7" -> 2 [] notice = "day 13" -> 3 [] OTHER -> 4

\* The owner is told that the period ended before anything else, and of each thing once and in
\* turn; and nobody is hidden sooner than the grace after the first notice, less what a run
\* may count back (a discovery not late, a slow run), however late the job comes.
FairWarning ==
  [][LET notice == told'[Len(told')] IN
     told' # told /\ told' # <<>> =>
       /\ \A i \in 1..Len(told) : NoticeRank(told[i]) < NoticeRank(notice)
       /\ (told = <<>>) <=> (notice = "ended")
       /\ notice = "paused" => time - first >= Grace - LateDiscovery - Slow]_billingVars

Unpaid == period # Never /\ (clock.overdue # Never \/ period <= time)

\* An unpaid business is hidden in the end, whatever the job missed, unless a switch is off,
\* the owner pays, chooses a plan before the clock starts, or the grace does not end by MaxTime.
UnpaidIsHidden ==
  Unpaid ~> \/ Hidden \/ ~Unpaid \/ ~selling \/ ~pausing
            \/ clock.overdue > MaxTime - Grace

=============================================================================
