---------------------------- MODULE OrderEscrow -----------------------------
(***************************************************************************)
(* The money of a paid door-to-door order: held from the payment on,       *)
(* released to the vendors when Support verifies the delivery, given back  *)
(* by refunds, and the delivery fee that is the rider's once earned.       *)
(* Sources: src/backend/ledger/{escrow,refunds,riders,redelivery,          *)
(* verification}.py, orders/support.py, disputes/views.py,                 *)
(* delivery/{config,views_cases}.py, marketing/waivers.py.                 *)
(*                                                                         *)
(* DeliveryJob gives the steps of the delivery; each is completed here     *)
(* with the money it moves.  A refund, a release and a cancel hold the     *)
(* order row's lock, then the job's, from before they read until they      *)
(* commit: each is one step.  Riders do not change employment.             *)
(***************************************************************************)
EXTENDS DeliveryJob, RefundMath

CONSTANTS Base,          \* each vendor's items
          Fee,           \* the platform fee on them (OrderFeeSnapshot.charged_pesewas)
          DeliveryFee,   \* Order.delivery_fee
          Waived,        \* a fee covered by a free-delivery promo instead (WaivedFeeCharge)
          BusinessFunds, \* the promo is vendor 1's, else AshantiHub's
          Discount,      \* Order.discount_amount, borne by AshantiHub
          Processing,    \* the payment charge the customer paid on top
          ThirdParty,    \* riders paid through their wallet; the others are AshantiHub's
          RedoFee        \* the fee of a second trip

ASSUME EscrowAssumption ==
  /\ Base \in Nat \ {0} /\ Fee \in 0..Base
  /\ DeliveryFee \in Nat /\ Waived \in Nat /\ (DeliveryFee = 0 \/ Waived = 0)
  /\ Discount \in 0..(Vendors * Base - 1)
  /\ Processing \in Nat /\ RedoFee \in Nat \ {0}
  /\ BusinessFunds \in BOOLEAN /\ ThirdParty \subseteq Rider

Paid == Vendors * Base - Discount + DeliveryFee

\* Accounts of the ledger; a balance is what was credited less what was debited.
Pending == {"vendor_pending"} \X Vendor
Available == {"vendor_available"} \X Vendor
RiderBalance == {"rider_balance"} \X Rider
Clearing == <<"provider_clearing">>
Wallet == <<"customer_wallet">>
Promo == <<"platform_promo_subsidy">>
FeeIncome == <<"platform_fee_income">>
DeliveryIncome == <<"platform_delivery_income">>
ProviderFees == <<"provider_fees">>
Payable == <<"delivery_payable">>
RedoPayable == <<"redelivery_payable">>
Account == Pending \cup Available \cup RiderBalance
           \cup {Clearing, Wallet, Promo, FeeIncome, DeliveryIncome, ProviderFees, Payable, RedoPayable}

VARIABLES
  ledger,   \* the books; taken: delivery income of release, settle and promo charge;
            \* waiver: WaivedFeeCharge and its journals; earner: RiderEarning.rider
  released, \* the release journal is written
  back      \* OrderRefund, summed, and the snapshots' refunded base and fee

money == <<ledger, released, back>>
vars == <<jobVars, money>>

\* The journal's line of each account, debits below zero.
Post(l, lines) == [l EXCEPT !.books = [a \in Account |-> @[a] + lines[a]]]

TransferLines(from, to, amount) ==
  [a \in Account |-> CASE a = from -> -amount [] a = to -> amount [] OTHER -> 0]
Transfer(l, from, to, amount) == Post(l, TransferLines(from, to, amount))

\* record_order_payment.
PaymentLines ==
  [a \in Account |->
     CASE a \in Pending -> Base
       [] a = Clearing  -> -Paid
       [] a = Promo     -> -Discount
       [] a = Payable   -> DeliveryFee
       [] OTHER         -> 0]

Init ==
  /\ JobInit
  /\ ledger = Post([books |-> [a \in Account |-> 0], taken |-> 0, earner |-> "none",
                    waiver |-> IF Waived > 0 THEN "owed" ELSE "none"], PaymentLines)
  /\ released = FALSE
  /\ back = [base |-> [v \in Vendor |-> 0], fee |-> [v \in Vendor |-> 0],
             customer |-> 0, delivery |-> 0, subsidy |-> 0, processing |-> 0]

-----------------------------------------------------------------------------
(* The delivery fee.                                                       *)

\* Slip: a completed first trip does not count.
EarnedByPickup(j) == PickupMade(j) \/ ledger.earner # "none" \/ (released /\ Delivered(j))
\* delivery_earned.
Earned(j) ==
  \/ PickupMade(j)
  \/ ledger.earner # "none"
  \/ firstLeg # "none"
  \/ released /\ Delivered(j)

\* delivery_kept.
Kept(j) == IF Earned(j) THEN DeliveryFee ELSE 0

\* fee_payee: the first rider of an order delivered again; else, at a release, the one who
\* delivered, and at a settle the one who picked up.
FeePayee(j, delivered) ==
  IF firstLeg # "none" THEN firstLeg
  ELSE IF delivered \/ PickupMade(j) THEN j.rider ELSE "none"

FeeTaken(l) ==
  LET held == l.books[Payable]
  IN  [Transfer(l, Payable, DeliveryIncome, held) EXCEPT !.taken = @ + held]

Funder == IF BusinessFunds THEN <<"vendor_available", 1>> ELSE Promo

\* charge_waiver: only a charge still owed.
PromoCharged(l) ==
  IF l.waiver # "owed" THEN l
  ELSE [Transfer(l, Funder, DeliveryIncome, Waived) EXCEPT !.taken = @ + Waived, !.waiver = "charged"]

\* return_waiver and reverse_for_order.
PromoReturned(l) ==
  CASE l.waiver = "owed" -> [l EXCEPT !.waiver = "reversed"]
    [] l.waiver = "charged" -> [Transfer(l, DeliveryIncome, Funder, Waived) EXCEPT !.waiver = "returned"]
    [] OTHER -> l

\* credit_delivery: a third-party rider gets all that was taken for delivery, once.
RiderCredited(l, r) ==
  IF r \in ThirdParty /\ l.earner = "none" /\ l.taken > 0
  THEN [Transfer(l, DeliveryIncome, <<"rider_balance", r>>, l.taken) EXCEPT !.earner = r]
  ELSE l

\* Slip: the rider is paid before the promo's funder is charged.
RiderFirst(l, payee) == PromoCharged(RiderCredited(FeeTaken(l), payee))
\* The delivery's part of a release, and settle_delivery.
DeliverySettled(l, payee) == RiderCredited(PromoCharged(FeeTaken(l)), payee)

\* redelivery settle and credit_rider: the rider's, if third-party.
RedoSettled(l, r) ==
  Transfer(l, RedoPayable, IF r \in ThirdParty THEN <<"rider_balance", r>> ELSE DeliveryIncome, RedoFee)
RedoReturned(l) == Transfer(l, RedoPayable, Wallet, RedoFee)

\* close_for_whole_refund.
RedoClosedIn(l, j) ==
  CASE redo = "assigned" /\ RedoClosed(j) = "completed" -> RedoSettled(l, j.rider)
    [] redo \in {"paid", "assigned"} /\ RedoClosed(j) = "refunded" -> RedoReturned(l)
    [] OTHER -> l

-----------------------------------------------------------------------------
(* Refunds.                                                                *)

All == -1 \* the amount of a refund that names none: all that is left

Room == [v \in Vendor |-> Base - back.base[v]]
RoomOf(scope) == IF scope = 0 THEN SumFunction(Room) ELSE Room[scope]

\* left.
OrZero(n) == IF n > 0 THEN n ELSE 0
PaidLeft == Paid - back.customer
FeeHeld == DeliveryFee - back.delivery
LeftCustomer(j) == OrZero(PaidLeft - Kept(j))
LeftDelivery(j) == OrZero(FeeHeld - Kept(j))
LeftSubsidy == Discount - back.subsidy
LeftProcessing == Processing - back.processing
\* Slip: the delivery fee still held is not kept back from a partial refund.
LeftPartialAll == OrZero(PaidLeft)
LeftPartial == OrZero(PaidLeft - FeeHeld)
Shortfall(j) == OrZero(Kept(j) - PaidLeft)

\* Slip: the vendors' part is always looked for in what is still held for them.
RefundLinesPending(give, fee) ==
  [a \in Account |->
     CASE a \in Pending     -> -give.base[a[2]]
       [] a = Payable       -> -give.delivery
       [] a = Promo         -> give.subsidy
       [] a = ProviderFees  -> -give.processing
       [] a = Wallet        -> give.customer + give.processing
       [] OTHER             -> 0]

\* _post: vendors give back from what they hold, the fee share returning to them once it
\* was charged; AshantiHub its delivery fee, coupon and payment charge.
RefundLines(give, fee) ==
  LET DeliveryHolder == IF released THEN DeliveryIncome ELSE Payable IN
  [a \in Account |->
     CASE a \in Pending        -> IF released THEN 0 ELSE -give.base[a[2]]
       [] a \in Available      -> IF released THEN fee[a[2]] - give.base[a[2]] ELSE 0
       [] a = FeeIncome        -> IF released THEN -SumFunction(fee) ELSE 0
       [] a = DeliveryHolder   -> -give.delivery
       [] a = Promo            -> give.subsidy
       [] a = ProviderFees     -> -give.processing
       [] a = Wallet           -> give.customer + give.processing
       [] OTHER                -> 0]

\* What the refund adds to the snapshots and to OrderRefund.
Given(give, fee) ==
  [base |-> [v \in Vendor |-> back.base[v] + give.base[v]],
   fee |-> [v \in Vendor |-> back.fee[v] + fee[v]],
   customer |-> back.customer + give.customer, delivery |-> back.delivery + give.delivery,
   subsidy |-> back.subsidy + give.subsidyOwed, processing |-> back.processing + give.processing]

\* Slip: each part's fee share is rounded by itself.
FeeOfPart(give) == [v \in Vendor |-> FeeShare(Fee, Base, give.base[v])]
FeeOf(give) ==
  [v \in Vendor |-> FeeShare(Fee, Base, back.base[v] + give.base[v]) - back.fee[v]]

WholeGive(j, charge) ==
  [base |-> Room, customer |-> LeftCustomer(j), delivery |-> LeftDelivery(j),
   subsidyOwed |-> LeftSubsidy, subsidy |-> LeftSubsidy - Shortfall(j),
   processing |-> IF charge THEN LeftProcessing ELSE 0]

PartGive(scope, amount, charge) ==
  LET share == Allocate(amount, [v \in IF scope = 0 THEN Vendor ELSE {scope} |-> Room[v]])
  IN  [base |-> [v \in Vendor |-> IF v \in DOMAIN share THEN share[v] ELSE 0],
       customer |-> amount, delivery |-> 0, subsidyOwed |-> 0, subsidy |-> 0,
       processing |-> IF charge THEN ChargeShare(Processing, LeftProcessing, amount, Paid) ELSE 0]

IsWhole(j, scope, amount) == scope = 0 /\ amount \in {All, LeftCustomer(j)}

NothingLeft(j, charge) ==
  /\ LeftCustomer(j) = 0 /\ LeftDelivery(j) = 0 /\ LeftSubsidy = 0
  /\ SumFunction(Room) = 0
  /\ ~charge \/ LeftProcessing = 0

\* refund_order with nothing left to give: the promo is given back or, earned, charged.
RefundNothing(j, l) ==
  LET done == IF ~Earned(j) THEN PromoReturned(l)
              ELSE IF ~released THEN DeliverySettled(l, FeePayee(j, FALSE))
              ELSE l
  IN  /\ ledger' = RedoClosedIn(done, j)
      /\ redo' = RedoClosed(j)
      /\ UNCHANGED <<back, refunded>>

\* A whole refund: the delivery, if earned, is settled first; else the promo is cleared.
RefundWhole(j, l, charge) ==
  LET give == WholeGive(j, charge)
      settled == IF ~released /\ Earned(j) THEN DeliverySettled(l, FeePayee(j, FALSE)) ELSE l
      posted == Post(settled, RefundLines(give, FeeOf(give)))
      closed == RedoClosedIn(posted, j)
  IN  /\ ledger' = IF Earned(j) THEN closed ELSE PromoReturned(closed)
      /\ back' = Given(give, FeeOf(give))
      /\ redo' = RedoClosed(j)
      /\ refunded' = TRUE

\* _partial_limits.
PartAllowed(j, scope, amount) ==
  /\ amount > 0
  /\ amount <= LeftCustomer(j)
  /\ amount <= RoomOf(scope)
  /\ amount <= LeftPartial

\* A partial or shop-scoped refund; one that empties the order before anything is
\* delivered clears the promo.
RefundPart(j, l, scope, amount, charge) ==
  LET give == PartGive(scope, amount, charge)
      posted == Post(l, RefundLines(give, FeeOf(give)))
      empties == \A v \in Vendor : give.base[v] >= Room[v]
  IN  /\ ledger' = IF ~Earned(j) /\ empties /\ ~Delivered(j) THEN PromoReturned(posted) ELSE posted
      /\ back' = Given(give, FeeOf(give))
      /\ UNCHANGED <<redo, refunded>>

\* _cancel_if_not_handed_over.
CancelIfNotHandedOver(j) ==
  order' = IF refunded' /\ ~refunded /\ ~Delivered(j) THEN "cancelled" ELSE order

\* refund_order, as a case's decision calls it. The order's own payable never goes below
\* zero (posting.post): such a refund fails as a whole.
Refund(scope, amount, charge) ==
  /\ IF ~IsWhole(job, scope, amount)
     THEN PartAllowed(job, scope, amount) /\ RefundPart(job, ledger, scope, amount, charge)
     ELSE IF NothingLeft(job, charge) THEN RefundNothing(job, ledger)
     ELSE RefundWhole(job, ledger, charge)
  /\ ledger'.books[Payable] >= 0
  /\ CancelIfNotHandedOver(job)
  /\ UNCHANGED <<assignment, firstLeg, trips, released>>

\* The amounts a decision may name; All only when nothing is left for the customer
\* (whole_at_zero_refusal).
WholeAtZero(scope) == scope = 0 /\ ~refunded /\ LeftCustomer(job) = 0
Amounts(scope) == 1..LeftCustomer(job) \cup (IF WholeAtZero(scope) THEN {All} ELSE {})

-----------------------------------------------------------------------------
(* Cases and what they decide.                                             *)

\* DisputeResolveView, with a refund.
ResolveWithRefund(c) ==
  /\ case[c].status = "open"
  /\ \E amount \in Amounts(case[c].scope), charge \in {FALSE, Processing > 0} :
       Refund(case[c].scope, amount, charge)
  /\ case' = [case EXCEPT ![c].status = "resolved"]

\* DisputeResolveView or DecideView, without one.
CloseCase(c) ==
  /\ case[c].status = "open"
  /\ \E end \in {"resolved", "rejected"} : case' = [case EXCEPT ![c].status = end]
  /\ UNCHANGED <<order, refunded, assignment, redelivery, money>>

ReReview(c) ==
  /\ case[c].status = "rejected"
  /\ case' = [case EXCEPT ![c].status = "open"]
  /\ UNCHANGED <<order, refunded, assignment, redelivery, money>>

\* check: what the approval could not pay is refused now.
Givable(scope, amount) ==
  IF amount = All THEN WholeAtZero(scope)
  ELSE (scope = 0 /\ amount = LeftCustomer(job)) \/ PartAllowed(job, scope, amount)

\* DecideView, with a refund: the case is final and its refund waits for approval.
Decide(c) ==
  /\ case[c].status = "open"
  /\ \E amount \in Amounts(case[c].scope) :
       /\ Givable(case[c].scope, amount)
       /\ case' = [case EXCEPT ![c].status = "resolved", ![c].asks = amount]
  /\ UNCHANGED <<order, refunded, assignment, redelivery, money>>

Asking == {c \in Case : case[c].asks # 0}

\* refund_apply: a refund that cannot be given leaves the request waiting.
Approve(c) ==
  /\ c \in Asking
  /\ case[c].asks = All => WholeAtZero(case[c].scope)
  /\ \E charge \in {FALSE, Processing > 0} : Refund(case[c].scope, case[c].asks, charge)
  /\ case' = [case EXCEPT ![c].asks = 0]

\* The request is rejected or withdrawn.
DropRequest(c) ==
  /\ c \in Asking
  /\ case' = [case EXCEPT ![c].asks = 0]
  /\ UNCHANGED <<order, refunded, assignment, redelivery, money>>

-----------------------------------------------------------------------------
(* Release.                                                                *)

\* has_open_dispute, has_pending_refund.
NothingInDispute == (\A c \in Case : case[c].status # "open") /\ Asking = {}

ReleaseLines ==
  LET due == [v \in Vendor |-> Room[v] - (Fee - back.fee[v])]
  IN  [a \in Account |->
         CASE a \in Pending   -> -Room[a[2]]
           [] a \in Available -> due[a[2]]
           [] a = FeeIncome   -> Vendors * Fee - SumFunction(back.fee)
           [] OTHER           -> 0]

\* handed_over, and what verification.record asks before an outcome; the customer's
\* confirmation is the environment's.
Verifiable == order = "paid" /\ Delivered(job) /\ ~released

\* record, the delivery matches: release_verified. With nothing to post nothing is written.
Release ==
  /\ Verifiable
  /\ NothingInDispute
  /\ SumFunction(Room) > 0 \/ ledger.books[Payable] > 0
  /\ ledger' = DeliverySettled(Post(ledger, ReleaseLines), FeePayee(job, TRUE))
  /\ released' = TRUE
  /\ UNCHANGED <<jobVars, back>>

-----------------------------------------------------------------------------
(* Support cancels for the customer: the job is withdrawn, or failed after *)
(* a pickup, and the order refunded whole.                                 *)

\* allowed_actions: nothing looks picked up.
LooksUncollected == job.status \in {"none", "assigned"} /\ moving = "processing"

JobWithdrawn ==
  IF PickupMade(job) THEN [job EXCEPT !.status = "failed", !.reason = "order_cancelled"] ELSE NoJob

\* SupportOrderStatusView._cancel; the promo is reversed before the refund is made.
SupportCancel ==
  LET j == JobWithdrawn
      reversed == [ledger EXCEPT !.waiver = IF @ = "owed" THEN "reversed" ELSE @]
  IN  /\ order = "paid" /\ LooksUncollected
      /\ job' = j
      /\ order' = "cancelled"
      /\ IF NothingLeft(j, FALSE) THEN RefundNothing(j, reversed) ELSE RefundWhole(j, reversed, FALSE)
      /\ ledger'.books[Payable] >= 0
      /\ UNCHANGED <<moving, picked, firstLeg, trips, case, released>>

-----------------------------------------------------------------------------
(* The steps of the delivery, with the money they move.                    *)

MoneyStays == UNCHANGED money

\* redelivery.complete: an assigned second trip's fee is the rider's on the job.
RedoEarned ==
  /\ ledger' = IF redo = "assigned" THEN RedoSettled(ledger, job.rider) ELSE ledger
  /\ UNCHANGED <<released, back>>

DeliverGoods == Deliver /\ RedoEarned
FailDelivery == (\E reason \in {"away", "other"} : CantDeliver(reason)) /\ RedoEarned

CustomerPaysRedo ==
  /\ PayRedo
  /\ ledger' = Transfer(ledger, Clearing, RedoPayable, RedoFee)
  /\ UNCHANGED <<released, back>>

StaffCancelsRedo ==
  /\ CancelRedo
  /\ ledger' = IF redo = "paid" THEN RedoReturned(ledger) ELSE ledger
  /\ UNCHANGED <<released, back>>

JobStep ==
  \/ OpenCase
  \/ ReadWaiting
  \/ \E r \in Rider : AssignByManager(r) \/ AcceptOffer(r) \/ ForceAssign(r)
  \/ Accept \/ Collect
  \/ \E v \in Vendor, byManager \in BOOLEAN : Skip(v, byManager)
  \/ RequestRedo

Next ==
  \/ JobStep /\ MoneyStays
  \/ DeliverGoods \/ FailDelivery
  \/ CustomerPaysRedo \/ StaffCancelsRedo
  \/ \E c \in Case :
       ResolveWithRefund(c) \/ CloseCase(c) \/ ReReview(c) \/ Decide(c) \/ Approve(c) \/ DropRequest(c)
  \/ Release
  \/ SupportCancel

Spec == Init /\ [][Next]_vars

-----------------------------------------------------------------------------
TypeOK ==
  /\ JobTypeOK
  /\ case \in [Case -> [status : {"none", "open", "resolved", "rejected"}, scope : 0..Vendors,
                        asks : {All} \cup 0..Paid]]
  /\ ledger \in [books : [Account -> Int], taken : Nat, earner : ThirdParty \cup {"none"},
                 waiver : {"none", "owed", "charged", "reversed", "returned"}]
  /\ released \in BOOLEAN
  /\ back \in [base : [Vendor -> 0..Base], fee : [Vendor -> 0..Fee], customer : 0..Paid,
               delivery : 0..DeliveryFee, subsidy : 0..Discount, processing : 0..Processing]

\* Whatever the rounding of shares and fees, no journal is out of balance (posting._validate
\* would refuse it and with it the refund or release), and the order's part of a shared account
\* is never overdrawn: no other order's held money, and none of AshantiHub's own, pays for
\* this order's delivery or refunds. (posting.post guards the whole account only.)  With one
\* exception, a promo charged for one rider's trip, returned, and counted again when a later
\* rider is paid (_taken_as_delivery_income does not subtract what return_waiver gave back).
PaidTwice == ledger.waiver = "returned" /\ ledger.earner # "none"
HeldIsEnough ==
  /\ SumFunction(ledger.books) = 0
  /\ \A a \in Pending \cup RiderBalance \cup {Payable, RedoPayable, FeeIncome} : ledger.books[a] >= 0
  /\ ledger.books[DeliveryIncome] >= IF PaidTwice THEN -Waived ELSE 0

\* A vendor ends with its items less what was refunded, less the fee on what was not,
\* whichever of release and refunds came first; unreleased, with nothing but its promo.
VendorPaidRight ==
  \A v \in Vendor :
    LET promo == IF BusinessFunds /\ v = 1 /\ ledger.waiver = "charged" THEN Waived ELSE 0
        sold == Base - back.base[v]
        fee == Fee - FeeShare(Fee, Base, back.base[v])
    IN  ledger.books[<<"vendor_available", v>>] = (IF released THEN sold - fee ELSE 0) - promo

\* A customer whose order was cancelled or refunded whole has all that was paid but a
\* delivery fee taken for the rider, however many refunds it came in; once released or
\* refunded whole the order holds nothing back.
WholeIsWhole ==
  /\ order = "cancelled" \/ refunded =>
       back.customer = Paid - (IF DeliveryFee > 0 THEN ledger.taken ELSE 0)
  /\ released \/ refunded => \A a \in Pending \cup {Payable} : ledger.books[a] = 0

\* The release pays the third-party rider who delivered the whole fee, a promo's included.
DelivererIsPaid ==
  released /\ FeePayee(job, TRUE) \in ThirdParty /\ DeliveryFee + Waived > 0 =>
    ledger.earner = FeePayee(job, TRUE) /\ ledger.taken = DeliveryFee + Waived

\* Whoever made the first trip has the fee once the order is released, whatever the second
\* did; and it is somebody's once the order is refunded (one settled earlier may be paid).
FirstRiderIsPaid ==
  firstLeg \in ThirdParty /\ DeliveryFee > 0 =>
    /\ released => ledger.earner = firstLeg
    /\ refunded => ledger.earner # "none"

\* A wallet is paid only for its rider's own trip: never for goods that only another one
\* collected, whoever has the job when the order is refunded. Once a second trip was asked
\* for it is the first rider's.
PaidForOwnTrip ==
  [][ledger'.earner # ledger.earner =>
       /\ ledger.earner = "none"
       /\ firstLeg # "none" => ledger'.earner = firstLeg
       /\ \/ ledger'.earner \in {firstLeg, job.pickedBy}
          \/ \E v \in Vendor : job.stop[v] = ledger'.earner
          \/ Delivered(job)]_vars

\* The fee of a second trip is held from its payment until the trip or the request ends.
RedoFeeHeld == ledger.books[RedoPayable] = IF redo \in {"paid", "assigned"} THEN RedoFee ELSE 0

-----------------------------------------------------------------------------
(* What the code's own texts say and its steps do not keep.                *)

\* _cancel_if_not_handed_over: no customer gets goods and money.
GoodsOrMoney == ~(order = "cancelled" /\ refunded /\ Delivered(job))

=============================================================================
