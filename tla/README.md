# AshantiHub: a verification project

AshantiHub is a marketplace for Ghana: customers buy goods, bookings and tickets from local businesses; the platform
holds their money, delivers the goods, releases or refunds the money, and pays it out; the businesses subscribe. The
server is a Django / Celery / Postgres application in `src/backend`. This directory holds TLA+ models of the parts of
it that move money, stock and goods, of the approvals that guard them and of the subscription clock, the TLC
configurations that check them on small instances, and TLAPS proofs for every value of the constants.

All paths below are relative to `src/backend`.

## 1. The system

### Parts, state and operations

| Part | State it keeps | Operations | Talks to | Here |
|---|---|---|---|---|
| **Checkout** (`orders`, `cart`, `marketing/checkout`, `payments`) | `Order.status`, stock counters, `CheckoutSession`, `CouponRedemption`, coupon status | place an order, call Hubtel, callback, expire, cancel | ledger (payment), marketing (promotions), Hubtel (external) | `Checkout` |
| **Order escrow** (`ledger`) | accounts with balances, journals with unique keys, fee snapshots, `OrderRefund`, `RiderEarning` | record a payment, release, refund, settle a delivery, credit a rider | every part that moves money | `OrderEscrow`, `RefundShares` |
| **Delivery jobs** (`delivery`, `orders` views) | `DeliveryAssignment`, `PickupStop`s, `Redelivery` | assign, accept, pick up, skip, deliver, fail, second trip | ledger (earnings), disputes (cases), orders (status) | `DeliveryJob` |
| **Delivery offers** (`delivery/dispatching`, `views_queue`) | `Offer`s, `QueueHold`s, the auto-assign switch | the engine's pass, offer, withdraw, force, accept, decline, time out | delivery jobs | `Offers` |
| **Disputes and delivery cases** (`disputes`, `delivery/views_cases`) | `Dispute.status` | open, decide with or without refund, re-review | ledger (refund), approvals | in `OrderEscrow`, `BookingSale`, `StorePickup` |
| **Store pickup** (`ledger/verification`) | `FulfilmentCheck`: collection code, wrong tries, collected | make and show the code, collect, expire and refund, Support's call | ledger, disputes, stock | `StorePickup` |
| **Booking sales** (`ledger/sales`, `events`, `bookings`, `services`) | `BookingSale`, `BookingRefund`, request, stay, ticket, event status | pay, release by the clock, accept, report, call, cancel, resolve, cancel the event | checkout sessions, ledger, disputes | `BookingSale` |
| **Wallets and payouts** (`wallets`) | `Withdrawal`, `PayoutDestination` | request, claim, send, poll, apply a report, resolve by hand | ledger, fraud, approvals, payout provider (external) | `Withdrawals` |
| **Approvals and KYC decisions** (`approvals`, `accounts/kyc`) | `ApprovalRequest`, decisions, the target of each kind | submit, approve, co-sign, reject, cancel, escalate, the KYC queue | whatever registered a kind: payouts, refunds, settings | `Approvals` |
| **Fraud** (`fraud`) | `FraudFlag` with a dedupe key | raise, confirm, dismiss | wallets (freezes a withdrawal) | the amount case, in `Withdrawals` |
| **Promotions** (`marketing`) | coupons, flash sales, free-delivery waivers, campaigns | create, approve, pause, resume, end, redeem | checkout, ledger | a coupon's use, in `Checkout` |
| **Subscriptions** (`billing`, `payments` finalizer, `listings/visibility`) | `Subscription`: period end, overdue clock, stamps of the notices | choose a plan, pay, mark overdue, remind, pause, hide | payments, browse, approvals (of plans) | `Billing` |
| **Commission, targets** | accruals | accrue, reverse | payments | no |
| **Identity** (`accounts`, `otp`, `staffsecurity`, `people`) | users, codes, sessions | sign in, step up, lock | everything | no |
| **The rest** | listings, reviews, messages, notices, reports | data entry, moderation, display | | no |

Requests run as separate processes, each in one Postgres transaction at READ COMMITTED; what makes them atomic are row
locks (`SELECT ... FOR UPDATE`) taken in the order `orders/locks.py` lays down, the account locks of
`ledger/posting.py` and the advisory lock of an approval's target. Celery tasks on a beat run beside them. Hubtel and
the payout provider are called outside every transaction. So the grain of every model is the same: what is done under
one lock, from the first read after it to the commit, is one step; what is read before the lock, saved without one, or
done after the commit is a step of its own.

### What is hard, and what would be correct

* **Withdrawals.** The provider call cannot be rolled back and cannot be in a transaction. The request that made the
  withdrawal, the 5-minute poll, two staff members and the provider's reports all work on one row; any process may die
  between commit and call. Correct: money is held once, sent at most once, ends paid or returned and never both, and
  the transit account equals what is open at every moment.
* **Checkout.** Stock and coupon uses are taken before anything is paid, the payment is confirmed by a callback that
  may be late, double, wrong or lost, while an expiry task, Support and a failed call give the same goods back.
  Correct: no unit is lost or made, a paid order keeps its goods, nothing is paid without its charge, no charge goes
  unnoticed.
* **Escrow.** Refunds (whole, partial, per shop), release, Support's cancel and the rider's steps come in any order.
  Fees, coupon, payment charge and shares are rounded to whole pesewas. The delivery fee belongs to a rider only once
  it is earned, a delivery may be made twice, and the shop may have paid for it with a promo. Correct: every journal
  balances, no order lives on another order's money, and vendor, customer and rider end with exactly what is theirs.
* **Delivery jobs and offers.** The job changes hands, stops are skipped, the order is refunded while the rider is on
  the way, lists are read before locks are taken, offers are read and saved without one. Correct: a rider is paid for
  his own trip, the second trip's fee is held while it may still be wanted, a job taken is not taken away by an open
  offer, who refused is not asked again by the engine, and every order comes to a rider if there is one to ask.
* **Store pickup.** The customer's pages, the desk, the hourly expiry and Support work on one order. Correct: the code
  shown is the code expected, the goods are in one place, money and goods do not both go to the customer, what nobody
  collects is refunded.
* **Booking sales.** The clock releases money the customer, Support and a dispute may still want back; a cancelled
  event refunds hundreds of purchases one by one and may be cut short. Correct: nothing is paid out under an open
  dispute, the fee kept is the fee of what was kept, nobody has both the service and the money, every sale is settled.
* **Approvals.** Two decisions, or a decision and a change made elsewhere, meet on one target; a target has a queue of
  its own beside the inbox; approvers leave. Correct: nobody decides a change of their own, large amounts have two
  people, what was checked is what is applied, and a request no one answers reaches the Super Admin.
* **Subscriptions.** An hourly job that may be late, stop between its phases or overlap with itself lists the unpaid
  businesses and handles them one by one with the time it started at, while payments and plan changes arrive. Correct:
  who paid is neither told otherwise nor hidden, nobody is hidden without fair warning, who does not pay is hidden.

The hazards, each at its line with the properties that look at it, are in `PROJECT.json`.

## 2. Modules

| Module | What it is |
|---|---|
| `Withdrawals`, `MCWithdrawals` + `Withdrawals.cfg` | the payout engine: request, claim, send, poll, reports, staff, amount cases |
| `PayoutPromise` | what the engine promises a holder; `Withdrawals` implements it |
| `Checkout`, `MCCheckout` + `Checkout.cfg`, `CheckoutReturnedTwice.cfg` | stock, coupon use and payment session of an order |
| `RefundMath` | the divisions of money: shares, fee share, charge share |
| `RefundShares` + `RefundShares.cfg` | any sequence of partial refunds, for every base and fee within a bound |
| `DeliveryJob` | the delivery of one order, with its second trips and cases; no money |
| `OrderEscrow`, `MCOrderEscrow` + `EscrowTwoShops.cfg`, `EscrowSecondTrip.cfg`, `EscrowGoodsAndMoney.cfg` | the order's money; composes `DeliveryJob` and `RefundMath` |
| `Offers`, `MCOffers` + `Offers.cfg` | how a paid order comes to a rider |
| `BookingSale`, `MCBookingSale` + `BookingSale.cfg` | a paid service, stay or purchase of tickets; uses `RefundMath` |
| `StorePickup`, `MCStorePickup` + `StorePickup.cfg` | an order collected at the shop; uses `RefundMath` |
| `Approvals`, `MCApprovals` + `Approvals.cfg` | the approvals engine and the KYC queue |
| `Billing`, `MCBilling` + `Billing.cfg` | a business's subscription and the hourly clock over it |
| `WithdrawalsProofs`, `CheckoutProofs`, `OrderEscrowProofs`, `OffersProofs`, `BookingSaleProofs`, `StorePickupProofs` | theorems about each, for all constants; `OrderEscrowProofs` has `RefundShares`' too |
| `OfficeProofs` | theorems about `Approvals` and `Billing`, which share nothing but this module |
| `MoneyLemmas` | sums over finite sets, whole division, rounding, fee shares and fair shares: what all proofs about money rest on |

Definitions whose comment begins with `Slip:` are not part of the model: each is what a mapped definition would be
after a plausible mistake, and stands in for it to show that a property notices (`PROJECT.json`, `mutants`).

### `Withdrawals` and the code

`status` is `Withdrawal.status`; `balance`, `transit`, `clearing` are the three ledger accounts a withdrawal touches;
`journals` is the set of journal keys, which make a journal post once. `Request` is `withdrawals.request` (it holds the
money), `Claim` is `payouts.claim` (PENDING to PROCESSING under the row lock, every check made again, the money going
back if one fails), and `sender` remembers the process between its claim and its call: `Send`, `NotConnected`, `Unsent`
and `Die` are the ways it goes on. The claim is made by the request and by the poll alike. `ApplyResult` is
`payouts.apply_result`, whole, and is reached from the sender (`DelayedReport`), the poll (`Poll`), staff asking
(`StaffAsk`), an approval (`Approve`) and a report for something never sent (`StrayReport`). `Propose`, `Approve` and
`DropProposal` are the two-person resolution; an approval whose row did not end as proposed is rolled back whole, which
is no step.

The provider is external: `ProviderDecides` says what it did with a payout, `Answers` what it can truthfully report of
it. A provider that pays less than it was told reports the amount it paid, or none; one that lies about having paid in
full is outside the model. Time appears only as possibility: what the code allows after 2, 10 or 30 minutes may happen
at any moment. A person's top-up window, a rider's daily count and the step-up code are left out; they only refuse more.
`inGoodOrder` stands for holder, destination and verified name together. Each row keeps the name of the provider it went
to, so whether a provider answers status calls is a property of the withdrawal: `Reporting` holds those whose provider
does, `Simulated` those of the test provider. Hubtel's status call is not built; until it is, `Reporting` is empty in
production. (The proofs cover any `Reporting` and `Simulated`; the run has one withdrawal of each real kind.)

### `Checkout` and the code

One listing with tracked stock, and one coupon, for which all orders compete. `PlaceOrder` is the locked part of
`OrderCheckoutView._checkout`; the Hubtel call made after the commit is `CallSucceeds`, `CallFails` or `Die`.
`PaidCallback` and `FailedCallback` are `HubtelWebhookView.post`, including the amount check, the callback for a closed
session and the one for an order cancelled meanwhile. `GiveUp` is `_fail_order_checkout` with `release_order` behind
it. `SupportCancel` is Support's cancel, its guard weakened to "not yet collected", which the delivery decides.
Immediate orders are those paid from the wallet or under the simulated provider; `Promoted` are those priced while
promotions are on, a switch that may be turned while others wait for their payment. Not modelled: variants, the per-person
limit and validity window of a coupon, staff pausing or ending one, flash-sale stock, and the other kinds of session.

### `DeliveryJob`, `OrderEscrow` and the code

`job` is the `DeliveryAssignment` with its `PickupStop`s, each open, skipped, or collected by a rider. It is given out
by `AssignByManager` (`AssignDispatchView`), `AcceptOffer` and `ForceAssign`; the last is the one whose caller read the
waiting list before the lock was taken (`picked`). `Collect`, `Skip`, `Deliver`, `CantDeliver` are the rider's steps;
`RequestRedo`, `PayRedo`, `CancelRedo` the second trip's life. Each action is a whole handler, its tail calls included:
a last stop handled sets the order out for delivery or fails the job, a failure opens its case.

`OrderEscrow` adds the books: one balance per account of the order, `Post` moving them by a journal's lines.
`Refund` is `refund_order` in its three outcomes (nothing left, whole, part), `Release` is `release_verified`,
`SupportCancel` is `_cancel`, and the steps of `DeliveryJob` that move a second trip's fee are completed here. Because
all of them hold the order row's lock from their first read to their commit, each is one step.

Abstractions: one base and one fee for every vendor (their variety is `RefundShares`' subject); a rider's wallet and
reserve are one balance; arriving at a shop or door changes nothing and is left out; codes, waiting times and whether
one of AshantiHub's own riders is free are the environment's, so any rider may be given a job; a customer's complaint,
Support's and a verification that does not match all open a case the same way. Riders do not change employment, second
trips cost something, payments for a closed request (kept by the ledger as stray) do not arrive, and the older panel's
pickup and deliver are not modelled. The branch of a refund that takes delivery income back after release is written
down but cannot be reached for a door-to-door order, whose release implies an earned delivery.

### `Offers` and the code

`job` and `holder` are the `DeliveryAssignment`; `offer` the `Offer` rows, of which at most one of an order is live (a
constraint of the table); `plan` is what a process, the engine's pass (`run_engine`) or a manager's request, has read
and is about to do. Only `force_assign` and `accept_offer` take the order's lock. `make_offer` takes none, so it is
three steps: `OfferRead`, `OfferWithdraw` (which saves the row it read, whatever became of it) and `OfferCreate`;
`force_assign` reads its live offer unlocked too and is `ForceLock` and `ForceCommit`. `StartPass` is `expire_offers`
and the reading of the waiting list, `Consider` one order of the list. Nothing keeps two passes apart: `run_engine`
takes no lock, is due every ten seconds without an expiry (`ashantihub/settings.py:786`), and its worker takes two tasks
at a time (`infra/compose/docker-compose.yml:187`); `Engine` is the worker's slots. `Eligible` is `rank` without its
order: any rider nothing speaks against may be the first. What a rider's own state decides (shift, break, position,
papers, cash) is the set `able`, changed by `RiderChanges`. A withdrawn or accepted offer counts for nothing in the code
and becomes `NoOffer`, so that its number can be used again. Paid second trips and orders held until their vendor opens
are left to `DeliveryJob` and to `held`.

### `BookingSale` and the code

One `BookingSale` of each of the three kinds. `subject` is the status of the service request or stay, for tickets only
whether they were bought; `given` has the `BookingRefund` rows by their source, `books` the accounts the sale's journals
touch, `clock` how far time has come relative to the start and the release time. `Pay` is the payment's finalizer;
`SweepReads` and `SweepReleases` are `release_due`, whose list is read before the locks; `Accept` the customer's accept;
`CallReads` and `CallActs` are Support's verification, whose view reads the linked dispute before `record_verification`
locks. `Refund` is `sales.refund`: the cumulative fee share, the processing charge on fault, Pending before release and
Available afterwards; `SupportCancel`, `CustomerCancel` (with the policy's tiers), `RefundTicket`, `Resolve` and
`RefundNext` are its callers. `CancelEvent` freezes the event, `RefundNext` gives back one ticket in a transaction of
its own, `Crash` cuts that short, `FinishRefunds` is the hourly job that starts it again. A re-review of the dispute
that nothing crosses is `Reopen`; one that others cross is `ReopenReads` and `ReopenSaves`, since the view saves what
it read without a lock; the event's re-review is the same (`SendBackReads`, `SendBackSaves`).

### `StorePickup` and the code

`check` is the `FulfilmentCheck` row; its codes are numbered, because all that matters is whether two are the same.
`ReadCode` and `MakeCode` are `collection_code`, which looks, and makes one under the lock after looking again. `Collect`
and `WrongCode` are `mark_collected`; the count of wrong codes is kept though the request is refused. `ExpiryReads`
and `ExpireOne` are `refund_uncollected_pickups`, whose list is read first and tested again under each order's lock;
`SupportCancel` is `_cancel`; `CallMatches`, `CallDiffers`, `CallUnreachable` Support's call; `Raise`, `Resolve`,
`Reject` and the two steps of a re-review the disputes. `Given` is `refund_order` for an order of one business: a part,
or the whole that takes what is left, coupon and fee included. An order paid before the ledger recorded payments
(`~recorded`) has no code and no money to give back.

### `Approvals` and the code

One request each, of kinds described by sets (`TwoPeople`, `Money`, `WithAmount`, `Queued`); every kind has one target.
`SubmitRead` and `Submit` are `_submit`, which reads the target's state before its transaction; `SubmitDirect` a Super
Admin's own change. `BeginApprove` is `_approve` down to the kind's validation, under the request's row and the target's
advisory lock; `FinishApprove` its signature and, if that was the last, `Apply`; between them lies the time in which
another decision could come. `ApproveFails` is the refusal, crash or death that rolls it back. `QueueDecide` is
`approve_owner` or `reject_owner` from the KYC queue, closing what is pending in the inbox; `ReReviewRead` and
`ReReviewSave` the queue's re-review, saved without a lock. `Escalate` is `escalate_due` for one request: a level up
past its time or when its manager is gone, a new time at the last level or when only the co-signer is missing.
Permissions and roles are constants, people come and go (`Leave`, `Return`). Reminders and notices are left out.

### `Billing` and the code

One business, since the clock handles every subscription in a transaction of its own, and one tier, which has an ACTIVE
plan or not (`offered`: a plan being edited waits for its approval). `period` is `current_period_end`, `clock` the four
fields that decide anything of `CLOCK_FIELDS`; the stamp of the first notice is written and cleared with
`overdue_since`. Time is in units, and `Day7`, `Day13` and `Grace` say after how many from `overdue_since` days 7, 13
and 15 begin. `Subscribe` is choosing a plan without paying: `SubscribeSerializer.save`, which
`StartTrialSerializer.save` repeats. (The trial's guard, no subscription yet, is looked at before its transaction and
not again, so it too can replace one.) `BeginPayment` prices a session, `FinalizeSubscription` is the confirmed
payment: the period starts over and `clear_after_payment` stops the clock in the same transaction; the provider's
answer is external and may never come.

A run of the job is `tick`: it takes its time once (`now`), then in each of three phases `List`s the rows due (`_each`'s
unlocked query) and `Take`s each under its lock, where the condition is asked again (`StillDue`). `Skip` is a row someone
else holds, or a handler that raised and was rolled back; `Die` a worker that stops. Nothing resumes a run, and nothing
keeps the next from starting before it is over, when the queue was long or there is a second worker. The two settings
are read where the code reads them: SUBSCRIPTIONS_ENABLED at the start of a run and by each request, the pause's when
the run comes to its third phase; both by `Hidden` (`hidden_business_q`) and `State` (`subscription_state`). `told`,
`first` and `covered` are history. Prices, plans of other tiers, what notices say, e-mails and the account manager's
tasks are left out.

## 3. Runs

Bounds are small because the interesting cases are: a second withdrawal made possible by the first's return, a third
checkout competing for a unit two others gave back, a second rider, a second case, a second trip, a second page, a
second ticket, a second request on one target. `CHECK_DEADLOCK FALSE` wherever it is said: each of these systems comes
to rest when its withdrawals, orders, bookings or requests are over. What is proved for every value of the constants is
not checked a second time by a run, except where it shows something the proof does not: a property that is both is
named in section 4.

| Run | Instance | What it shows |
|---|---|---|
| `withdrawals` | two withdrawals of one holder with 2, amounts 2 and 1, daily limit 3; one with a provider that answers, one with a provider that cannot be asked; fairness | the books, transit included (`BooksBalance`), the one sending (`SentAtMostOnce`), money that left stays left (`PaidNeverReturned`), the engine implements `PayoutPromise` (`KeepsPromise`), held money is sent or returned and a taken payout settled or put before a person (`SettledInTheEnd`) |
| `checkout` | four orders (quantities 1, 1, 2, 1) for three units, one paid at once, three with the coupon of two uses and a budget of 4, one priced without promotions; fairness | no unit lost (`StockNeverLost`), a paid order keeps its goods (`PaidKeepsItsGoods`), a reported charge is answered (`ChargeIsAnswered`), the coupon keeps its limits (`CouponWithinLimits`), what nobody paid comes back (`UnpaidComesBack`) |
| `refund_shares` | three vendors, every base up to 4 and every fee within it, every sequence of parts | shares make up the amount and are within a pesewa of the exact part (`SharesAreFair`), the fee follows the base (`FeeFollowsBase`) |
| `escrow_two_shops` | two shops of 3 (fee 1), the delivery of 2 paid by the first shop, coupon 2, charge 1, two cases, one second trip, both kinds of rider | books balance and no account of the order is overdrawn (`HeldIsEnough`), each vendor and the rider who delivered have what is theirs (`VendorPaidRight`, `DelivererIsPaid`), a rider is paid only for his own trip (`PaidForOwnTrip`) |
| `escrow_second_trip` | one shop of 3 (fee 2), delivery 2, coupon 1, two cases, two second trips, assignments from an old reading | the second trip's fee is held exactly while it is due (`RedoFeeHeld`), the first rider is paid (`FirstRiderIsPaid`), a whole refund is whole and nothing stays held (`WholeIsWhole`) |
| `offers` | one order, a rider of the house and one of a third party, two passes at once, five rows of offers, three incidents of any kind anywhere (an overlap of passes, a manager's offer, assignment or hold, a failed trip, a cancel, the switch, a rider who comes or goes); fairness | a refusal that crosses nobody's asking stands (`RefusalsStand`), a job taken is kept (`KeepsTheJob`), an order comes to a rider if one is left to ask (`FindsARider`) |
| `booking_sale` | a service, a stay or two tickets at 2 each; fee 1, payment charge 1; wallet payment and a crossed re-review for the first two; fairness | nothing paid out under an open dispute (`NoReleaseUnderDispute`), the fee kept is that of what was kept (`FeeIsItsShare`), the refunds' rows make up the totals (`RefundsAddUp`), not both money and booking (`CancelledIsNotReceived`), the clock settles what is due (`DueIsSettled`), a cancelled event pays all back (`CancelledEventPaysBack`) |
| `store_pickup` | an order of 4, one of it the coupon's, fee 1, two pages, two disputes, two wrong codes, an expiry that fails once; fairness | not both goods and money (`NoGoodsAfterMoney`), one code (`ShownIsExpected`), the goods in one place (`GoodsInOnePlace`), a cancel is a whole refund (`CancelledIsRefunded`), what is not collected is refunded (`NotCollectedIsRefunded`) |
| `approvals` | five staff (Super Admin, General Manager, Operations, scout, co-signer) and two registrations from inbox and queue, or two changes of a money setting, or a Super Admin's request that takes two; fairness | nobody decides their own (`SomeoneElseDecides`), a large amount has two (`LargeHasTwo`), decisions on one target come in turn (`DecisionsInTurn`), an unanswered request reaches the Super Admin (`ReachesSuperAdmin`) |
| `billing` | one business, two runs of the job at once, a period of 2, days 7, 13 and 15 after 1, 2 and 3, one change of plan or settings, time up to 4; fairness | a paid period is shown as paid (`PaidIsShown`), notices in turn and nobody hidden before the grace (`FairWarning`), the unpaid business is hidden in the end (`UnpaidIsHidden`) |

Why the bounds are enough. In `Withdrawals` two rows never meet but through balance, limits and transit, and two rows
with different amounts make each of those decide; `MaxBalance` and `MaxDebt` bound the pesewas other business adds or
takes, one either way being enough to let a request pass or fail. In `Checkout` the orders include one that wants two
units, so giving back and taking are of different sizes; the discounts let the coupon run out by uses or by budget; the
fourth order is the one whose failed payment leaves it pending. In `OrderEscrow` a base of 3 with a fee of 1 makes
shares and fee shares round both ways; `Cases` = 2 is what it takes for a decided case to wait while another is given.
Larger amounts only repeat these roundings, and `refund_shares` covers them more widely. In `Offers` orders meet only
through a rider's job limit, so one order suffices for what the properties say of an order (an exception that ends a
pass before its other orders is not seen); five rows are as many as are ever in use at once, so that no offer waits for
a row. `MaxIncidents` = 3 bounds how often anything interferes, all kinds together: three are two passes and a manager
in each other's way, or an overlap, a trip that fails after it and one more. The lowest free slot of the worker runs the
next pass, which of them does being all the same. In `BookingSale` a base of 4 with a fee of 1 rounds up and down by
halves; `FromWallet` and `SlowReview` leave the wallet and the crossed re-review out for tickets, where they take the
same steps on the same rows and only multiply the states. In `StorePickup` two pages are what it takes to make the code
twice, two disputes to have one refund while the other is open, and `MaxFails` bounds the failures of a job that is
tried every hour. In `Approvals` the constraint `OneKind` keeps all kinds but one as they were at first: kinds share
nothing but the people, so their product shows nothing new; `Desk` and `Leavers` say who works at the queue and who may
leave. In `Billing` the days keep their order and nothing of their size: each interval is one unit, as are a late
discovery (`LateDiscovery`) and the longest run (`Slow`), so a run can be slow enough to cross into the next day.
`MaxTime` = 4 lets a lapse found on time or a unit late come to its pause and be paid after it, and a lapse after a paid
period of 2 come to its last reminder; the pause after that is an earlier lapse's over again, and a longer time makes
the fairness too slow to check. Two runs are one that read and one that acts meanwhile; `MaxSwitches` = 1 turns one
switch at any moment.

### Fairness

`withdrawals` assumes weak fairness of `Claim`, `Poll` and `ProviderDecides`: the poll is a Celery beat task
(every five minutes, `ashantihub/settings.py`) that tries every held withdrawal and asks about every sent one, skipping
none for another's failure, and a payment provider ends what it took. No request, no staff member and no process that
died is obliged to act. `checkout` assumes weak fairness of `Expire`, a beat task every ten minutes over sessions
older than two hours. That task takes 200 sessions at a time, oldest first; the model assumes that rollbacks do not
keep failing, or the same 200 would come first for ever.

`offers` assumes weak fairness of the pass, which runs every ten seconds, of a request once begun, and of the time an
offer has; no rider and no manager need answer. Passes overlap no more often than `MaxIncidents` allows: that they do
not do so for ever is assumed, since passes that kept withdrawing each other's offers would keep an order from its
rider. `booking_sale` assumes weak fairness of the hourly `release_due` and of `finish_cancelled_event_refunds`; the
refunds themselves (`RefundNext`) get strong fairness, because the process may die between any two of them and each run
of the job begins again: not every one of these runs dies before its first refund. `store_pickup` assumes weak fairness
of the hourly `refund_uncollected_pickups`. `approvals` assumes that a transaction that holds a row ends, that time
passes, and strong fairness of `Escalate`: `escalate_due` runs every five minutes and skips a row someone has locked
(`skip_locked`), which disables it again and again but not for ever. `billing` assumes that time passes, that the job is
started again and again (`ashantihub/settings.py`, hourly at five past) and that each run ends, by itself or by
`CELERY_TASK_TIME_LIMIT`, which kills it after 660 seconds and is also why a run is never slower than `Slow`. Strong
fairness of each phase's `List` and of `Take` says that not every run, for ever, stops before the same phase, finds the
row held or raises; the owner need never pay.

### Disagreements between the code and what it says

| Run | Property | |
|---|---|---|
| `checkout_returned_twice` | `ReturnedOnce` | Support's cancel of an unpaid order and the closing of its session both return the stock |
| `escrow_goods_and_money` | `GoodsOrMoney` | a whole refund cancels the order and leaves the rider's job going |

`PROJECT.json` quotes the text each of them contradicts.

### Seen and not counted

Behaviour met while modelling that no run reports on: the code's own text allows it, or it needs a step the models
leave out, or it contradicts a text in a way that is plain from reading.

* *Withdrawals.* With a provider that reports, a process that dies after its claim and before its call leaves a
  withdrawal the provider has never heard of, which the poll asks about for ever unless the provider answers "failed".
  After two people failed a stuck withdrawal nothing asks the provider again (the code's text says so). A withdrawal
  that once had an amount case is left out of the poll after the case is dismissed (`wallets/payouts.py:306`). An
  amount case opened while a resolution is being approved is rolled back with the refused approval.
* *Checkout.* A coupon's last use ends it by its status; the use an unpaid checkout gives back cannot be used
  (`marketing/checkout.py:296`). A paid order's cancel keeps its coupon use (`orders/support.py:309`). A free-delivery
  order whose items were all refunded shop by shop, and that is delivered all the same, has nothing to release, so its
  rider is never credited; the code's text names this case. The rollback of an unpaid order locks listings and then the
  order (`payments/services.py:95`), Support's cancel the order and then its listings: when both meet, Postgres ends one
  of them, which then changes nothing.
* *Delivery.* Support's cancel before a paid second trip reverses a promo the first rider has earned
  (`orders/support.py:316`). A job that changes hands between two shops, and whose second shop the manager then skips,
  is delivered by a rider who collected nothing himself: `pickup_made` does not count it, so a whole refund before the
  release returns the delivery fee although the goods arrived. A refund a decided case asked for can become more than
  the order still has while it waits for approval; it then cannot be given, the request waits until a person withdraws
  it, and meanwhile the order cannot be released.
* *Rider's pay.* What was taken for the delivery is counted as the sum of the credits of release, settlement and promo
  (`ledger/riders.py:152`); the debit that returns a promo to its funder is not subtracted. An order whose promo was
  charged for one rider's trip, then returned, and whose later trip is made by a third-party rider, pays that rider a
  promo already given back. It takes riders of both kinds and at least four cases, more than the runs have; the proof of
  `HeldIsEnough` met it, and the property names the exception (`PaidTwice`).
* *Offers.* A forced assignment uses a waiting list read before the order was refunded (`delivery/dispatching.py:316`).
  The job limit is counted without a lock, so a rider can end with more jobs than `max_active_jobs`
  (`delivery/dispatching.py:124`, `:284`). When two passes overlap, or a manager makes an offer during one, a refusal
  that comes in between is overwritten as withdrawn (`:264`), or the rider chosen before it is asked all the same
  (`:354`), against the module's own text (`:7`, "not already declined or timed out for this order"); `release_deferred`
  avoids a second pass because it "would race" the first (`:374`), which the next beat may be. `RefusalsStand` says that
  no other refusal is lost.
* *Booking sales.* A cancelled event's tickets can still be paid out by Support's call or, when cancelled after it was
  listed, by `release_due`, against "never paid out" (`ledger/sales.py:226`). The docstring of `release` says "Never by a
  timer" (`:367`), which `release_due` is. The owner's edit of an event saves what it read before the lock, and the
  event's unlocked re-review can save a cancelled event as pending (`events/views.py:400`, `:763`). A booking has no
  failure handler, so an unpaid stay holds its nights (`payments/services.py:413`), and a payment that arrives for one
  already cancelled or already paid is booked with no sale.
* *Disputes.* The re-review of a dispute reads it and saves it without a lock (`disputes/views.py:225`). Two of them read
  it as rejected, one reopens it, it is resolved with a refund, and the other opens the resolved dispute again, which the
  view's text (`:213`) does not offer. `BookingSale` has these steps (`ReopenReads`, `ReopenSaves`); its properties hold
  in spite of them, because what was refunded is counted by the sale and not by the dispute.
* *Approvals.* A sole Super Admin's own request that takes two people and is past the pool can be decided by nobody
  (`approvals/services.py:583`). The KYC re-review is unlocked: it can send back to pending an owner verified meanwhile
  (`accounts/views.py:586`).
* *Billing.* Who pays before the period is over loses the rest of it: the new period starts at the payment
  (`payments/services.py:319`). A payment begun while its tier had a plan, and confirmed when it has none and the owner
  no subscription, is booked and starts nothing (`:300`). Choosing a plan without a payment moves the period and leaves
  a running clock running, as its text says (`billing/models.py:137`), so the owner can be hidden within the period
  chosen. An owner who became overdue while the pause was off is hidden by the first run after it is switched on, though
  no notice had spoken of hiding; `FairWarning` promises the notices and the time, not their wording.

## 4. Proofs

Every theorem is of the form `Spec => []P` or `Spec => [][A]_vars`, for every value of the constants the named
assumption allows. Where "run" is marked, the property is also checked on the run's instance.

| Module (assumption) | Theorem | Property | run |
|---|---|---|---|
| `WithdrawalsProofs` (`WithdrawalAssumption`) | `TypeCorrect`, `JournalsAgree` | `TypeOK`, `JournalsMatchStatus` | |
| | `BooksAlwaysBalance`, `SentOnce`, `PaidStaysPaid` | `BooksBalance`, `SentAtMostOnce`, `PaidNeverReturned` | x |
| | `BookedTruly`, `EndedForGood`, `DisputedIsFrozen` | `BookedOnlyIfPaid`, `FinalIsFinal`, `FrozenWhileDisputed` | |
| | `PromiseKept` | `KeepsPromise`, the refinement | x |
| `CheckoutProofs` (`CheckoutAssumption`) | `StockIsNeverLost`, `CouponIsWithinLimits` | `StockNeverLost`, `CouponWithinLimits` | x |
| | `GoodsAreKept`, `ChargesAreAnswered` | `PaidKeepsItsGoods`, `ChargeIsAnswered` | x |
| | `TypesHold`, `PaidMeansCharged`, `CancelledStays` | `TypeOK` (the shelf never goes below nothing), `PaidIsCharged`, `CancelledForGood` | |
| `OrderEscrowProofs` (`JobAssumption`, `EscrowAssumption`) | `HeldMoneyIsEnough`, `VendorsArePaidRight`, `WholeRefundIsWhole` | `HeldIsEnough`, `VendorPaidRight`, `WholeIsWhole` | x |
| | `DelivererPaid`, `FirstRiderPaid`, `PayIsForOwnTrip`, `SecondTripFeeIsHeld` | `DelivererIsPaid`, `FirstRiderIsPaid`, `PaidForOwnTrip`, `RedoFeeHeld` | x |
| | `TypeIsKept` | `TypeOK` | |
| (`SharesAssumption`) | `RefundsAreSharedFairly`, `FeeAlwaysFollows` | `SharesAreFair`, `FeeFollowsBase` | x |
| `MoneyLemmas` | `AllocateIsFair` | what `allocate` returns, for any amount, rooms and finite number of vendors | |
| `OffersProofs` (`OffersAssumption`) | `JobsAreKept`, `RefusalsAreFinal` | `KeepsTheJob`, `RefusalsStand` | x |
| | `TypesHold` | `TypeOK` | |
| `BookingSaleProofs` (`KindAssumption`, `PriceAssumption`, `SourceAssumption`, `FeeAssumption`) | `RefundsAreAllThere`, `FeeIsFair`, `NoMoneyAndGoods`, `DisputeHoldsTheMoney` | `RefundsAddUp`, `FeeIsItsShare`, `CancelledIsNotReceived`, `NoReleaseUnderDispute` | x |
| | `TypesHold`, `BooksAgree`, `OutcomesAreTrue`, `AllTicketsAllBack` | `TypeOK`, `BooksBalance`, `MatchesIsReleased` and `NegativeCallHasADispute`, `TicketsGiveItAllBack` | |
| `StorePickupProofs` (`PickupAssumption`) | `OneCode`, `OnePlace`, `CancelGivesAllBack`, `NoGoodsAfterRefund` | `ShownIsExpected`, `GoodsInOnePlace`, `CancelledIsRefunded`, `NoGoodsAfterMoney` | x |
| | `TypesHold`, `BooksAgree`, `PaidRightly` | `TypeOK`, `BooksBalance`, `PaidForGoodsTaken` | |
| `OfficeProofs` (`ApprovalsAssumption`) | `NobodyDecidesTheirOwn`, `LargeAmountsHaveTwo`, `OneDecisionAtATime` | `SomeoneElseDecides`, `LargeHasTwo`, `DecisionsInTurn` | x |
| | `TypesHold`, `EffectsMatch` | `TypeOK`, `AppliedOnce` | |
| (`BillingAssumption`) | `PaidPeriodsAreShown`, `NobodyIsHiddenUnwarned` | `PaidIsShown`, `FairWarning` | x |
| | `BillingTypesHold` | `BillingTypeOK` | |

The assumptions are what the code or its tables guarantee of amounts and sets (`JobAssumption`, for one, asks for
finitely many riders, so that an order's accounts can be added up, and for one vendor at least).

**`MoneyLemmas`.** Every claim about books is a claim about sums over sets of any finite size. The library's induction
over finite sets cannot be used here (it takes an operator), so these lemmas are proved by a least counterexample: of the
subsets of a finite set for which a claim fails one is least, by the well-foundedness of the subset order, and taking
one element out of it gives the contradiction. From the sum's own definition, a fold that takes its elements by `CHOOSE`,
it is first shown that there is such a function and that any order of taking gives the same; then that sums add,
scale, split over disjoint sets and change by what one entry changes. `AllocateIsFair` is the split of a refund:
the floor shares fall short by fewer pesewas than there are remainders above zero, and a line of keys in which the first
few get one more hands out just those; both are counted by the same induction.

**`WithdrawalsProofs`.** `IInv` joins `TypeOK`, `JournalsMatchStatus`, `BookedOnlyIfPaid` and two strengthenings.
`SendingInv` says where the one payout request is: a row not yet claimed has no sender and nothing sent, a sender that
still holds a row has not sent it, and the provider knows nothing of what was not sent. `SentAtMostOnce` by itself is
not inductive, since a second claim would be free to send; it is the claim's condition, status still PENDING, that
`SendingInv` ties to "not sent". `ReturnInv` says why money went back: the provider refused it, or it was never sent and
nobody is about to send it, or two people said so with no provider to ask. `PaidNeverReturned` follows because none of
these is compatible with a provider that paid. The steps are first reduced to their effects (`PostEffect`, `CloseEnds`,
`SettleEnds`, `AnswerEffect`): an answer either moves nothing or ends one open, undisputed row as the provider did;
then one lemma per actor goes through the actions. The action properties and the refinement use the same effects once
more (`StepsOfRows`). `BooksBalance` is inductive with
`BookInv`: only finitely many withdrawals were ever asked for (`Held`), and a step adds one to that set, takes one out, or
moves nothing; `SumMoved` and its kin say what that does to the sums.

**`CheckoutProofs`.** `RowsInv` says how order, session and payment link agree (only an open session waits for a
payment, the link is made once); `KeptInv` that an order that is paid, or that a callback may still pay, has its goods
and its coupon use, which is what makes `PaidKeepsItsGoods` inductive: the goods must be safe before the payment, not
from it on. `UsesInv` counts the redemptions that were not given back. For `StockNeverLost`, `RolledInv` says that a
session marked rolled back is closed, so a roll back is of goods not yet back. The shelf's sum is over the orders that
stand (`Standing`), and each step moves one order in or out of that set together with its quantity. `BudgetInv` bounds
what the uses in force cost: a use given back lowers the sum, and one taken is checked against what is left. A coupon
order paid late has kept its use (`KeptInv`), which is why it cannot break the budget.

**`OrderEscrowProofs`.** No property of the order's money is inductive by itself: what a refund may take depends on
what the delivery took, and that on whether the trip was made, and by whom. `Sound` keeps them together. `Books` has
the four parts of the money, which most steps move one at a time: `BackSound` (what was given back is within the
order; base and delivery given back are the customer's part and the coupon's; the fee given back is the share of the
base, to the pesewa; the delivery fee still held is covered by what the customer has not got back), `DeliverySound`
(payable, delivery income and riders), `ShopsSound` (pending, available and fee income of every vendor, before and
after the release) and `RedoFeeHeld`. `StageInv` says which of them a state has settled: nothing is settled on a paid,
unreleased order unless its items are all refunded (`Untouched`), a cancelled order and one refunded whole have given
back everything but the fee taken (`Finished`), a released one was delivered. Each handler is then reduced to what it
does to each account (`RefundLinesAre`, `ReleaseLinesAre`, `PaymentLinesAre` and the transfers), each effect is shown
to keep each part, and one lemma per action puts them together. That every journal balances (`Balanced`) is separate:
payment, refund, release and transfers each sum to zero over all accounts. The refund's sum rests on `GiveSound`: base
and delivery refunded are what the customer and the coupon are given, and the coupon is never short of a delivery fee
that is kept (`NoShortfall`), because `BackSound` leaves the customer's part no smaller than the fee held, until the
order is refunded whole. With `AllocateIsFair` a vendor's share never exceeds its room, which is what keeps `Pending`
from going below nothing. The state space of the two runs satisfies `Sound` as well. For `RefundShares`,
`SnapshotsAgree` says that a snapshot's refunded fee is the share of its refunded base; the shares are fair by
`AllocateIsFair`, and `ShareStep`, a fee no larger than its base gives back no more than the base does, makes
`FeeFollowsBase`.

**`OffersProofs`.** Type and plan: a process past its choice has an order and a rider. `KeepsTheJob` then follows from
the guards of the steps that move `holder`; that a live offer alone is no reason to move it is `Takable`. For
`RefusalsStand`, `SaidStands` says that every refusal which crossed nobody is still on the row of an offer that no
process has read as live and will write, and that no pass has chosen that rider for that order. A process that looks for
a live offer finds none in such a row, one that inserts an offer takes no such row, and a pass that ranks later leaves
the rider out; so neither the unlocked save of a withdrawal nor a choice made earlier reaches it, whatever the number of
passes and managers. The two ways a refusal can be lost are exactly what `Crossed` names.

**`BookingSaleProofs`.** `FeeInv` keeps the fee refunded equal to the share of the base refunded, cumulatively, so
that after the release the income is the fee less that share and `FeeIsItsShare` is the half-unit bound on one
rounding and not on a sum of them. `TicketInv` says that every ticket marked refunded gave back its price unless
nothing was left; `SubjectInv` and `UnpaidInv` say which statuses go together. `RefundsAddUp` needs `SlotInv`: a
source that is about to give has an empty row (a ticket with a row is marked refunded, Support's cancel is written
only with the last of the money), so each refund adds its own row to the sums and overwrites none. `Refund` and
`Released` are treated once (`RefundKeeps`, `ReleaseKeeps`) for all their callers.

**`StorePickupProofs`.** `BackInv` says that refunds are parts until one is the whole, `SourceInv` where the money came
from, `EndInv` what each end presupposes: a release was collected, a whole refund was cancelled or collected, a
cancelled order was refunded whole. `NoGoodsAfterMoney` and `PaidForGoodsTaken` are about single steps and use `EndInv`.

**`OfficeProofs`, approvals.** `SignedInv` says who may be in a slot and that nothing is signed before the request is
there; `LockInv` that at most one decision on a target is between its check and its commit, from which `overtaken =
{}`: the invariant says what the advisory lock is for. `SettledInv` separates what the queue closed from what the
inbox applied.

**`OfficeProofs`, billing.** `PaidInv`: within a paid period the clock does not run and the period is not over, so a
run that asks again under the lock, with a time that is never ahead of the clock (`RunInv`), finds nothing due; a list
read before the payment does no harm. `ToldInv` ties `overdue_since` to the first notice: sent, and not later than
what `clock_start` may count back and the run may have taken. `StampInv` says that what was sent left its stamp.
`FairWarning` follows, since the pause asks for `overdue_since` and the grace, and a reminder for the stamps of the
later ones.

Every invariant and every action property that a passing run checks is also a theorem. Model-checked only: all liveness
(`SettledInTheEnd`, `UnpaidComesBack`, `FindsARider`, `DueIsSettled`, `CancelledEventPaysBack`,
`NotCollectedIsRefunded`, `ReachesSuperAdmin`, `UnpaidIsHidden`). Liveness under fairness and ENABLED are
out of the prover's reach, and so is induction over data (its theorems take an operator as a parameter, which no installed
backend instantiates); where a sum needed one, the least counterexample stands in for it. No module of this project has a
RECURSIVE operator. What the proofs do not widen is the models' own abstraction: one base and one fee for every vendor in
`OrderEscrow`, one listing and one coupon in `Checkout`, one sale, order or business elsewhere.

## 5. Plan

In order of what the system would lose most by:

1. **`EscrowPromise`.** The order's escrow stated abstractly (held, then divided between vendors, customer and rider,
   once), and `OrderEscrow` shown to implement it; its invariant is proved (`Sound`), the mapping is what is missing.
2. **A booking's making.** The request's negotiation, the nights' availability, a second checkout for one booking and
   the payment that comes too late, before the `BookingSale` that starts with its payment.
3. **`OrderLocks`.** The transactions as sequences of row locks, from `orders/locks.py` and the paths it does not
   name; no cycle among those that follow it, and whether the checkout rollback (listings, then order) and Support's
   cancel (order, then listings) can meet.
4. **Flash sales and waivers.** The other reservations a checkout takes and gives back.
5. **`FeeCap`.** Band fees and the lifetime cap over orders and bookings; `RiderDay`, the daily commission posting.
6. **One-time codes and step-up**, and the commission a subscription's payments accrue.

## 6. Not modelled

The models translate the control of about thirty-five server files and cover a small part of the repository's lines. The
server has a hundred thousand of them; most are serializers, list and detail views, admin and profile forms, data
models without behaviour, seed commands, notices, reports, search and display. They have state, but each writes one row
for one person and no other part decides on what happens between two of their steps; a model of them would restate
their assignments. The web and mobile clients show what the server decided. What is left and does have interleavings
worth a model is listed in section 5: the making of a booking, flash sales and waivers, the fee cap, commission
and the one-time codes. The internals of Hubtel and of the payout provider are theirs, and appear here as what they may
answer.
