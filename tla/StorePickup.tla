----------------------------- MODULE StorePickup -----------------------------
(***************************************************************************)
(* One paid store-pickup order of one business (ledger.verification): the  *)
(* collection code its customer reads to the desk, the hand-over, the      *)
(* refund of an order nobody collects, Support's cancel and call, and the  *)
(* disputes about it.                                                      *)
(*                                                                         *)
(* The desk, Support, a refund and the expiry of one order lock the order  *)
(* row first, and a dispute's INSERT waits for that lock too: each is one  *)
(* action.  What is read before the lock, the code shown to the customer   *)
(* and the list of orders to expire, is an action of its own.              *)
(***************************************************************************)
EXTENDS RefundMath

CONSTANTS
  Screens,      \* the customer's open pages that show the code
  Limit,        \* CODE_ATTEMPT_LIMIT
  Disputes,     \* the disputes that may be opened about the order
  Base,         \* what the items cost (OrderFeeSnapshot.base_pesewas)
  Discount,     \* the coupon's part of it, borne by AshantiHub
  Charged,      \* the platform fee fixed at payment
  MaxFails      \* bound: runs of the expiry that fail on this order

ASSUME PickupAssumption ==
  /\ Limit \in Nat \ {0} /\ MaxFails \in Nat
  /\ Base \in Nat \ {0} /\ Discount \in 0..(Base - 1) /\ Charged \in 0..Base

Paid == Base - Discount

VARIABLES
  order,     \* the Order row; recorded: the ledger has its payment journal
  check,     \* the FulfilmentCheck row; its codes are numbered, 0 is none
  shown,     \* the code each page shows
  asking,    \* the pages that found no code and go on to make one
  dispute,   \* the status of each Dispute
  reopening, \* the disputes a re-review has read as rejected
  back,      \* the OrderRefund rows, summed; whole: one of them emptied the order; of: the
             \* disputes among their sources
  released,  \* the release journal is written
  books,     \* the accounts the order's journals touch
  shelf,     \* how often the order's stock was put back
  job        \* the hourly expiry: the window has passed, the order is on its list, its failures

money == <<back, released, books>>
pages == <<shown, asking>>
disputes == <<dispute, reopening>>
vars == <<order, check, pages, disputes, money, shelf, job>>

NoCode == 0

Init ==
  /\ order \in [status : {"paid"}, recorded : BOOLEAN]
  \* the payment makes the code; an order paid before codes existed has none
  /\ \E code \in IF order.recorded THEN {NoCode, 1} ELSE {NoCode} :
       check = [code |-> code, wrong |-> 0, collected |-> FALSE, outcome |-> "none"]
  /\ shown = [s \in Screens |-> NoCode] /\ asking = {}
  /\ dispute = [d \in Disputes |-> "none"] /\ reopening = {}
  /\ back = [base |-> 0, fee |-> 0, customer |-> 0, whole |-> FALSE, of |-> {}]
  /\ released = FALSE
  /\ books = IF order.recorded
             THEN [pending |-> Base, available |-> 0, income |-> 0, wallet |-> 0,
                   clearing |-> Paid, promo |-> Discount]
             ELSE [pending |-> 0, available |-> 0, income |-> 0, wallet |-> 0,
                   clearing |-> 0, promo |-> 0]
  /\ shelf = 0
  /\ job = [overdue |-> FALSE, listed |-> FALSE, fails |-> 0]

InDispute == \E d \in Disputes : dispute[d] = "open"
Waiting == order.status = "paid" /\ ~check.collected

-----------------------------------------------------------------------------
(* The collection code.                                                    *)

\* The order as its customer reads it: with its code, or to be given one.
ReadCode(s) ==
  /\ Waiting
  /\ IF check.code # NoCode
     THEN shown' = [shown EXCEPT ![s] = check.code] /\ UNCHANGED asking
     ELSE order.recorded /\ asking' = asking \cup {s} /\ UNCHANGED shown
  /\ UNCHANGED <<order, check, disputes, money, shelf, job>>

NewCode(c) == [c EXCEPT !.code = @ + 1]

\* Slip: the code is not looked for again under the lock.
CodeAgain(c) == NewCode(c)
\* The order's code, made when it has none.
CodeMade(c) == IF c.code = NoCode THEN NewCode(c) ELSE c

\* Under the order's lock: none for a collected order, else the one code it has from now on.
MakeCode(s) ==
  /\ s \in asking /\ asking' = asking \ {s}
  /\ IF check.collected THEN UNCHANGED <<check, shown>>
     ELSE /\ check' = CodeMade(check)
          /\ shown' = [shown EXCEPT ![s] = CodeMade(check).code]
  /\ UNCHANGED <<order, disputes, money, shelf, job>>

-----------------------------------------------------------------------------
(* The desk.                                                               *)

AtDesk == Waiting /\ (order.recorded => check.wrong < Limit)

\* A wrong code is counted, though the request is refused.
WrongCode ==
  /\ AtDesk /\ order.recorded
  /\ check' = [CodeMade(check) EXCEPT !.wrong = @ + 1]
  /\ UNCHANGED <<order, pages, disputes, money, shelf, job>>

\* Slip: the desk looks at the collection only, not at the order's status.
CollectCancelled ==
  /\ ~check.collected /\ (order.recorded => check.wrong < Limit)
  /\ order.recorded => \E s \in Screens : shown[s] # NoCode /\ shown[s] = check.code
  /\ check' = [check EXCEPT !.collected = TRUE]
  /\ UNCHANGED <<order, pages, disputes, money, shelf, job>>

\* The customer reads the code from one of the pages and takes the goods; an order the
\* ledger never recorded has no code.
Collect ==
  /\ AtDesk
  /\ order.recorded => \E s \in Screens : shown[s] # NoCode /\ shown[s] = check.code
  /\ ~back.whole
  /\ check' = [check EXCEPT !.collected = TRUE]
  /\ UNCHANGED <<order, pages, disputes, money, shelf, job>>

-----------------------------------------------------------------------------
(* Refunds.                                                                *)

PaidLeft == Paid - back.customer
Room == Base - back.base

\* Out of Pending, or after the release out of Available with the fee on it returned.
RefundPosted(base, fee, customer, subsidy) ==
  books' = IF released
           THEN [books EXCEPT !.available = @ - (base - fee), !.income = @ - fee,
                              !.wallet = @ + customer, !.promo = @ - subsidy]
           ELSE [books EXCEPT !.pending = @ - base, !.wallet = @ + customer, !.promo = @ - subsidy]

\* Slip: the refund that empties the order is written as one more part of it.
WholeAsPart(customer) == FALSE
\* The refund of all that is left is the whole one, and takes the coupon's part with it.
IsWhole(customer) == customer = PaidLeft

\* A refund of the order's money, with everything it changes but the order's own end.
Given(customer, source) ==
  LET whole == IsWhole(customer)
      base == IF whole THEN Room ELSE customer
      subsidy == base - customer
      fee == FeeShare(Charged, Base, back.base + base) - back.fee
  IN  /\ customer \in 1..PaidLeft
      /\ RefundPosted(base, fee, customer, subsidy)
      /\ back' = [base |-> back.base + base, fee |-> back.fee + fee,
                  customer |-> back.customer + customer, whole |-> whole,
                  of |-> back.of \cup source]
      /\ UNCHANGED released

\* What an unrecorded order, or one with nothing left, gets from a whole refund: nothing.
AllGiven ==
  IF order.recorded /\ PaidLeft > 0 THEN Given(PaidLeft, {}) ELSE UNCHANGED money

Cancelled ==
  /\ order' = [order EXCEPT !.status = "cancelled"]
  /\ shelf' = shelf + 1

\* A whole refund of an order not handed over cancels it and restocks it.
CancelIfNotHandedOver == IF Waiting THEN Cancelled ELSE UNCHANGED <<order, shelf>>

\* Support cancels at the customer's request, while the goods are at the desk.
SupportCancel ==
  /\ Waiting
  /\ Cancelled /\ AllGiven
  /\ UNCHANGED <<check, pages, disputes, job>>

-----------------------------------------------------------------------------
(* The hourly expiry.                                                      *)

PickupWindowPasses ==
  /\ ~job.overdue
  /\ job' = [job EXCEPT !.overdue = TRUE]
  /\ UNCHANGED <<order, check, pages, disputes, money, shelf>>

\* The list of orders to expire; the disputes are looked at later.
ExpiryReads ==
  /\ ~job.listed /\ job.overdue /\ Waiting /\ order.recorded
  /\ job' = [job EXCEPT !.listed = TRUE]
  /\ UNCHANGED <<order, check, pages, disputes, money, shelf>>

\* Slip: the order was on the list, its collection is not looked at again.
ToExpireAsListed == order.status = "paid" /\ order.recorded /\ ~InDispute
\* Slip: a dispute, settled or not, keeps the order from expiring.
ToExpireUndisputed == Waiting /\ order.recorded /\ \A d \in Disputes : dispute[d] = "none"
\* What the list said may be true no longer.
ToExpire == Waiting /\ order.recorded /\ ~InDispute

ExpireOne ==
  /\ job.listed
  /\ job' = [job EXCEPT !.listed = FALSE]
  /\ IF ToExpire THEN Cancelled /\ AllGiven ELSE UNCHANGED <<order, money, shelf>>
  /\ UNCHANGED <<check, pages, disputes>>

\* The ledger refuses, or the worker dies: everything of this order is rolled back.
ExpireFails ==
  /\ job.listed /\ job.fails < MaxFails
  /\ job' = [job EXCEPT !.listed = FALSE, !.fails = @ + 1]
  /\ UNCHANGED <<order, check, pages, disputes, money, shelf>>

-----------------------------------------------------------------------------
(* Support's call and the disputes.                                        *)

Settleable == order.status = "paid" /\ ~released /\ check.collected

ReleasePosted ==
  books' = [books EXCEPT !.pending = @ - Room, !.income = @ + (Charged - back.fee),
                         !.available = @ + Room - (Charged - back.fee)]

\* What refunds left goes to the business; nothing is posted when they left nothing.
CallMatches ==
  /\ Settleable /\ ~InDispute
  /\ check' = [check EXCEPT !.outcome = "matches"]
  /\ released' = (order.recorded /\ Room > 0)
  /\ IF released' THEN ReleasePosted ELSE UNCHANGED books
  /\ UNCHANGED <<order, pages, disputes, back, shelf, job>>

\* A negative call opens a dispute unless one is open.
CallDiffers ==
  /\ Settleable
  /\ check' = [check EXCEPT !.outcome = "does_not_match"]
  /\ IF InDispute THEN UNCHANGED dispute
     ELSE \E d \in Disputes : dispute[d] = "none" /\ dispute' = [dispute EXCEPT ![d] = "open"]
  /\ UNCHANGED <<order, pages, reopening, money, shelf, job>>

CallUnreachable ==
  /\ Settleable
  /\ check' = [check EXCEPT !.outcome = "unreachable"]
  /\ UNCHANGED <<order, pages, disputes, money, shelf, job>>

\* The customer raises a dispute or Support logs one, whatever became of the order.
Raise(d) ==
  /\ dispute[d] = "none"
  /\ dispute' = [dispute EXCEPT ![d] = "open"]
  /\ UNCHANGED <<order, check, pages, reopening, money, shelf, job>>

\* Resolved without money, or with a refund, given once by a dispute; a refund the ledger
\* refuses undoes it all.
Resolve(d) ==
  /\ dispute[d] = "open"
  /\ dispute' = [dispute EXCEPT ![d] = "resolved"]
  /\ \/ UNCHANGED <<order, money, shelf>>
     \/ /\ order.recorded /\ d \notin back.of
        /\ \E amount \in 1..PaidLeft :
             /\ Given(amount, {d})
             /\ IF IsWhole(amount) THEN CancelIfNotHandedOver ELSE UNCHANGED <<order, shelf>>
  /\ UNCHANGED <<check, pages, reopening, job>>

Reject(d) ==
  /\ dispute[d] = "open"
  /\ dispute' = [dispute EXCEPT ![d] = "rejected"]
  /\ UNCHANGED <<order, check, pages, reopening, money, shelf, job>>

\* A re-review reads the dispute without a lock and saves it as open.
ReReviewReads(d) ==
  /\ dispute[d] = "rejected"
  /\ reopening' = reopening \cup {d}
  /\ UNCHANGED <<order, check, pages, dispute, money, shelf, job>>

ReReviewSaves(d) ==
  /\ d \in reopening /\ reopening' = reopening \ {d}
  /\ dispute' = [dispute EXCEPT ![d] = "open"]
  /\ UNCHANGED <<order, check, pages, money, shelf, job>>

-----------------------------------------------------------------------------
Next ==
  \/ \E s \in Screens : ReadCode(s) \/ MakeCode(s)
  \/ WrongCode \/ Collect \/ SupportCancel
  \/ PickupWindowPasses \/ ExpiryReads \/ ExpireOne \/ ExpireFails
  \/ CallMatches \/ CallDiffers \/ CallUnreachable
  \/ \E d \in Disputes : Raise(d) \/ Resolve(d) \/ Reject(d)
                         \/ ReReviewReads(d) \/ ReReviewSaves(d)

Spec == Init /\ [][Next]_vars

\* The hourly job lists the order and comes to it.
FairSpec == Spec /\ WF_vars(ExpiryReads) /\ WF_vars(ExpireOne)

-----------------------------------------------------------------------------
(* Properties.                                                             *)

\* Every variable stays in its type.
TypeOK ==
  /\ order \in [status : {"paid", "cancelled"}, recorded : BOOLEAN]
  /\ check \in [code : Nat, wrong : 0..Limit, collected : BOOLEAN,
                outcome : {"none", "matches", "does_not_match", "unreachable"}]
  /\ shown \in [Screens -> Nat] /\ asking \subseteq Screens
  /\ dispute \in [Disputes -> {"none", "open", "resolved", "rejected"}] /\ reopening \subseteq Disputes
  /\ back \in [base : 0..Base, fee : 0..Charged, customer : 0..Paid, whole : BOOLEAN,
               of : SUBSET Disputes]
  /\ released \in BOOLEAN
  /\ books \in [pending : 0..Base, available : Int, income : 0..Charged, wallet : 0..Paid,
                clearing : {0, Paid}, promo : 0..Discount]
  /\ shelf \in Nat
  /\ job \in [overdue : BOOLEAN, listed : BOOLEAN, fails : 0..MaxFails]

\* Whatever the customer's pages show is the code the desk expects, though two pages found
\* none and both went on to make it (collection_code).
ShownIsExpected == \A s \in Screens : shown[s] \in {NoCode, check.code}

\* The goods are in one place: with the customer, at the desk or, after a cancel by whichever
\* of Support, the expiry and a dispute came first, back on the shelf once (return_stock).
GoodsInOnePlace ==
  /\ shelf = IF order.status = "cancelled" THEN 1 ELSE 0
  /\ ~(check.collected /\ order.status = "cancelled")

\* A cancelled order has given back all the customer paid and all the business was to have,
\* whatever was refunded before (expire_one, _cancel, refund_order).
CancelledIsRefunded ==
  order.status = "cancelled" /\ order.recorded => back.customer = Paid /\ books.pending = 0

\* The accounts agree with the order in every order of partial refunds and release.
BooksBalance ==
  /\ books.pending = IF order.recorded /\ ~released THEN Room ELSE 0
  /\ books.available + books.income = IF released THEN Room ELSE 0
  /\ books.income = IF released THEN Charged - back.fee ELSE 0
  /\ books.wallet = back.customer
  /\ books.pending + books.available + books.income + books.wallet = books.clearing + books.promo

\* Nobody who has all their money back is handed the goods (mark_collected).
NoGoodsAfterMoney ==
  [][~check.collected /\ check'.collected /\ order.recorded => PaidLeft > 0]_vars

\* The business is paid only for goods the customer took, and while nothing is in dispute.
PaidForGoodsTaken ==
  [][~released /\ released' => check.collected /\ ~InDispute /\ back' = back]_vars

\* An order not collected in time does not wait for ever, also when the desk is locked after
\* wrong codes: it is refunded in the end unless it is collected or stays in dispute.
NotCollectedIsRefunded ==
  <>[](job.overdue /\ order.recorded /\ ~InDispute) => <>[](~Waiting)
=============================================================================
