----------------------------- MODULE BookingSale -----------------------------
(***************************************************************************)
(* One paid booking: a service request, a stay, or the tickets bought in   *)
(* one purchase for an event (ledger.sales, events.cancellation).  The     *)
(* price is held in the business's Pending until it is released to it or   *)
(* refunded to the customer's wallet.  Every money step locks the booking  *)
(* (the tickets) and the sale, so it is one action; what is read before    *)
(* the locks, or saved without one, is a step of its own.                  *)
(***************************************************************************)
EXTENDS RefundMath

CONSTANTS
  Kinds,        \* the kinds of booking explored: "service", "stay", "tickets"
  FromWallet,   \* those explored with a payment from the customer's wallet as well
  SlowReview,   \* those explored with a re-review of the dispute that others cross
  Tickets,      \* the tickets of the purchase
  Price,        \* the price of a ticket
  Base,         \* the price of the booking
  Charged,      \* the platform fee fixed at payment
  Processing    \* the payment-processing charge of a mobile-money payment

ASSUME KindAssumption == Kinds \subseteq {"service", "stay", "tickets"}
ASSUME PriceAssumption == /\ Base \in Nat \ {0} /\ Price \in Nat \ {0}
                          /\ IsFiniteSet(Tickets) /\ Base = Price * Cardinality(Tickets)
ASSUME SourceAssumption == Tickets \cap {"cancel", "cancel-customer", "dispute"} = {}
ASSUME FeeAssumption == Charged \in 0..Base /\ Processing \in Nat

VARIABLES
  kind, policy,         \* fixed: the kind of booking and its cancellation policy
  subject,              \* the status of the service request or stay; tickets: bought or not
  delivered, refunded,  \* the tickets scanned at the door, the tickets marked refunded
  event,                \* the status of the event
  clock,                \* how far time has come, see Times
  sale,                 \* the BookingSale row
  given,                \* the BookingRefund rows by source; amount 0 is no row
  dispute,              \* the dispute linked to the sale
  books,                \* the ledger accounts the booking's journals touch
  call,                 \* the dispute Support's verification saw before its locks
  candidate,            \* release_due holds the sale as a candidate
  reopening,            \* a re-review has read the dispute as rejected
  sendingBack,          \* a re-review has read the event as rejected
  left                  \* the tickets a cancel of the event still has to refund

goods == <<subject, delivered, refunded>>
money == <<sale, given, books>>
hands == <<call, candidate, reopening, sendingBack, left>>
vars == <<kind, policy, goods, event, clock, money, dispute, hands>>

\* More than five days before the start; one to five days; the last day; started; release time.
Early == 0
Late == 1
Closed == 2
Started == 3
Ended == 4
Times == Early..Ended

Whole == 10000
\* The share of the price given back, in basis points, by policy and time before the start;
\* an organiser's policy is flexible until some days before, or gives nothing back.
Tiers == [flexible |-> <<Whole, Whole, 0>>, moderate |-> <<Whole, 5000, 0>>,
          strict |-> <<5000, 0, 0>>]

\* A service has no start and is given back whole.
RefundShare ==
  IF kind = "service" THEN Whole
  ELSE IF clock < Started THEN Tiers[policy][clock + 1] ELSE 0

Sources == {"cancel", "cancel-customer", "dispute"} \cup Tickets
NoRefund == [amount |-> 0, fee |-> 0, processing |-> 0]

-----------------------------------------------------------------------------
Payable == [service |-> "accepted", stay |-> "pending", tickets |-> "wanted"]
Paid == [service |-> "in_progress", stay |-> "confirmed", tickets |-> "bought"]

Init ==
  /\ kind \in Kinds
  /\ policy \in (CASE kind = "stay" -> {"moderate", "strict"}
                   [] OTHER -> {"flexible"})
  /\ subject = Payable[kind]
  /\ delivered = {} /\ refunded = {}
  /\ event = "approved"
  /\ clock = Early
  /\ sale = [paid |-> FALSE, charge |-> 0, refBase |-> 0, refFee |-> 0,
             released |-> FALSE, reversed |-> FALSE, outcome |-> ""]
  /\ given = [s \in Sources |-> NoRefund]
  /\ dispute = "none"
  /\ books = [pending |-> 0, available |-> 0, income |-> 0, wallet |-> 0,
              clearing |-> 0, providerFees |-> 0]
  /\ call = "idle" /\ candidate = FALSE /\ reopening = FALSE /\ sendingBack = FALSE
  /\ left = {}

\* The booking reached the customer.
HandedOver ==
  CASE kind = "service" -> subject = "completed"
    [] kind = "stay" -> subject \in {"checked_in", "checked_out"}
    [] OTHER -> delivered # {} \/ clock >= Started

\* The time at which the money releases by itself has passed.
Due == clock = Ended

Open == sale.paid /\ ~sale.released /\ ~sale.reversed
Room == Base - sale.refBase

-----------------------------------------------------------------------------
(* The booking and the customer.                                           *)

\* The payment's finalizer: the booking is confirmed or the tickets are made, and the price
\* is held.  An event cancelled meanwhile rolls the payment back.
Pay(byWallet) ==
  /\ subject = Payable[kind]
  /\ byWallet => kind \in FromWallet
  /\ kind = "tickets" => event # "cancelled"
  /\ subject' = Paid[kind]
  /\ sale' = [sale EXCEPT !.paid = TRUE, !.charge = IF byWallet THEN 0 ELSE Processing]
  /\ books' = IF byWallet
              THEN [books EXCEPT !.pending = @ + Base, !.wallet = @ - Base]
              ELSE [books EXCEPT !.pending = @ + Base, !.clearing = @ + Base]
  /\ UNCHANGED <<kind, policy, delivered, refunded, event, clock, given, dispute, hands>>

\* The guest cancels a stay that was not paid for.
CancelUnpaid ==
  /\ kind = "stay" /\ subject = "pending"
  /\ subject' = "cancelled"
  /\ UNCHANGED <<kind, policy, delivered, refunded, event, clock, money, dispute, hands>>

\* The business marks the service done, checks the guest in or checks them out.
Progress ==
  /\ \/ kind = "service" /\ subject = "in_progress" /\ subject' = "completed"
     \/ kind = "stay" /\ subject = "confirmed" /\ subject' = "checked_in"
     \/ kind = "stay" /\ subject = "checked_in" /\ subject' = "checked_out"
  /\ UNCHANGED <<kind, policy, delivered, refunded, event, clock, money, dispute, hands>>

\* A ticket is scanned at the door.
Scan(t) ==
  /\ kind = "tickets" /\ subject = "bought"
  /\ t \notin delivered \cup refunded
  /\ delivered' = delivered \cup {t}
  /\ UNCHANGED <<kind, policy, subject, refunded, event, clock, money, dispute, hands>>

\* Time passes: a service's clock runs once it is marked done.
Tick ==
  /\ clock < Ended
  /\ clock' = IF kind = "service" THEN Ended ELSE clock + 1
  /\ kind = "service" => subject = "completed"
  /\ UNCHANGED <<kind, policy, goods, event, money, dispute, hands>>

-----------------------------------------------------------------------------
(* Release.                                                                *)

\* Slip: the fee refunds gave back is charged again.
ReleasedWithFullFee ==
  /\ sale' = [sale EXCEPT !.released = TRUE, !.outcome = "matches"]
  /\ books' = [books EXCEPT !.pending = @ - Room,
                            !.income = @ + Charged,
                            !.available = @ + Room - Charged]

\* What refunds left is paid out, the fee on it first, on a positive outcome.
Released ==
  /\ sale' = [sale EXCEPT !.released = TRUE, !.outcome = "matches"]
  /\ books' = [books EXCEPT !.pending = @ - Room,
                            !.income = @ + (Charged - sale.refFee),
                            !.available = @ + Room - (Charged - sale.refFee)]

\* Slip: a negative call stands for ever.
NeverRefused == sale.outcome # "does_not_match"

\* No negative call stands: its dispute, if any, was settled.
NotRefused == sale.outcome # "does_not_match" \/ dispute # "none"

\* The hourly job lists the sales to release.
SweepReads ==
  /\ ~candidate /\ Open /\ NotRefused /\ Due
  /\ kind = "tickets" => event = "approved"
  /\ candidate' = TRUE
  /\ UNCHANGED <<kind, policy, goods, event, clock, money, dispute, call, reopening, sendingBack, left>>

\* Slip: an open dispute does not stop it.
SweepReleasesBlind ==
  /\ candidate
  /\ candidate' = FALSE
  /\ IF Open /\ NotRefused /\ Due THEN Released ELSE UNCHANGED <<sale, books>>
  /\ UNCHANGED <<kind, policy, goods, event, clock, given, dispute, call, reopening, sendingBack, left>>

\* It takes one of them under its locks: released, or left for a later run.
SweepReleases ==
  /\ candidate
  /\ candidate' = FALSE
  /\ IF Open /\ NotRefused /\ Due /\ dispute # "open"
     THEN Released
     ELSE UNCHANGED <<sale, books>>
  /\ UNCHANGED <<kind, policy, goods, event, clock, given, dispute, call, reopening, sendingBack, left>>

\* The customer accepts a service marked done.
Accept ==
  /\ kind = "service" /\ Open /\ HandedOver
  /\ dispute # "open" /\ NotRefused
  /\ Released
  /\ UNCHANGED <<kind, policy, goods, event, clock, given, dispute, hands>>

-----------------------------------------------------------------------------
(* Support's call and the dispute.                                         *)

\* The view reads the sale, with the dispute linked to it if there is one; a call on a
\* settled sale is refused anyhow.
CallReads ==
  /\ call = "idle" /\ Open
  /\ call' = IF dispute = "none" THEN "clean" ELSE "linked"
  /\ UNCHANGED <<kind, policy, goods, event, clock, money, dispute, candidate, reopening, sendingBack, left>>

\* Under the locks: nothing is recorded when a dispute was linked in between.
CallAllowed ==
  /\ call = (IF dispute = "none" THEN "clean" ELSE "linked")
  /\ Open /\ HandedOver

CallMatches ==
  /\ CallAllowed /\ dispute # "open"
  /\ Released
  /\ UNCHANGED <<given, dispute>>

CallDiffers ==
  /\ CallAllowed /\ dispute \in {"none", "open"}
  /\ dispute' = "open"
  /\ sale' = [sale EXCEPT !.outcome = "does_not_match"]
  /\ UNCHANGED <<given, books>>

CallUnreachable ==
  /\ CallAllowed
  /\ sale' = [sale EXCEPT !.outcome = "unreachable"]
  /\ UNCHANGED <<given, books, dispute>>

CallRefused == UNCHANGED <<money, dispute>>

CallActs ==
  /\ call # "idle" /\ call' = "idle"
  /\ CallMatches \/ CallDiffers \/ CallUnreachable \/ CallRefused
  /\ UNCHANGED <<kind, policy, goods, event, clock, candidate, reopening, sendingBack, left>>

\* The customer reports a problem before the money is settled; once more is a note.
Report ==
  /\ Open /\ dispute = "none"
  /\ dispute' = "open"
  /\ UNCHANGED <<kind, policy, goods, event, clock, money, hands>>

Reject ==
  /\ dispute = "open"
  /\ dispute' = "rejected"
  /\ UNCHANGED <<kind, policy, goods, event, clock, money, hands>>

\* A re-review nothing crosses.
Reopen ==
  /\ dispute = "rejected"
  /\ dispute' = "open"
  /\ UNCHANGED <<kind, policy, goods, event, clock, money, hands>>

\* Another reads the dispute without a lock and saves it as open.
ReopenReads ==
  /\ kind \in SlowReview
  /\ ~reopening /\ dispute = "rejected"
  /\ reopening' = TRUE
  /\ UNCHANGED <<kind, policy, goods, event, clock, money, dispute, call, candidate, sendingBack, left>>

ReopenSaves ==
  /\ reopening
  /\ dispute' = "open" /\ reopening' = FALSE
  /\ UNCHANGED <<kind, policy, goods, event, clock, money, call, candidate, sendingBack, left>>

-----------------------------------------------------------------------------
(* Refunds, always to the customer's wallet.                               *)

\* The fee that belongs to the refund, and the payment charge given back on fault.
RefundOf(amount, fault) ==
  [amount |-> amount,
   fee |-> FeeShare(Charged, Base, sale.refBase + amount) - sale.refFee,
   processing |-> IF ~fault THEN 0
                  ELSE IF amount = Room THEN sale.charge - books.providerFees
                  ELSE ChargeShare(sale.charge, sale.charge - books.providerFees, amount, Base)]

\* Out of Pending before release; afterwards out of Available, with the fee on it returned.
BooksAfter(r) ==
  [books EXCEPT !.pending = @ - (IF sale.released THEN 0 ELSE r.amount),
                !.available = @ - (IF sale.released THEN r.amount - r.fee ELSE 0),
                !.income = @ - (IF sale.released THEN r.fee ELSE 0),
                !.providerFees = @ + r.processing,
                !.wallet = @ + r.amount + r.processing]

Refund(amount, source, fault) ==
  LET r == RefundOf(amount, fault) IN
  /\ sale' = [sale EXCEPT !.refBase = @ + r.amount, !.refFee = @ + r.fee,
                          !.reversed = (amount = Room)]
  /\ given' = [given EXCEPT ![source] = r]
  /\ books' = BooksAfter(r)

\* What a cancel may still stop.
NotHandedOver == {"accepted", "in_progress", "pending", "confirmed"}

\* A booking that never reached the customer ends with its refund.
CancelIfNotHandedOver ==
  /\ subject' = IF subject \in NotHandedOver THEN "cancelled" ELSE subject
  /\ refunded' = IF kind = "tickets" THEN refunded \cup (Tickets \ delivered) ELSE refunded

\* A refund made by itself: only the one that empties the sale cancels the booking.
RefundAlone(amount, source, fault) ==
  /\ Refund(amount, source, fault)
  /\ IF amount = Room THEN CancelIfNotHandedOver ELSE UNCHANGED <<subject, refunded>>

\* Support cancels a booking the customer has not received: all that is left goes back.
SupportCancel ==
  /\ Open /\ ~HandedOver
  /\ RefundAlone(Room, "cancel", FALSE)
  /\ UNCHANGED <<kind, policy, delivered, event, clock, dispute, hands>>

\* What the customer's cancel requires, and the screen's quote with it.
Quoted ==
  /\ Open /\ given["cancel-customer"] = NoRefund
  /\ ~HandedOver
  /\ ~Due
  /\ dispute # "open"

\* Slip: a partial refund leaves the booking standing.
CustomerCancelKeepsBooking ==
  LET amount == (Room * RefundShare) \div Whole IN
  /\ Quoted /\ amount > 0
  /\ RefundAlone(amount, "cancel-customer", FALSE)
  /\ UNCHANGED <<kind, policy, delivered, event, clock, dispute, hands>>

\* The customer cancels under the policy: the booking is over even when the host keeps a part.
CustomerCancel ==
  LET amount == (Room * RefundShare) \div Whole IN
  /\ Quoted /\ amount > 0
  /\ Refund(amount, "cancel-customer", FALSE)
  /\ CancelIfNotHandedOver
  /\ UNCHANGED <<kind, policy, delivered, event, clock, dispute, hands>>

\* The Accountant refunds one ticket.
RefundTicket(t) ==
  /\ kind = "tickets" /\ sale.paid
  /\ t \notin delivered \cup refunded
  /\ Price <= Room
  /\ Refund(Price, t, FALSE)
  /\ refunded' = refunded \cup {t} \cup (IF Price = Room THEN Tickets \ delivered ELSE {})
  /\ UNCHANGED <<kind, policy, subject, delivered, event, clock, dispute, hands>>

\* Slip: the refund is not looked up by its dispute.
ResolveTwice ==
  /\ dispute = "open"
  /\ dispute' = "resolved"
  /\ \/ UNCHANGED <<money, subject, refunded>>
     \/ \E amount \in 1..Room, fault \in BOOLEAN : RefundAlone(amount, "dispute", fault)
  /\ UNCHANGED <<kind, policy, delivered, event, clock, hands>>

\* An open dispute is resolved: without money, or with a refund, made once by a dispute.
Resolve ==
  /\ dispute = "open"
  /\ dispute' = "resolved"
  /\ \/ UNCHANGED <<money, subject, refunded>>
     \/ \E amount \in 1..Room, fault \in BOOLEAN :
          /\ given["dispute"] = NoRefund
          /\ RefundAlone(amount, "dispute", fault)
  /\ UNCHANGED <<kind, policy, delivered, event, clock, hands>>

-----------------------------------------------------------------------------
(* The event.                                                              *)

\* The organiser edits the event, its date perhaps, and it waits for approval again.
Edit ==
  /\ kind = "tickets" /\ event # "cancelled"
  /\ event' = "pending"
  /\ clock' \in Times
  /\ UNCHANGED <<kind, policy, goods, money, dispute, hands>>

\* Approve and reject lock the event; both refuse a cancelled one.
Review ==
  /\ kind = "tickets" /\ event # "cancelled"
  /\ event' \in {"approved", "rejected"}
  /\ UNCHANGED <<kind, policy, goods, clock, money, dispute, hands>>

\* A re-review reads a rejected event without a lock and saves it as pending.
SendBackReads ==
  /\ ~sendingBack /\ event = "rejected"
  /\ sendingBack' = TRUE
  /\ UNCHANGED <<kind, policy, goods, event, clock, money, dispute, call, candidate, reopening, left>>

SendBackSaves ==
  /\ sendingBack
  /\ event' = "pending" /\ sendingBack' = FALSE
  /\ UNCHANGED <<kind, policy, goods, clock, money, dispute, call, candidate, reopening, left>>

Unrefunded == IF sale.paid /\ kind = "tickets" THEN Tickets \ refunded ELSE {}

\* The organiser (before the date) or Operations cancels the event, then refunds its tickets
\* one by one; calling it again, and the hourly sweep, take what is left.
CancelEvent ==
  /\ kind = "tickets" /\ event # "cancelled"
  /\ event' = "cancelled" /\ left' = Unrefunded
  /\ UNCHANGED <<kind, policy, goods, clock, money, dispute, call, candidate, reopening, sendingBack>>

FinishRefunds ==
  /\ event = "cancelled" /\ left = {} /\ Unrefunded # {}
  /\ left' = Unrefunded
  /\ UNCHANGED <<kind, policy, goods, event, clock, money, dispute, call, candidate, reopening, sendingBack>>

\* Slip: every ticket is given its whole price.
EventShareWhole == Price

\* A ticket of a cancelled event gets its price, or what is left on its sale.
EventShare == AtMost(Price, Room)

\* One ticket in its own transaction: skipped when refunded meanwhile, only marked when
\* nothing is left on its sale.
RefundNext(t) ==
  /\ t \in left /\ left' = left \ {t}
  /\ IF t \in refunded THEN UNCHANGED <<money, refunded>>
     ELSE IF EventShare <= 0 THEN refunded' = refunded \cup {t} /\ UNCHANGED money
     ELSE /\ EventShare <= Room
          /\ Refund(EventShare, t, TRUE)
          /\ refunded' = refunded \cup {t} \cup (IF EventShare = Room THEN Tickets \ delivered ELSE {})
  /\ UNCHANGED <<kind, policy, subject, delivered, event, clock, dispute, call, candidate, reopening, sendingBack>>

\* The process dies with refunds still to make.
Crash ==
  /\ left # {} /\ left' = {}
  /\ UNCHANGED <<kind, policy, goods, event, clock, money, dispute, call, candidate, reopening, sendingBack>>

-----------------------------------------------------------------------------
Next ==
  \/ \E byWallet \in BOOLEAN : Pay(byWallet)
  \/ CancelUnpaid \/ Progress \/ Tick
  \/ \E t \in Tickets : Scan(t) \/ RefundTicket(t) \/ RefundNext(t)
  \/ SweepReads \/ SweepReleases \/ Accept
  \/ CallReads \/ CallActs
  \/ Report \/ Reject \/ Resolve \/ Reopen \/ ReopenReads \/ ReopenSaves
  \/ SupportCancel \/ CustomerCancel
  \/ Edit \/ Review \/ SendBackReads \/ SendBackSaves
  \/ CancelEvent \/ FinishRefunds \/ Crash

Spec == Init /\ [][Next]_vars

\* The two hourly jobs run, and a step of theirs once begun ends; the refunds of an event,
\* though cut short however often, are not cut short before the first of them every time.
Fairness ==
  /\ WF_vars(SweepReads) /\ WF_vars(SweepReleases)
  /\ WF_vars(FinishRefunds) /\ SF_vars(\E t \in Tickets : RefundNext(t))

FairSpec == Spec /\ Fairness

-----------------------------------------------------------------------------
(* Properties.                                                             *)

\* Every variable stays in its type.
TypeOK ==
  /\ kind \in Kinds /\ policy \in DOMAIN Tiers
  /\ subject \in {Payable[kind], Paid[kind], "completed", "checked_in", "checked_out", "cancelled"}
  /\ delivered \subseteq Tickets /\ refunded \subseteq Tickets /\ left \subseteq Tickets
  /\ event \in {"approved", "pending", "rejected", "cancelled"}
  /\ clock \in Times
  /\ sale \in [paid : BOOLEAN, charge : {0, Processing}, refBase : 0..Base, refFee : 0..Charged,
               released : BOOLEAN, reversed : BOOLEAN,
               outcome : {"", "matches", "does_not_match", "unreachable"}]
  /\ given \in [Sources -> [amount : 0..Base, fee : 0..Charged, processing : 0..Processing]]
  /\ dispute \in {"none", "open", "resolved", "rejected"}
  /\ books \in [pending : 0..Base, available : Int, income : 0..Charged, wallet : Int,
                clearing : {0, Base}, providerFees : 0..sale.charge]
  /\ call \in {"idle", "clean", "linked"}
  /\ candidate \in BOOLEAN /\ reopening \in BOOLEAN /\ sendingBack \in BOOLEAN

\* The accounts agree with the sale: Pending holds what was neither released nor refunded,
\* and what the business and AshantiHub have is what refunds left, whatever was refunded
\* before the release and after it (release, refund).
BooksBalance ==
  /\ books.pending = IF sale.paid /\ ~sale.released THEN Room ELSE 0
  /\ books.available + books.income = IF sale.released THEN Room ELSE 0
  /\ books.pending + books.available + books.income + books.wallet
       = books.clearing + books.providerFees

\* The fee AshantiHub keeps is the fee's share of the price the business keeps, to half a
\* pesewa, however the refunds were cut and whenever they came (fee_share, cumulative).
FeeIsItsShare ==
  sale.released =>
    LET off == 2 * (books.income * Base - Charged * Room) IN -Base <= off /\ off <= Base

\* The refunds' rows make up the sale's totals and the processing charge given back, and
\* the sale is reversed exactly when they make up the price.
RefundsAddUp ==
  /\ sale.refBase = SumFunction([s \in Sources |-> given[s].amount])
  /\ sale.refFee = SumFunction([s \in Sources |-> given[s].fee])
  /\ books.providerFees = SumFunction([s \in Sources |-> given[s].processing])
  /\ sale.reversed <=> sale.refBase = Base

\* A customer given their money back by a cancel never gets the booking too: it stays
\* cancelled, its tickets are never scanned (cancel, cancel_by_customer against the
\* business's and the door's steps).
CancelledIsNotReceived ==
  given["cancel"] # NoRefund \/ given["cancel-customer"] # NoRefund =>
    IF kind = "tickets" THEN refunded = Tickets /\ delivered = {} ELSE subject = "cancelled"

\* A positive outcome is on the sale exactly when its money went out: an attempt that could
\* not release leaves no outcome behind (_release_on_clock, record_verification).
MatchesIsReleased == sale.outcome = "matches" <=> sale.released

\* A negative call always has a dispute to be settled by, so it cannot hold the money for ever.
NegativeCallHasADispute == sale.outcome = "does_not_match" => dispute # "none"

\* When every ticket is marked refunded the whole price went back, whatever went back
\* before without naming a ticket (_refund_one).
TicketsGiveItAllBack ==
  kind = "tickets" /\ sale.paid /\ refunded = Tickets => sale.refBase = Base

\* Money is never paid out while a problem is open (release).
NoReleaseUnderDispute ==
  [][~sale.released /\ sale'.released => dispute # "open" /\ dispute' # "open"]_vars

\* A sale whose release time has come is paid out by the hourly job, unless it is refunded
\* in full, a problem opens, or its event is not approved (release_due).
DueIsSettled ==
  Open /\ Due ~> \/ ~Open \/ dispute = "open" \/ ~Due
                 \/ kind = "tickets" /\ event # "approved"

\* A cancelled event gives every buyer everything back in the end, though its refunds are
\* cut short and other refunds come between (cancel_event, finish_cancelled_event_refunds).
CancelledEventPaysBack ==
  <>[](event = "cancelled") => <>[](sale.paid => sale.refBase = Base)
=============================================================================
