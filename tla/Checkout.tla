------------------------------ MODULE Checkout ------------------------------
(***************************************************************************)
(* Buying: the stock and the coupon use a checkout takes before anything   *)
(* is paid, the Hubtel payment that follows outside every lock, and the    *)
(* ways both end: the callback, the expiry task, a call that fails,        *)
(* Support's cancel.  Sources: src/backend/orders/{checkout,views,support} *)
(* .py, payments/{services,views,tasks}.py, marketing/checkout.py.         *)
(*                                                                         *)
(* One tracked listing and one shared coupon are enough: every order       *)
(* competes for both.  An order stands for one checkout request (a repeat  *)
(* of the request returns the same order).  Who is past the time limit of  *)
(* the expiry task is not modelled: any pending checkout may be.           *)
(***************************************************************************)
EXTENDS Integers, FiniteSets, Functions

CONSTANTS Order,      \* the checkout requests
          Quantity,   \* units each takes of the listing
          Shelf,      \* units on the shelf at first
          Immediate,  \* paid from the wallet, or under the simulated provider
          Coded,      \* asks for the coupon
          Promoted,   \* priced with promotions on (session.metadata["promos"])
          UsageLimit, \* Coupon.usage_limit
          Discount,   \* what the use by each order costs AshantiHub
          BudgetCap   \* Coupon.budget_cap

ASSUME CheckoutAssumption ==
  /\ IsFiniteSet(Order)
  /\ Quantity \in [Order -> Nat \ {0}]
  /\ Shelf \in Nat
  /\ Immediate \subseteq Order
  /\ Promoted \subseteq Order /\ Coded \subseteq Promoted
  /\ UsageLimit \in Nat \ {0} /\ BudgetCap \in Nat \ {0}
  /\ Discount \in [Coded -> Nat \ {0}]

VARIABLES
  stock,      \* Listing.stock_quantity
  order,      \* Order.status
  session,    \* CheckoutSession.status
  rolledBack, \* the sessions whose metadata says rolled_back
  redeemed,   \* the orders whose coupon redemption is in force
  coupon,     \* Coupon.status
  calling,    \* the processes between the commit and the answer of the Hubtel call
  hubtel,     \* external: what became of the payment link
  flagged,    \* orders whose charge was logged for a refund by hand
  heard,      \* history: orders Hubtel reported charged
  restocked   \* history: how often the goods of an order went back on the shelf

promotion == <<redeemed, coupon>>
external == <<calling, hubtel>>
vars == <<stock, order, session, rolledBack, promotion, external, flagged, heard, restocked>>

Charged == {"charged", "short"}

Init ==
  /\ stock = Shelf
  /\ order = [o \in Order |-> "none"]
  /\ session = [o \in Order |-> "none"]
  /\ rolledBack = {}
  /\ redeemed = {}
  /\ coupon = "active"
  /\ calling = {}
  /\ hubtel = [o \in Order |-> "none"]
  /\ flagged = {}
  /\ heard = {}
  /\ restocked = [o \in Order |-> 0]

Uses == Cardinality(redeemed)
Cost(orders) == SumFunctionOnSet(Discount, orders)

-----------------------------------------------------------------------------
(* The checkout request.                                                   *)

\* Slip: the status says whether the coupon has ended or is spent.
CouponUsableByStatus(o) == coupon = "active"

\* apply_coupon: the code can be used now.
CouponUsable(o) ==
  /\ coupon = "active"
  /\ Uses < UsageLimit
  /\ Discount[o] <= BudgetCap - Cost(redeemed)

\* record_redemption: the budget reached pauses the coupon, the last use ends it.
Redeem(o) ==
  /\ redeemed' = redeemed \cup {o}
  /\ coupon' = IF Cost(redeemed \cup {o}) >= BudgetCap THEN "paused"
               ELSE IF Uses + 1 >= UsageLimit THEN "expired"
               ELSE coupon

InStock(o) == stock >= Quantity[o]

\* _checkout: coupon, stock, order and session in one transaction; an immediate
\* payment is finalized in it too, another is called for once it has committed.
PlaceOrder(o) ==
  /\ order[o] = "none"
  /\ InStock(o)
  /\ stock' = stock - Quantity[o]
  /\ IF o \in Coded
     THEN CouponUsable(o) /\ Redeem(o)
     ELSE UNCHANGED promotion
  /\ IF o \in Immediate
     THEN /\ order' = [order EXCEPT ![o] = "paid"]
          /\ session' = [session EXCEPT ![o] = "success"]
          /\ UNCHANGED calling
     ELSE /\ order' = [order EXCEPT ![o] = "pending"]
          /\ session' = [session EXCEPT ![o] = "pending"]
          /\ calling' = calling \cup {o}
  /\ UNCHANGED <<rolledBack, hubtel, flagged, heard, restocked>>

-----------------------------------------------------------------------------
(* What closing a checkout puts back.                                      *)

Restock(o) ==
  /\ stock' = stock + Quantity[o]
  /\ restocked' = [restocked EXCEPT ![o] = @ + 1]

\* Slip: the goods of a checkout that is given up are not put back when the process
\* that made it died.
GiveUpSilently(o, end, cancels) ==
  /\ session' = [session EXCEPT ![o] = end]
  /\ rolledBack' = rolledBack \cup {o}
  /\ IF hubtel[o] = "none" THEN UNCHANGED <<stock, restocked>> ELSE Restock(o)
  /\ UNCHANGED <<redeemed, order>>

\* release_order: an unpaid order priced with promotions loses its coupon use and is
\* cancelled. Another stays pending, unless the caller cancels it.
ReleaseOrder(o, cancels) ==
  /\ redeemed' = IF o \in Promoted /\ order[o] # "paid" THEN redeemed \ {o} ELSE redeemed
  /\ order' = [order EXCEPT ![o] = IF @ = "pending" /\ (o \in Promoted \/ cancels)
                                   THEN "cancelled" ELSE @]

\* finalize_failure of a session that ends as failed or expired: the stock goes back once.
GiveUp(o, end, cancels) ==
  /\ session' = [session EXCEPT ![o] = end]
  /\ rolledBack' = rolledBack \cup {o}
  /\ IF o \in rolledBack THEN UNCHANGED <<stock, restocked>> ELSE Restock(o)
  /\ ReleaseOrder(o, cancels)

-----------------------------------------------------------------------------
(* The Hubtel call, outside every lock.                                    *)

CallSucceeds(o) ==
  /\ o \in calling
  /\ calling' = calling \ {o}
  /\ hubtel' = [hubtel EXCEPT ![o] = "link"]
  /\ UNCHANGED <<stock, order, session, rolledBack, promotion, flagged, heard, restocked>>

\* Slip: the session is closed and nothing is put back.
CallFailsBare(o) ==
  /\ o \in calling
  /\ calling' = calling \ {o}
  /\ session' = [session EXCEPT ![o] = IF session[o] = "pending" THEN "failed" ELSE @]
  /\ UNCHANGED <<stock, order, rolledBack, promotion, hubtel, flagged, heard, restocked>>

\* The call failed or timed out: a session still pending is given up and its order
\* cancelled. Without a link the shopper cannot pay.
CallFails(o) ==
  /\ o \in calling
  /\ calling' = calling \ {o}
  /\ IF session[o] = "pending"
     THEN GiveUp(o, "failed", TRUE)
     ELSE UNCHANGED <<stock, order, session, rolledBack, redeemed, restocked>>
  /\ UNCHANGED <<coupon, hubtel, flagged, heard>>

\* The process dies before the answer is saved: the session stays, with no link.
Die(o) ==
  /\ o \in calling
  /\ calling' = calling \ {o}
  /\ UNCHANGED <<stock, order, session, rolledBack, promotion, hubtel, flagged, heard, restocked>>

\* External: the shopper pays, in full or not, or gives up; the link never expires.
ShopperActs(o) ==
  /\ hubtel[o] = "link"
  /\ \E end \in Charged \cup {"declined"} : hubtel' = [hubtel EXCEPT ![o] = end]
  /\ UNCHANGED <<stock, order, session, rolledBack, promotion, calling, flagged, heard, restocked>>

-----------------------------------------------------------------------------
(* The callback. It may be repeated, late, or never come.                  *)

\* _finalize_order_checkout, or PaidForCancelledOrder: the session failed, marked as
\* rolled back without being so (the cancel did it), the charge left to a person.
Finalize(o) ==
  IF order[o] = "cancelled"
  THEN /\ session' = [session EXCEPT ![o] = "failed"]
       /\ rolledBack' = rolledBack \cup {o}
       /\ flagged' = flagged \cup {o}
       /\ UNCHANGED order
  ELSE /\ order' = [order EXCEPT ![o] = "paid"]
       /\ session' = [session EXCEPT ![o] = "success"]
       /\ UNCHANGED <<rolledBack, flagged>>

\* The reported amount is named and equals the session's.
PaysInFull(o, named) == hubtel[o] = "charged" /\ named

\* Slip: a success is applied to a session already given up on.
TakesPayment(s) == s \in {"pending", "expired"}
Waiting(s) == s = "pending"

\* Slip: a success for an expired session is a no-op like any other.
LateFailedOnly(s) == s = "failed"
\* The sessions given up on: a success is too late for them.
Late(s) == s \in {"failed", "expired"}

\* Hubtel reports the charge; it may leave the amount out.
PaidCallback(o, named) ==
  /\ hubtel[o] \in Charged
  /\ heard' = heard \cup {o}
  /\ \/ /\ ~Waiting(session[o])
        /\ flagged' = IF Late(session[o]) THEN flagged \cup {o} ELSE flagged
        /\ UNCHANGED <<order, session, rolledBack>>
     \/ /\ Waiting(session[o]) /\ ~PaysInFull(o, named)
        /\ flagged' = flagged \cup {o}
        /\ UNCHANGED <<order, session, rolledBack>>
     \/ /\ Waiting(session[o]) /\ PaysInFull(o, named)
        /\ Finalize(o)
  /\ UNCHANGED <<stock, promotion, external, restocked>>

\* Hubtel reports that the payment failed or expired.
FailedCallback(o) ==
  /\ hubtel[o] = "declined"
  /\ session[o] = "pending"
  /\ \E end \in {"failed", "expired"} : GiveUp(o, end, FALSE)
  /\ UNCHANGED <<coupon, external, flagged, heard>>

\* expire_stale_checkouts, one session per transaction, under its row lock.
Expire(o) ==
  /\ session[o] = "pending"
  /\ GiveUp(o, "expired", FALSE)
  /\ UNCHANGED <<coupon, external, flagged, heard>>

-----------------------------------------------------------------------------
(* Staff.                                                                  *)

\* Support cancels for the customer before the goods leave: SupportOrderStatusView.
\* The goods go back; the session and the coupon use are not looked at.
SupportCancel(o) ==
  /\ order[o] \in {"pending", "paid"}
  /\ Restock(o)
  /\ order' = [order EXCEPT ![o] = "cancelled"]
  /\ UNCHANGED <<session, rolledBack, promotion, external, flagged, heard>>

\* Only a paused coupon can be resumed, and only with budget left.
ResumeCoupon ==
  /\ coupon = "paused"
  /\ Cost(redeemed) < BudgetCap
  /\ coupon' = "active"
  /\ UNCHANGED <<stock, order, session, rolledBack, redeemed, external, flagged, heard, restocked>>

Next ==
  \/ \E o \in Order :
       \/ PlaceOrder(o)
       \/ CallSucceeds(o) \/ CallFails(o) \/ Die(o)
       \/ ShopperActs(o)
       \/ \E named \in BOOLEAN : PaidCallback(o, named)
       \/ FailedCallback(o) \/ Expire(o)
       \/ SupportCancel(o)
  \/ ResumeCoupon

Spec == Init /\ [][Next]_vars

\* The expiry task runs every ten minutes; nothing else is obliged to happen.
FairSpec == Spec /\ \A o \in Order : WF_vars(Expire(o))

-----------------------------------------------------------------------------
TypeOK ==
  /\ stock \in Nat
  /\ order \in [Order -> {"none", "pending", "paid", "cancelled"}]
  /\ session \in [Order -> {"none", "pending", "success", "failed", "expired"}]
  /\ rolledBack \subseteq Order
  /\ redeemed \subseteq Coded
  /\ coupon \in {"active", "paused", "expired"}
  /\ calling \subseteq Order
  /\ hubtel \in [Order -> {"none", "link", "charged", "short", "declined"}]
  /\ flagged \subseteq Order /\ heard \subseteq Order
  /\ restocked \in [Order -> Nat]

\* An order is paid only when its whole amount was charged, whatever the callback says.
PaidIsCharged ==
  \A o \in Order : order[o] = "paid" => o \in Immediate \/ hubtel[o] = "charged"

\* The goods of a paid order are not back on the shelf: a payment confirmed at the
\* same moment is never undone (expire_stale_checkouts).
PaidKeepsItsGoods == \A o \in Order : order[o] = "paid" => restocked[o] = 0

\* No unit gets lost: what is neither on the shelf nor in an order that stands and is
\* paid or may still be does not exist.
Stands(o) == order[o] \in {"pending", "paid"} /\ session[o] \in {"pending", "success"}
StockNeverLost == stock + SumFunctionOnSet(Quantity, {o \in Order : Stands(o)}) >= Shelf

\* The coupon pays for no more orders than it may: a use given back is never also
\* spent by the payment that comes late.
CouponWithinLimits ==
  LET spent == {o \in Coded : order[o] = "paid"} IN
  Cardinality(spent) <= UsageLimit /\ Cost(spent) <= BudgetCap

\* Every charge Hubtel reported bought its order or is in front of a person.
ChargeIsAnswered == \A o \in heard : session[o] = "success" \/ o \in flagged

\* An order cancelled stays cancelled, paid late or not (PaidForCancelledOrder).
CancelledForGood ==
  [][\A o \in Order : order[o] = "cancelled" => order'[o] = "cancelled"]_vars

\* What a checkout took and nobody paid comes back, though the process that made it
\* died before Hubtel answered and no callback ever arrives.
UnpaidComesBack ==
  \A o \in Order :
    order[o] = "pending" ~> order[o] = "paid" \/ restocked[o] > 0

\* The webhook's comment on a cancelled order: its stock is not returned twice.
ReturnedOnce == \A o \in Order : restocked[o] <= 1

=============================================================================
