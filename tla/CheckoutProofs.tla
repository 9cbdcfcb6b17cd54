--------------------------- MODULE CheckoutProofs ---------------------------
(* Theorems about Checkout, for any orders, quantities, shelf and coupon.   *)
(* Only the liveness is TLC's alone.                                        *)
EXTENDS Checkout, MoneyLemmas

\* How the rows of one order agree: order and session begin together, only a session still
\* open waits for its payment, and the link is made once, for an order there is.
RowsInv ==
  \A o \in Order :
    /\ order[o] = "none" <=> session[o] = "none"
    /\ order[o] = "none" => hubtel[o] = "none" /\ restocked[o] = 0
    /\ session[o] = "pending" => order[o] \in {"pending", "cancelled"}
    /\ order[o] = "paid" => session[o] = "success"
    /\ o \in calling => hubtel[o] = "none" /\ order[o] # "none"

\* An order that is paid, or that a callback may still pay, has its goods and its coupon use.
MayBePaid(o) == order[o] = "paid" \/ (order[o] = "pending" /\ session[o] = "pending")
KeptInv ==
  \A o \in Order :
    MayBePaid(o) => restocked[o] = 0 /\ (o \in Coded => o \in redeemed)

\* What Hubtel reported it charged; the coupon's uses.
HeardInv == \A o \in heard : hubtel[o] \in Charged
UsesInv == Uses <= UsageLimit

IInv ==
  /\ TypeOK /\ RowsInv /\ KeptInv
  /\ PaidIsCharged /\ HeardInv /\ ChargeIsAnswered
  /\ UsesInv

-----------------------------------------------------------------------------
\* The uses are few and countable.
LEMMA UsesFinite ==
  ASSUME TypeOK
  PROVE  IsFiniteSet(redeemed) /\ Uses \in Nat
<1>1. redeemed \subseteq Order
  BY CheckoutAssumption DEF TypeOK
<1> QED BY <1>1, CheckoutAssumption, FS_Subset, FS_CardinalityType DEF Uses

LEMMA InitIInv == Init => IInv
<1> SUFFICES ASSUME Init PROVE IInv
  OBVIOUS
<1>1. TypeOK
  BY CheckoutAssumption DEF Init, TypeOK
<1>2. RowsInv /\ KeptInv
  BY DEF Init, RowsInv, KeptInv, MayBePaid
<1>3. PaidIsCharged /\ HeardInv /\ ChargeIsAnswered
  BY DEF Init, PaidIsCharged, HeardInv, ChargeIsAnswered
<1>4. UsesInv
  BY FS_EmptySet, CheckoutAssumption DEF Init, UsesInv, Uses
<1> QED BY <1>1, <1>2, <1>3, <1>4 DEF IInv

-----------------------------------------------------------------------------
(* One lemma per group of steps.                                           *)

\* The checkout request takes stock and coupon use before anything is paid.
LEMMA PlaceKeeps ==
  ASSUME IInv, NEW o \in Order, PlaceOrder(o)
  PROVE  IInv'
<1> USE CheckoutAssumption
<1>1. /\ order[o] = "none" /\ session[o] = "none" /\ hubtel[o] = "none" /\ restocked[o] = 0
      /\ stock' = stock - Quantity[o] /\ stock >= Quantity[o]
      /\ UNCHANGED <<rolledBack, hubtel, flagged, heard, restocked>>
  BY DEF PlaceOrder, InStock, IInv, RowsInv
<1>2. \/ /\ o \in Immediate /\ order' = [order EXCEPT ![o] = "paid"]
         /\ session' = [session EXCEPT ![o] = "success"] /\ calling' = calling
      \/ /\ order' = [order EXCEPT ![o] = "pending"]
         /\ session' = [session EXCEPT ![o] = "pending"] /\ calling' = calling \cup {o}
  BY DEF PlaceOrder
<1>3. /\ redeemed' = IF o \in Coded THEN redeemed \cup {o} ELSE redeemed
      /\ coupon' \in {"active", "paused", "expired"}
      /\ o \in Coded => Uses < UsageLimit
  BY DEF PlaceOrder, Redeem, CouponUsable, promotion, IInv, TypeOK
<1>4. TypeOK'
  <2>1. stock' \in Nat
    BY <1>1 DEF IInv, TypeOK
  <2>2. redeemed' \subseteq Coded
    BY <1>3 DEF IInv, TypeOK
  <2> QED BY <1>1, <1>2, <1>3, <2>1, <2>2 DEF IInv, TypeOK
<1>5. RowsInv'
  BY <1>1, <1>2 DEF IInv, TypeOK, RowsInv
<1>6. KeptInv'
  BY <1>1, <1>2, <1>3 DEF IInv, TypeOK, KeptInv, MayBePaid
<1>7. PaidIsCharged'
  BY <1>1, <1>2 DEF IInv, TypeOK, PaidIsCharged
<1>8. HeardInv'
  BY <1>1 DEF IInv, HeardInv
<1>9. ChargeIsAnswered'
  BY <1>1, <1>2 DEF IInv, TypeOK, HeardInv, ChargeIsAnswered, Charged
<1>10. UsesInv'
  <2>1. IsFiniteSet(redeemed) /\ Uses \in Nat
    BY UsesFinite DEF IInv
  <2>2. Cardinality(redeemed \cup {o}) \in {Uses, Uses + 1}
    BY <2>1, FS_AddElement DEF Uses
  <2>3. Cardinality(redeemed \cup {o}) \in Nat
    BY <2>1, FS_AddElement, FS_CardinalityType
  <2> QED BY <1>3, <2>1, <2>2, <2>3 DEF IInv, UsesInv, Uses
<1> QED BY <1>4, <1>5, <1>6, <1>7, <1>8, <1>9, <1>10 DEF IInv

\* A session still open is given up: nobody can pay it any more.
LEMMA GiveUpKeeps ==
  ASSUME IInv, NEW o \in Order, session[o] = "pending",
         NEW end \in {"failed", "expired"}, NEW cancels \in BOOLEAN, GiveUp(o, end, cancels),
         UNCHANGED <<coupon, hubtel, flagged, heard>>, calling' \subseteq calling
  PROVE  IInv'
<1> USE CheckoutAssumption
<1>1. /\ session' = [session EXCEPT ![o] = end] /\ rolledBack' = rolledBack \cup {o}
      /\ \/ UNCHANGED <<stock, restocked>>
         \/ /\ stock' = stock + Quantity[o]
            /\ restocked' = [restocked EXCEPT ![o] = restocked[o] + 1]
  BY DEF GiveUp, Restock
<1>2. \/ order' = order
      \/ order[o] = "pending" /\ order' = [order EXCEPT ![o] = "cancelled"]
  BY DEF GiveUp, ReleaseOrder, IInv, TypeOK
<1>3. /\ redeemed' \in {redeemed, redeemed \ {o}}
      /\ order[o] \in {"pending", "cancelled"}
  BY DEF GiveUp, ReleaseOrder, IInv, RowsInv
<1>4. TypeOK'
  <2>1. stock' \in Nat /\ restocked' \in [Order -> Nat]
    BY <1>1 DEF IInv, TypeOK
  <2> QED BY <1>1, <1>2, <1>3, <2>1 DEF IInv, TypeOK
<1>5. RowsInv'
  BY <1>1, <1>2, <1>3 DEF IInv, TypeOK, RowsInv
<1>6. KeptInv'
  BY <1>1, <1>2, <1>3 DEF IInv, TypeOK, KeptInv, MayBePaid
<1>7. PaidIsCharged' /\ HeardInv'
  BY <1>1, <1>2 DEF IInv, TypeOK, PaidIsCharged, HeardInv
<1>8. ChargeIsAnswered'
  <2>1. \A p \in Order : session[p] = "success" => session'[p] = "success"
    BY <1>1 DEF IInv, TypeOK
  <2> QED BY <2>1 DEF IInv, TypeOK, ChargeIsAnswered
<1>9. UsesInv'
  <2>1. IsFiniteSet(redeemed) /\ redeemed' \subseteq redeemed /\ Uses \in Nat
    BY <1>3, UsesFinite DEF IInv
  <2> QED BY <2>1, FS_Subset, FS_CardinalityType DEF IInv, UsesInv, Uses
<1> QED BY <1>4, <1>5, <1>6, <1>7, <1>8, <1>9 DEF IInv

\* The call made after the commit, and the shopper on the link it brings.
LEMMA CallKeeps ==
  ASSUME IInv, NEW o \in Order,
         CallSucceeds(o) \/ CallFails(o) \/ Die(o) \/ ShopperActs(o)
  PROVE  IInv'
<1>1. CASE CallFails(o)
  <2>1. CASE session[o] = "pending"
    <3>1. /\ GiveUp(o, "failed", TRUE) /\ UNCHANGED <<coupon, hubtel, flagged, heard>>
          /\ calling' \subseteq calling
      BY <1>1, <2>1 DEF CallFails
    <3> QED BY <2>1, <3>1, GiveUpKeeps
  <2>2. CASE session[o] # "pending"
    <3>1. /\ UNCHANGED <<stock, order, session, rolledBack, redeemed, restocked, coupon, hubtel, flagged, heard>>
          /\ calling' \subseteq calling
      BY <1>1, <2>2 DEF CallFails
    <3> QED BY <3>1 DEF IInv, TypeOK, RowsInv, KeptInv, MayBePaid, PaidIsCharged, HeardInv,
                        ChargeIsAnswered, UsesInv, Uses
  <2> QED BY <2>1, <2>2
<1>2. CASE CallSucceeds(o) \/ Die(o) \/ ShopperActs(o)
  <2>1. /\ UNCHANGED <<stock, order, session, rolledBack, redeemed, coupon, flagged, heard, restocked>>
        /\ calling' \subseteq calling
        /\ \/ hubtel' = hubtel
           \/ /\ order[o] # "none" /\ hubtel[o] \notin Charged /\ o \notin calling'
              /\ \E end \in {"link", "charged", "short", "declined"} :
                   hubtel' = [hubtel EXCEPT ![o] = end]
    BY <1>2 DEF CallSucceeds, Die, ShopperActs, promotion, Charged, IInv, TypeOK, RowsInv
  <2>2. TypeOK' /\ RowsInv'
    BY <2>1 DEF IInv, TypeOK, RowsInv
  <2>3. KeptInv' /\ ChargeIsAnswered' /\ UsesInv'
    BY <2>1 DEF IInv, KeptInv, MayBePaid, ChargeIsAnswered, UsesInv, Uses
  <2>4. PaidIsCharged' /\ HeardInv'
    BY <2>1 DEF IInv, TypeOK, PaidIsCharged, HeardInv, Charged
  <2> QED BY <2>2, <2>3, <2>4 DEF IInv
<1> QED BY <1>1, <1>2

\* The callback: only a whole charge, for a session still open, pays.
LEMMA CallbackKeeps ==
  ASSUME IInv, NEW o \in Order,
         (\E named \in BOOLEAN : PaidCallback(o, named)) \/ FailedCallback(o) \/ Expire(o)
  PROVE  IInv'
<1>1. CASE \E named \in BOOLEAN : PaidCallback(o, named)
  <2>1. /\ hubtel[o] \in Charged /\ heard' = heard \cup {o}
        /\ UNCHANGED <<stock, redeemed, coupon, calling, hubtel, restocked>>
        /\ \/ /\ session[o] # "pending" /\ UNCHANGED <<order, session, rolledBack>>
              /\ flagged' = IF session[o] \in {"failed", "expired"} THEN flagged \cup {o} ELSE flagged
           \/ /\ flagged' = flagged \cup {o} /\ UNCHANGED <<order, session, rolledBack>>
           \/ /\ session[o] = "pending" /\ order[o] = "cancelled" /\ order' = order
              /\ session' = [session EXCEPT ![o] = "failed"]
              /\ rolledBack' = rolledBack \cup {o} /\ flagged' = flagged \cup {o}
           \/ /\ session[o] = "pending" /\ order[o] # "cancelled" /\ hubtel[o] = "charged"
              /\ order' = [order EXCEPT ![o] = "paid"]
              /\ session' = [session EXCEPT ![o] = "success"] /\ UNCHANGED <<rolledBack, flagged>>
    BY <1>1 DEF PaidCallback, Finalize, PaysInFull, Waiting, Late, promotion, external
  <2>2. session[o] # "none"
    BY <2>1 DEF IInv, RowsInv, Charged
  <2>3. TypeOK'
    BY <2>1 DEF IInv, TypeOK
  <2>4. RowsInv'
    BY <2>1 DEF IInv, TypeOK, RowsInv
  <2>5. KeptInv'
    BY <2>1 DEF IInv, TypeOK, RowsInv, KeptInv, MayBePaid
  <2>6. PaidIsCharged' /\ HeardInv' /\ UsesInv'
    BY <2>1 DEF IInv, TypeOK, PaidIsCharged, HeardInv, UsesInv, Uses
  <2>7. ChargeIsAnswered'
    BY <2>1, <2>2 DEF IInv, TypeOK, ChargeIsAnswered
  <2> QED BY <2>3, <2>4, <2>5, <2>6, <2>7 DEF IInv
<1>2. CASE FailedCallback(o) \/ Expire(o)
  <2>1. /\ session[o] = "pending" /\ UNCHANGED <<coupon, hubtel, flagged, heard>>
        /\ calling' \subseteq calling
        /\ \E end \in {"failed", "expired"} : GiveUp(o, end, FALSE)
    BY <1>2 DEF FailedCallback, Expire, external
  <2> QED BY <2>1, GiveUpKeeps
<1> QED BY <1>1, <1>2

\* Support's cancel leaves the session and the coupon use as they are.
LEMMA StaffKeeps ==
  ASSUME IInv, (\E o \in Order : SupportCancel(o)) \/ ResumeCoupon
  PROVE  IInv'
<1>1. ASSUME NEW o \in Order, SupportCancel(o) PROVE IInv'
  <2>1. /\ order[o] \in {"pending", "paid"} /\ order' = [order EXCEPT ![o] = "cancelled"]
        /\ stock' = stock + Quantity[o] /\ restocked' = [restocked EXCEPT ![o] = restocked[o] + 1]
        /\ UNCHANGED <<session, rolledBack, redeemed, coupon, calling, hubtel, flagged, heard>>
    BY <1>1 DEF SupportCancel, Restock, promotion, external
  <2>2. TypeOK'
    <3>1. stock \in Nat /\ Quantity[o] \in Nat /\ restocked \in [Order -> Nat]
      BY CheckoutAssumption DEF IInv, TypeOK
    <3>2. stock' \in Nat /\ restocked' \in [Order -> Nat]
      BY <2>1, <3>1
    <3> QED BY <2>1, <3>2 DEF IInv, TypeOK
  <2>3. RowsInv' /\ KeptInv'
    BY <2>1 DEF IInv, TypeOK, RowsInv, KeptInv, MayBePaid
  <2>4. PaidIsCharged' /\ HeardInv' /\ ChargeIsAnswered' /\ UsesInv'
    BY <2>1 DEF IInv, TypeOK, PaidIsCharged, HeardInv, ChargeIsAnswered, UsesInv, Uses
  <2> QED BY <2>2, <2>3, <2>4 DEF IInv
<1>2. CASE ResumeCoupon
  <2>1. /\ coupon' = "active"
        /\ UNCHANGED <<stock, order, session, rolledBack, redeemed, calling, hubtel, flagged, heard, restocked>>
    BY <1>2 DEF ResumeCoupon, external
  <2> QED BY <2>1 DEF IInv, TypeOK, RowsInv, KeptInv, MayBePaid, PaidIsCharged, HeardInv,
                      ChargeIsAnswered, UsesInv, Uses
<1> QED BY <1>1, <1>2

LEMMA NextIInv == IInv /\ [Next]_vars => IInv'
<1> SUFFICES ASSUME IInv, [Next]_vars PROVE IInv'
  OBVIOUS
<1>1. CASE UNCHANGED vars
  BY <1>1 DEF vars, promotion, external, IInv, TypeOK, RowsInv, KeptInv, MayBePaid,
              PaidIsCharged, HeardInv, ChargeIsAnswered, UsesInv, Uses
<1>2. CASE Next
  BY <1>2, PlaceKeeps, CallKeeps, CallbackKeeps, StaffKeeps DEF Next
<1> QED BY <1>1, <1>2

-----------------------------------------------------------------------------
\* The strengthened invariant of the checkout, from which the rest follows.
THEOREM Inductive == Spec => []IInv
BY InitIInv, NextIInv, PTL DEF Spec

\* Every variable stays in its type: the shelf above all never goes below nothing, however
\* many requests want the last units (PlaceOrder).
THEOREM TypesHold == Spec => []TypeOK
<1>1. IInv => TypeOK
  BY DEF IInv
<1> QED BY <1>1, Inductive, PTL

\* An order is paid only when its whole amount was charged (PaidCallback's amount check).
THEOREM PaidMeansCharged == Spec => []PaidIsCharged
<1>1. IInv => PaidIsCharged
  BY DEF IInv
<1> QED BY <1>1, Inductive, PTL

\* A paid order's goods are never back on the shelf, whatever expiry, callback and Support do
\* at the same moment (GiveUp, SupportCancel).
THEOREM GoodsAreKept == Spec => []PaidKeepsItsGoods
<1>1. IInv => PaidKeepsItsGoods
  BY DEF IInv, KeptInv, MayBePaid, PaidKeepsItsGoods
<1> QED BY <1>1, Inductive, PTL

\* Every charge reported bought its order or is before a person (PaidCallback).
THEOREM ChargesAreAnswered == Spec => []ChargeIsAnswered
<1>1. IInv => ChargeIsAnswered
  BY DEF IInv
<1> QED BY <1>1, Inductive, PTL

-----------------------------------------------------------------------------
(* The shelf.                                                              *)

Standing == {o \in Order : Stands(o)}

\* A session marked rolled back is closed: the goods of one still open are not back yet.
RolledInv == \A o \in rolledBack : session[o] \in {"failed", "expired"}

ShelfInv == RolledInv /\ StockNeverLost

\* What a step does to the goods: a request takes them, an order that stood gives them back,
\* or nothing that stands changes and the shelf loses nothing.
Takes(o) == /\ Standing' = Standing \cup {o} /\ o \notin Standing
            /\ stock' = stock - Quantity[o]
GivesBack(o) == /\ Standing' = Standing \ {o} /\ o \in Standing
                /\ stock' = stock + Quantity[o]
ShelfStep ==
  \/ Standing' = Standing /\ \E n \in Nat : stock' = stock + n
  \/ \E o \in Order : Takes(o) \/ GivesBack(o)

\* Giving up an open session puts the goods back, for they are not back yet.
LEMMA GiveUpShelf ==
  ASSUME TypeOK, RowsInv, RolledInv, NEW o \in Order, session[o] = "pending",
         NEW end \in {"failed", "expired"}, NEW cancels \in BOOLEAN, GiveUp(o, end, cancels)
  PROVE  ShelfStep /\ RolledInv'
<1> USE CheckoutAssumption
<1>1. /\ session' = [session EXCEPT ![o] = end] /\ rolledBack' = rolledBack \cup {o}
      /\ stock' = stock + Quantity[o] /\ o \notin rolledBack
      /\ \A p \in Order : p # o => order'[p] = order[p]
  BY DEF GiveUp, ReleaseOrder, Restock, RolledInv, TypeOK
<1>2. Quantity[o] \in Nat /\ stock \in Nat
  BY DEF TypeOK
<1>3. Standing' = Standing \ {o}
  BY <1>1 DEF Standing, Stands, TypeOK
<1>4. ShelfStep
  <2>1. CASE o \in Standing
    BY <1>1, <1>3, <2>1 DEF ShelfStep, GivesBack
  <2>2. CASE o \notin Standing
    <3>1. Standing' = Standing /\ Quantity[o] \in Nat /\ stock' = stock + Quantity[o]
      BY <1>1, <1>2, <1>3, <2>2
    <3> QED BY <3>1 DEF ShelfStep
  <2> QED BY <2>1, <2>2
<1>5. RolledInv'
  BY <1>1 DEF RolledInv, TypeOK
<1> QED BY <1>4, <1>5

\* What every step does to the goods.
LEMMA StepsOfShelf ==
  ASSUME IInv, RolledInv, [Next]_vars
  PROVE  ShelfStep /\ RolledInv'
<1> USE CheckoutAssumption
<1>1. ASSUME NEW o \in Order, PlaceOrder(o)
      PROVE  ShelfStep /\ RolledInv'
  <2>1. /\ order[o] = "none" /\ session[o] = "none" /\ o \notin rolledBack
        /\ stock' = stock - Quantity[o] /\ rolledBack' = rolledBack
        /\ \/ order' = [order EXCEPT ![o] = "paid"] /\ session' = [session EXCEPT ![o] = "success"]
           \/ order' = [order EXCEPT ![o] = "pending"] /\ session' = [session EXCEPT ![o] = "pending"]
    BY <1>1 DEF PlaceOrder, IInv, RowsInv, RolledInv
  <2>2. Takes(o)
    BY <2>1 DEF Takes, Standing, Stands, IInv, TypeOK
  <2>3. RolledInv'
    BY <2>1 DEF RolledInv, IInv, TypeOK
  <2> QED BY <2>2, <2>3 DEF ShelfStep
<1>2. ASSUME UNCHANGED <<stock, order, session, rolledBack>>
      PROVE  ShelfStep /\ RolledInv'
  BY <1>2 DEF ShelfStep, Standing, Stands, RolledInv, IInv, TypeOK
<1>3. ASSUME NEW o \in Order, CallFails(o) \/ FailedCallback(o) \/ Expire(o)
      PROVE  ShelfStep /\ RolledInv'
  <2>1. CASE session[o] = "pending"
    <3>1. \E end \in {"failed", "expired"}, cancels \in BOOLEAN : GiveUp(o, end, cancels)
      BY <1>3, <2>1 DEF CallFails, FailedCallback, Expire
    <3> QED BY <2>1, <3>1, GiveUpShelf DEF IInv
  <2>2. CASE session[o] # "pending"
    BY <1>2, <1>3, <2>2 DEF CallFails, FailedCallback, Expire
  <2> QED BY <2>1, <2>2
<1>4. ASSUME NEW o \in Order, \E named \in BOOLEAN : PaidCallback(o, named)
      PROVE  ShelfStep /\ RolledInv'
  <2>1. /\ hubtel[o] \in Charged /\ stock' = stock
        /\ \/ UNCHANGED <<order, session, rolledBack>>
           \/ /\ session[o] = "pending" /\ order[o] = "cancelled" /\ order' = order
              /\ session' = [session EXCEPT ![o] = "failed"] /\ rolledBack' = rolledBack \cup {o}
           \/ /\ session[o] = "pending" /\ order[o] # "cancelled" /\ rolledBack' = rolledBack
              /\ order' = [order EXCEPT ![o] = "paid"]
              /\ session' = [session EXCEPT ![o] = "success"]
    BY <1>4 DEF PaidCallback, Finalize, Waiting
  <2>2. Standing' = Standing
    BY <2>1 DEF Standing, Stands, IInv, TypeOK, RowsInv
  <2>3. RolledInv'
    BY <2>1 DEF RolledInv, IInv, TypeOK
  <2> QED BY <2>1, <2>2, <2>3 DEF ShelfStep, IInv, TypeOK
<1>5. ASSUME NEW o \in Order, SupportCancel(o)
      PROVE  ShelfStep /\ RolledInv'
  <2>1. /\ order' = [order EXCEPT ![o] = "cancelled"] /\ stock' = stock + Quantity[o]
        /\ UNCHANGED <<session, rolledBack>>
    BY <1>5 DEF SupportCancel, Restock
  <2>2. Standing' = Standing \ {o}
    BY <2>1 DEF Standing, Stands, IInv, TypeOK
  <2>3. Quantity[o] \in Nat /\ stock \in Nat
    BY DEF IInv, TypeOK
  <2>4. ShelfStep
    <3>1. CASE o \in Standing
      BY <2>1, <2>2, <3>1 DEF ShelfStep, GivesBack
    <3>2. CASE o \notin Standing
      <4>1. Standing' = Standing /\ Quantity[o] \in Nat /\ stock' = stock + Quantity[o]
        BY <2>1, <2>2, <2>3, <3>2
      <4> QED BY <4>1 DEF ShelfStep
    <3> QED BY <3>1, <3>2
  <2>5. RolledInv'
    BY <2>1 DEF RolledInv
  <2> QED BY <2>4, <2>5
<1>6. ASSUME NEW o \in Order, CallSucceeds(o) \/ Die(o) \/ ShopperActs(o)
      PROVE  UNCHANGED <<stock, order, session, rolledBack>>
  BY <1>6 DEF CallSucceeds, Die, ShopperActs
<1>7. CASE ResumeCoupon
  BY <1>2, <1>7 DEF ResumeCoupon
<1>8. CASE UNCHANGED vars
  BY <1>2, <1>8 DEF vars
<1>9. CASE Next
  BY <1>9, <1>1, <1>2, <1>3, <1>4, <1>5, <1>6, <1>7 DEF Next
<1> QED BY <1>8, <1>9

\* At first the shelf is whole and nothing stands.
LEMMA InitShelf == Init => ShelfInv
<1> SUFFICES ASSUME Init PROVE ShelfInv
  OBVIOUS
<1>1. {o \in Order : Stands(o)} = {}
  BY DEF Init, Stands
<1>2. SumFunctionOnSet(Quantity, {o \in Order : Stands(o)}) = 0
  BY <1>1, SumEmpty
<1> QED BY <1>2, CheckoutAssumption DEF Init, ShelfInv, RolledInv, StockNeverLost

\* Every step keeps the units together: on the shelf, or in an order that stands.
LEMMA StepShelf ==
  ASSUME IInv, ShelfInv, [Next]_vars
  PROVE  ShelfInv'
<1> USE CheckoutAssumption
<1>1. ShelfStep /\ RolledInv'
  BY StepsOfShelf DEF ShelfInv
<1>2. /\ IsFiniteSet(Standing) /\ Standing \subseteq Order /\ stock \in Nat
      /\ \A o \in Order : Quantity[o] \in Nat /\ Quantity[o] \in Int
  <2>1. Standing \subseteq Order
    BY DEF Standing
  <2> QED BY <2>1, FS_Subset DEF IInv, TypeOK
<1>3. stock + SumFunctionOnSet(Quantity, Standing) >= Shelf
  BY DEF ShelfInv, StockNeverLost, Standing
<1>4. PICK sum \in Int : sum = SumFunctionOnSet(Quantity, Standing)
  <2>1. \A o \in Standing : Quantity[o] \in Int
    BY <1>2
  <2>2. SumFunctionOnSet(Quantity, Standing) \in Int
    BY <1>2, <2>1, SumRemoved
  <2> QED BY <2>2
<1>5. stock' + SumFunctionOnSet(Quantity, Standing') >= Shelf
  <2>1. stock + sum >= Shelf
    BY <1>3, <1>4
  <2>2. ASSUME NEW n \in Nat, Standing' = Standing, stock' = stock + n
        PROVE  stock' + SumFunctionOnSet(Quantity, Standing') >= Shelf
    <3>1. SumFunctionOnSet(Quantity, Standing') = sum
      BY <1>4, <2>2
    <3>2. stock' + sum >= Shelf
      BY <1>2, <2>1, <2>2
    <3> QED BY <3>1, <3>2
  <2>3. ASSUME NEW o \in Order, Takes(o)
        PROVE  stock' + SumFunctionOnSet(Quantity, Standing') >= Shelf
    <3>1. \A p \in Standing \cup {o} : Quantity[p] \in Int
      BY <1>2
    <3>2. SumFunctionOnSet(Quantity, Standing \cup {o}) = Quantity[o] + sum
      BY <1>2, <1>4, <2>3, <3>1, SumAdd DEF Takes
    <3>3. SumFunctionOnSet(Quantity, Standing') = Quantity[o] + sum
      BY <2>3, <3>2 DEF Takes
    <3> QED BY <1>2, <2>1, <2>3, <3>3 DEF Takes
  <2>4. ASSUME NEW o \in Order, GivesBack(o)
        PROVE  stock' + SumFunctionOnSet(Quantity, Standing') >= Shelf
    <3>1. \A p \in Standing : Quantity[p] \in Int
      BY <1>2
    <3>2. PICK rest \in Int : rest = SumFunctionOnSet(Quantity, Standing \ {o})
      <4>1. IsFiniteSet(Standing \ {o}) /\ \A p \in Standing \ {o} : Quantity[p] \in Int
        BY <1>2, <3>1, FS_Subset
      <4>2. SumFunctionOnSet(Quantity, Standing \ {o}) \in Int
        BY <4>1, SumRemoved
      <4> QED BY <4>2
    <3>3. sum = Quantity[o] + rest
      BY <1>2, <1>4, <2>4, <3>1, <3>2, SumRemoved DEF GivesBack
    <3>4. SumFunctionOnSet(Quantity, Standing') = rest
      BY <2>4, <3>2 DEF GivesBack
    <3> QED BY <1>2, <2>1, <2>4, <3>3, <3>4 DEF GivesBack
  <2> QED BY <1>1, <2>2, <2>3, <2>4 DEF ShelfStep
<1> QED BY <1>1, <1>5 DEF ShelfInv, StockNeverLost, Standing

\* No unit gets lost, whatever dies, expires, comes late or is cancelled: what is neither on
\* the shelf nor in an order that stands does not exist (PlaceOrder, GiveUp, SupportCancel).
THEOREM StockIsNeverLost == Spec => []StockNeverLost
<1>1. Init => IInv /\ ShelfInv
  BY InitIInv, InitShelf
<1>2. (IInv /\ ShelfInv) /\ [Next]_vars => (IInv /\ ShelfInv)'
  BY NextIInv, StepShelf
<1>3. ShelfInv => StockNeverLost
  BY DEF ShelfInv
<1> QED BY <1>1, <1>2, <1>3, PTL DEF Spec

-----------------------------------------------------------------------------
(* The coupon.                                                             *)

\* What the uses in force cost is within the budget.
BudgetInv == Cost(redeemed) <= BudgetCap

\* A step spends from what is left of the budget, or gives uses back.
LEMMA StepsOfCoupon ==
  ASSUME IInv, [Next]_vars
  PROVE  \/ redeemed' \subseteq redeemed
         \/ \E o \in Coded : /\ redeemed' = redeemed \cup {o}
                             /\ Discount[o] <= BudgetCap - Cost(redeemed)
<1>1. CASE \E o \in Order : PlaceOrder(o)
  BY <1>1 DEF PlaceOrder, Redeem, CouponUsable, promotion
<1>2. CASE \E o \in Order : CallFails(o) \/ FailedCallback(o) \/ Expire(o)
  BY <1>2 DEF CallFails, FailedCallback, Expire, GiveUp, ReleaseOrder
<1>3. CASE \E o \in Order :
             \/ CallSucceeds(o) \/ Die(o) \/ ShopperActs(o) \/ SupportCancel(o)
             \/ \E named \in BOOLEAN : PaidCallback(o, named)
  BY <1>3 DEF CallSucceeds, Die, ShopperActs, SupportCancel, PaidCallback, promotion
<1>4. CASE ResumeCoupon \/ UNCHANGED vars
  BY <1>4 DEF ResumeCoupon, vars, promotion
<1> QED BY <1>1, <1>2, <1>3, <1>4 DEF Next

\* A part of the uses costs no more than all of them, and a number of pesewas.
LEMMA CostOfPart ==
  ASSUME NEW S \in SUBSET Coded, NEW T \in SUBSET S
  PROVE  IsFiniteSet(S) /\ Cost(S) \in Nat /\ Cost(T) \in Nat /\ Cost(T) <= Cost(S)
<1>1. IsFiniteSet(S) /\ \A o \in S : Discount[o] \in Nat
  <2>1. S \subseteq Order
    BY CheckoutAssumption
  <2> QED BY <2>1, FS_Subset, CheckoutAssumption
<1>2. SumFunctionOnSet(Discount, T) \in Nat /\ SumFunctionOnSet(Discount, T) <= SumFunctionOnSet(Discount, S)
  BY <1>1, SumPart
<1>3. SumFunctionOnSet(Discount, S) \in Nat
  BY <1>1, SumNat
<1> QED BY <1>1, <1>2, <1>3 DEF Cost

\* The budget is never overspent.
LEMMA StepBudget ==
  ASSUME IInv, BudgetInv, [Next]_vars
  PROVE  BudgetInv'
<1>1. redeemed \in SUBSET Coded
  BY DEF IInv, TypeOK
<1>2. IsFiniteSet(redeemed) /\ Cost(redeemed) \in Nat /\ BudgetCap \in Nat
  <2>1. redeemed \in SUBSET redeemed
    OBVIOUS
  <2> QED BY <1>1, <2>1, CostOfPart, CheckoutAssumption
<1>3. CASE redeemed' \subseteq redeemed
  <2>1. Cost(redeemed') \in Nat /\ Cost(redeemed') <= Cost(redeemed)
    BY <1>1, <1>3, CostOfPart
  <2> QED BY <1>2, <2>1 DEF BudgetInv, Cost
<1>4. ASSUME NEW o \in Coded, o \notin redeemed, redeemed' = redeemed \cup {o},
             Discount[o] <= BudgetCap - Cost(redeemed)
      PROVE  BudgetInv'
  <2>1. \A p \in redeemed \cup {o} : Discount[p] \in Int
    BY <1>1, CheckoutAssumption
  <2>2. SumFunctionOnSet(Discount, redeemed \cup {o}) = Discount[o] + SumFunctionOnSet(Discount, redeemed)
    BY <1>2, <1>4, <2>1, SumAdd
  <2>3. Cost(redeemed \cup {o}) <= BudgetCap
    BY <1>2, <1>4, <2>1, <2>2 DEF Cost
  <2> QED BY <1>4, <2>3 DEF BudgetInv, Cost
<1>5. ASSUME NEW o \in Coded, o \in redeemed, redeemed' = redeemed \cup {o}
      PROVE  redeemed' \subseteq redeemed
  BY <1>5
<1> QED BY <1>3, <1>4, <1>5, StepsOfCoupon

\* The coupon pays for no more orders than it may, late payments included, neither by its
\* uses nor by its budget (record_redemption, release_order).
THEOREM CouponIsWithinLimits == Spec => []CouponWithinLimits
<1>1. Init => IInv /\ BudgetInv
  <2> SUFFICES ASSUME Init PROVE BudgetInv
    BY InitIInv
  <2>1. SumFunctionOnSet(Discount, redeemed) = 0
    BY SumEmpty DEF Init
  <2> QED BY <2>1, CheckoutAssumption DEF BudgetInv, Cost
<1>2. (IInv /\ BudgetInv) /\ [Next]_vars => (IInv /\ BudgetInv)'
  BY NextIInv, StepBudget
<1>3. IInv /\ BudgetInv => CouponWithinLimits
  <2> SUFFICES ASSUME IInv, BudgetInv PROVE CouponWithinLimits
    OBVIOUS
  <2> DEFINE spent == {o \in Coded : order[o] = "paid"}
  <2>1. spent \in SUBSET redeemed /\ redeemed \in SUBSET Coded
    BY CheckoutAssumption DEF IInv, TypeOK, KeptInv, MayBePaid
  <2>2. IsFiniteSet(redeemed) /\ Uses \in Nat
    BY UsesFinite DEF IInv
  <2> HIDE DEF spent
  <2>3. Cardinality(spent) <= UsageLimit
    BY <2>1, <2>2, FS_Subset, FS_CardinalityType, CheckoutAssumption DEF IInv, UsesInv, Uses
  <2>4. Cost(spent) <= BudgetCap
    <3>1. Cost(spent) \in Nat /\ Cost(redeemed) \in Nat /\ Cost(spent) <= Cost(redeemed)
      BY <2>1, CostOfPart
    <3> QED BY <3>1, CheckoutAssumption DEF BudgetInv
  <2> QED BY <2>3, <2>4 DEF CouponWithinLimits, spent
<1> QED BY <1>1, <1>2, <1>3, PTL DEF Spec

-----------------------------------------------------------------------------
\* An order cancelled stays cancelled, paid late or not (Finalize).
THEOREM CancelledStays == Spec => CancelledForGood
<1>1. IInv /\ [Next]_vars =>
        [\A o \in Order : order[o] = "cancelled" => order'[o] = "cancelled"]_vars
  <2> SUFFICES ASSUME IInv, Next, NEW p \in Order, order[p] = "cancelled"
               PROVE  order'[p] = "cancelled"
    OBVIOUS
  <2> USE DEF IInv, TypeOK
  <2>1. ASSUME NEW o \in Order,
               \/ PlaceOrder(o) \/ SupportCancel(o)
               \/ \E named \in BOOLEAN : PaidCallback(o, named)
        PROVE  order'[p] = "cancelled"
    BY <2>1 DEF PlaceOrder, SupportCancel, PaidCallback, Finalize
  <2>2. ASSUME NEW o \in Order, CallFails(o) \/ FailedCallback(o) \/ Expire(o)
        PROVE  order'[p] = "cancelled"
    BY <2>2 DEF CallFails, FailedCallback, Expire, GiveUp, ReleaseOrder
  <2>3. ASSUME NEW o \in Order, CallSucceeds(o) \/ Die(o) \/ ShopperActs(o)
        PROVE  order'[p] = "cancelled"
    BY <2>3 DEF CallSucceeds, Die, ShopperActs
  <2>4. CASE ResumeCoupon
    BY <2>4 DEF ResumeCoupon
  <2> QED BY <2>1, <2>2, <2>3, <2>4 DEF Next
<1> QED BY <1>1, Inductive, PTL DEF Spec, CancelledForGood
=============================================================================
