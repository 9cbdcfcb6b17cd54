-------------------------- MODULE StorePickupProofs --------------------------
(***************************************************************************)
(* For any number of pages and disputes, any amounts and any limit of      *)
(* wrong codes: a page's code is the desk's, the goods are in one place, a *)
(* cancelled order gave everything back, the books balance, and neither    *)
(* goods nor the business's money go out when they should not.             *)
(***************************************************************************)
EXTENDS StorePickup, MoneyLemmas

LEMMA Amounts ==
  /\ Base \in Nat \ {0} /\ Discount \in Nat /\ Discount < Base
  /\ Charged \in Nat /\ Charged <= Base
  /\ Limit \in Nat \ {0} /\ MaxFails \in Nat
  /\ Paid \in Nat \ {0} /\ Paid = Base - Discount /\ Paid <= Base
  BY PickupAssumption DEF Paid

\* What was refunded: parts, until one of them is the whole.
BackInv ==
  /\ back.fee = FeeShare(Charged, Base, back.base)
  /\ back.whole => back.base = Base /\ back.customer = Paid
  /\ ~back.whole => back.base = back.customer /\ back.customer < Paid
  /\ ~order.recorded => back.base = 0 /\ ~back.whole

\* The parties' accounts, and what the payment and the coupon brought in.
SourceInv ==
  /\ books.clearing = IF order.recorded THEN Paid ELSE 0
  /\ books.promo = IF order.recorded THEN Discount - (back.base - back.customer) ELSE 0

\* What each end of the order presupposes.
EndInv ==
  /\ released => order.recorded /\ check.collected
  /\ back.whole => order.status = "cancelled" \/ check.collected
  /\ order.status = "cancelled" /\ order.recorded => back.whole

IInv ==
  /\ TypeOK /\ ShownIsExpected /\ GoodsInOnePlace
  /\ BackInv /\ SourceInv /\ EndInv /\ BooksBalance

-----------------------------------------------------------------------------
(* The money: its types, a refund, a release.                              *)

MoneyTyped ==
  /\ back \in [base : 0..Base, fee : 0..Charged, customer : 0..Paid, whole : BOOLEAN,
               of : SUBSET Disputes]
  /\ released \in BOOLEAN
  /\ books \in [pending : 0..Base, available : Int, income : 0..Charged, wallet : 0..Paid,
                clearing : {0, Paid}, promo : 0..Discount]

RestTyped ==
  /\ order \in [status : {"paid", "cancelled"}, recorded : BOOLEAN]
  /\ check \in [code : Nat, wrong : 0..Limit, collected : BOOLEAN,
                outcome : {"none", "matches", "does_not_match", "unreachable"}]
  /\ shown \in [Screens -> Nat] /\ asking \subseteq Screens
  /\ dispute \in [Disputes -> {"none", "open", "resolved", "rejected"}] /\ reopening \subseteq Disputes
  /\ shelf \in Nat
  /\ job \in [overdue : BOOLEAN, listed : BOOLEAN, fails : 0..MaxFails]

LEMMA TypeParts == TypeOK <=> MoneyTyped /\ RestTyped
  BY DEF TypeOK, MoneyTyped, RestTyped

\* The money as a whole.
MoneyInv == MoneyTyped /\ BackInv /\ SourceInv /\ BooksBalance

LEMMA MoneyFields ==
  ASSUME MoneyTyped
  PROVE  /\ back.base \in 0..Base /\ back.fee \in 0..Charged /\ back.customer \in 0..Paid
         /\ back.whole \in BOOLEAN /\ back.of \subseteq Disputes /\ released \in BOOLEAN
         /\ books.pending \in 0..Base /\ books.available \in Int /\ books.income \in 0..Charged
         /\ books.wallet \in 0..Paid /\ books.clearing \in {0, Paid} /\ books.promo \in 0..Discount
  BY DEF MoneyTyped

\* What a refund gives: the base it takes, the coupon's part of it and the fee on it.
LEMMA RefundParts ==
  ASSUME MoneyInv, order.recorded, NEW customer \in 1..PaidLeft,
         NEW base, base = IF IsWhole(customer) THEN Room ELSE customer,
         NEW fee, fee = FeeShare(Charged, Base, back.base + base) - back.fee
  PROVE  /\ ~back.whole /\ back.base = back.customer
         /\ base \in 1..Room /\ back.base + base \in 0..Base
         /\ back.customer + customer \in 0..Paid
         /\ fee \in 0..Charged /\ back.fee + fee \in 0..Charged
         /\ back.fee + fee = FeeShare(Charged, Base, back.base + base)
         /\ IsWhole(customer) => back.base + base = Base /\ back.customer + customer = Paid
                                 /\ base - customer = Discount
         /\ ~IsWhole(customer) => base = customer /\ back.customer + customer < Paid
<1>1. /\ back.base \in 0..Base /\ back.fee \in 0..Charged /\ back.customer \in 0..Paid
      /\ back.whole \in BOOLEAN
  BY MoneyFields DEF MoneyInv
<1>2. ~back.whole
  BY <1>1, Amounts DEF MoneyInv, BackInv, PaidLeft
<1>3. back.base = back.customer /\ back.customer < Paid
  BY <1>2 DEF MoneyInv, BackInv
<1>4. /\ base \in 1..Room /\ back.base + base \in 0..Base
      /\ back.customer + customer \in 0..Paid
      /\ IsWhole(customer) => back.base + base = Base /\ back.customer + customer = Paid
                              /\ base - customer = Discount
      /\ ~IsWhole(customer) => base = customer /\ back.customer + customer < Paid
  BY <1>1, <1>3, Amounts DEF IsWhole, PaidLeft, Room
<1>5. /\ FeeShare(Charged, Base, back.base + base) \in 0..Charged
      /\ back.fee <= FeeShare(Charged, Base, back.base + base)
  <2>1. back.base <= back.base + base
    BY <1>1, <1>4 DEF Room
  <2>2. back.fee = FeeShare(Charged, Base, back.base)
    BY DEF MoneyInv, BackInv
  <2> QED BY <1>1, <1>4, <2>1, <2>2, ShareType, ShareMonotone, Amounts
<1> QED BY <1>1, <1>2, <1>3, <1>4, <1>5, Amounts

\* A refund keeps all of it, before the release and after.
LEMMA GivenKeeps ==
  ASSUME MoneyInv, order.recorded, order'.recorded = order.recorded,
         NEW customer, NEW source \in SUBSET Disputes, Given(customer, source)
  PROVE  /\ MoneyInv' /\ released' = released /\ ~back.whole
         /\ back'.whole <=> IsWhole(customer)
<1> DEFINE base == IF IsWhole(customer) THEN Room ELSE customer
           fee == FeeShare(Charged, Base, back.base + base) - back.fee
<1>1. /\ customer \in 1..PaidLeft /\ released' = released
      /\ RefundPosted(base, fee, customer, base - customer)
      /\ back' = [base |-> back.base + base, fee |-> back.fee + fee,
                  customer |-> back.customer + customer, whole |-> IsWhole(customer),
                  of |-> back.of \cup source]
  BY DEF Given
<1>2. /\ ~back.whole /\ back.base = back.customer
      /\ base \in 1..Room /\ back.base + base \in 0..Base
      /\ back.customer + customer \in 0..Paid
      /\ fee \in 0..Charged /\ back.fee + fee \in 0..Charged
      /\ back.fee + fee = FeeShare(Charged, Base, back.base + base)
      /\ IsWhole(customer) => back.base + base = Base /\ back.customer + customer = Paid
                              /\ base - customer = Discount
      /\ ~IsWhole(customer) => base = customer /\ back.customer + customer < Paid
  BY <1>1, RefundParts
<1> HIDE DEF base, fee
<1>3. /\ back.base \in 0..Base /\ back.fee \in 0..Charged /\ back.customer \in 0..Paid
      /\ back.of \subseteq Disputes /\ released \in BOOLEAN
      /\ books.pending \in 0..Base /\ books.available \in Int /\ books.income \in 0..Charged
      /\ books.wallet \in 0..Paid /\ books.clearing \in {0, Paid} /\ books.promo \in 0..Discount
  BY MoneyFields DEF MoneyInv
<1>4. /\ back'.base = back.base + base /\ back'.fee = back.fee + fee
      /\ back'.customer = back.customer + customer
      /\ back'.whole <=> IsWhole(customer)
  BY <1>1
<1>5. back' \in [base : 0..Base, fee : 0..Charged, customer : 0..Paid, whole : BOOLEAN,
                 of : SUBSET Disputes]
  <2>1. back.of \cup source \in SUBSET Disputes /\ IsWhole(customer) \in BOOLEAN
    BY <1>3 DEF IsWhole
  <2> QED BY <1>1, <1>2, <2>1
<1>6. BackInv'
  BY <1>2, <1>4 DEF BackInv
<1>7. /\ books.clearing = Paid
      /\ books.promo = Discount
      /\ books.pending = IF ~released THEN Room ELSE 0
      /\ books.available + books.income = IF released THEN Room ELSE 0
      /\ books.income = IF released THEN Charged - back.fee ELSE 0
      /\ books.wallet = back.customer
  BY <1>2, <1>3, Amounts DEF MoneyInv, SourceInv, BooksBalance
<1>8. Room' = Room - base /\ base <= Room /\ Room = Base - back.base
  BY <1>2, <1>3, <1>4, Amounts DEF Room
<1>9. CASE released
  <2>1. books' = [books EXCEPT !.available = @ - (base - fee), !.income = @ - fee,
                               !.wallet = @ + customer, !.promo = @ - (base - customer)]
    BY <1>1, <1>9 DEF RefundPosted
  <2>2. /\ books'.pending = books.pending /\ books'.available = books.available - (base - fee)
        /\ books'.income = books.income - fee /\ books'.wallet = books.wallet + customer
        /\ books'.clearing = books.clearing /\ books'.promo = books.promo - (base - customer)
    BY <2>1 DEF MoneyInv, MoneyTyped
  <2>3. /\ books.income - fee \in 0..Charged /\ books.wallet + customer \in 0..Paid
        /\ books.promo - (base - customer) \in 0..Discount
        /\ books.available - (base - fee) \in Int
    BY <1>1, <1>2, <1>3, <1>7, <1>9, Amounts
  <2>4. books' \in [pending : 0..Base, available : Int, income : 0..Charged, wallet : 0..Paid,
                    clearing : {0, Paid}, promo : 0..Discount]
    BY <2>1, <2>3 DEF MoneyInv, MoneyTyped
  <2>5. SourceInv'
    BY <1>1, <1>2, <1>3, <1>4, <1>7, <2>2, Amounts DEF SourceInv
  <2>6. BooksBalance'
    <3>1. /\ customer \in Int /\ base \in Int /\ fee \in Int /\ Room \in Int
          /\ back.fee \in Int /\ back.customer \in Int
      BY <1>1, <1>2, <1>3, <1>8, Amounts DEF PaidLeft
    <3>2. /\ books.pending \in Int /\ books.available \in Int /\ books.income \in Int
          /\ books.wallet \in Int /\ books.clearing \in Int /\ books.promo \in Int
      BY <1>3, Amounts
    <3>3. /\ books'.pending = 0 /\ books'.income = Charged - back'.fee
          /\ books'.wallet = back'.customer
      BY <1>4, <1>7, <1>9, <2>2, <3>1, <3>2, Amounts
    <3>4. books'.available + books'.income = Room'
      BY <1>7, <1>8, <1>9, <2>2, <3>1, <3>2
    <3>5. books.pending + books.available + books.income + books.wallet
            = books.clearing + books.promo
      BY DEF MoneyInv, BooksBalance
    <3>6. books'.pending + books'.available + books'.income + books'.wallet
            = books'.clearing + books'.promo
      BY <2>2, <3>1, <3>2, <3>5
    <3> QED BY <1>1, <1>9, <3>3, <3>4, <3>6 DEF BooksBalance
  <2> QED BY <1>1, <1>2, <1>3, <1>4, <1>5, <1>6, <2>4, <2>5, <2>6 DEF MoneyInv, MoneyTyped
<1>10. CASE ~released
  <2>1. books' = [books EXCEPT !.pending = @ - base, !.wallet = @ + customer,
                               !.promo = @ - (base - customer)]
    BY <1>1, <1>10 DEF RefundPosted
  <2>2. /\ books'.pending = books.pending - base /\ books'.available = books.available
        /\ books'.income = books.income /\ books'.wallet = books.wallet + customer
        /\ books'.clearing = books.clearing /\ books'.promo = books.promo - (base - customer)
    BY <2>1 DEF MoneyInv, MoneyTyped
  <2>3. /\ books.pending - base \in 0..Base /\ books.wallet + customer \in 0..Paid
        /\ books.promo - (base - customer) \in 0..Discount
    <3>1. books.pending - base \in 0..Base
      BY <1>2, <1>3, <1>7, <1>8, <1>10, Amounts
    <3>2. books.wallet + customer \in 0..Paid
      BY <1>2, <1>7
    <3>3. base - customer = IF IsWhole(customer) THEN Discount ELSE 0
      BY <1>1, <1>2, Amounts
    <3>4. books.promo - (base - customer) \in 0..Discount
      BY <1>7, <3>3, Amounts
    <3> QED BY <3>1, <3>2, <3>4
  <2>4. books' \in [pending : 0..Base, available : Int, income : 0..Charged, wallet : 0..Paid,
                    clearing : {0, Paid}, promo : 0..Discount]
    BY <2>1, <2>3 DEF MoneyInv, MoneyTyped
  <2>5. SourceInv'
    BY <1>1, <1>2, <1>3, <1>4, <1>7, <2>2, Amounts DEF SourceInv
  <2>6. BooksBalance'
    BY <1>1, <1>2, <1>3, <1>4, <1>7, <1>8, <1>10, <2>2, Amounts DEF BooksBalance
  <2> QED BY <1>1, <1>2, <1>3, <1>4, <1>5, <1>6, <2>4, <2>5, <2>6 DEF MoneyInv, MoneyTyped
<1> QED BY <1>3, <1>9, <1>10

\* So does the release.
LEMMA ReleaseKeeps ==
  ASSUME MoneyInv, order.recorded, order' = order, ~released, released', back' = back, ReleasePosted
  PROVE  MoneyInv'
<1>1. /\ back.base \in 0..Base /\ back.fee \in 0..Charged /\ back.customer \in 0..Paid
      /\ books.pending \in 0..Base /\ books.available \in Int /\ books.income \in 0..Charged
      /\ books.wallet \in 0..Paid /\ books.promo \in 0..Discount
  BY MoneyFields DEF MoneyInv
<1>2. books' = [books EXCEPT !.pending = @ - Room, !.income = @ + (Charged - back.fee),
                             !.available = @ + Room - (Charged - back.fee)]
  BY DEF ReleasePosted
<1>3. /\ books'.pending = books.pending - Room
      /\ books'.income = books.income + (Charged - back.fee)
      /\ books'.available = books.available + Room - (Charged - back.fee)
      /\ books'.wallet = books.wallet /\ books'.clearing = books.clearing /\ books'.promo = books.promo
  BY <1>2 DEF MoneyInv, MoneyTyped
<1>4. /\ books.pending = Room /\ books.available + books.income = 0 /\ books.income = 0
      /\ books.wallet = back.customer
      /\ books.pending + books.available + books.income + books.wallet = books.clearing + books.promo
  BY DEF MoneyInv, BooksBalance
<1>5. Room' = Room /\ Room \in 0..Base
  BY <1>1, Amounts DEF Room
<1>6. /\ books.pending - Room \in 0..Base /\ books.income + (Charged - back.fee) \in 0..Charged
      /\ books.available + Room - (Charged - back.fee) \in Int
  BY <1>1, <1>4, <1>5, Amounts
<1>7. books' \in [pending : 0..Base, available : Int, income : 0..Charged, wallet : 0..Paid,
                  clearing : {0, Paid}, promo : 0..Discount]
  BY <1>2, <1>6 DEF MoneyInv, MoneyTyped
<1>8. BackInv' /\ SourceInv'
  BY <1>3 DEF MoneyInv, BackInv, SourceInv
<1>9. books.clearing \in Nat
  BY Amounts, MoneyFields DEF MoneyInv
<1>10. BooksBalance'
  BY <1>1, <1>3, <1>4, <1>5, <1>9, Amounts DEF BooksBalance
<1> QED BY <1>7, <1>8, <1>10 DEF MoneyInv, MoneyTyped

\* The money stands still.
LEMMA MoneyStands ==
  ASSUME MoneyInv, UNCHANGED money, order'.recorded = order.recorded
  PROVE  MoneyInv'
  BY DEF MoneyInv, MoneyTyped, BackInv, SourceInv, BooksBalance, Room, money

-----------------------------------------------------------------------------
(* The invariant.                                                          *)

\* All but the money and the types.
EndsInv == ShownIsExpected /\ GoodsInOnePlace /\ EndInv

LEMMA Parts == IInv <=> MoneyInv /\ RestTyped /\ EndsInv
  BY TypeParts DEF IInv, MoneyInv, EndsInv

LEMMA PartsNext == MoneyInv' /\ RestTyped' /\ EndsInv' => IInv'
  BY DEF IInv, MoneyInv, EndsInv, TypeOK, MoneyTyped, RestTyped

LEMMA RestFields ==
  ASSUME RestTyped
  PROVE  /\ order.status \in {"paid", "cancelled"} /\ order.recorded \in BOOLEAN
         /\ check.code \in Nat /\ check.wrong \in 0..Limit /\ check.collected \in BOOLEAN
         /\ shelf \in Nat
         /\ job.overdue \in BOOLEAN /\ job.listed \in BOOLEAN /\ job.fails \in 0..MaxFails
  BY DEF RestTyped

LEMMA InitIInv == Init => IInv
<1> SUFFICES ASSUME Init PROVE MoneyInv /\ RestTyped /\ EndsInv
  BY Parts
<1>1. /\ order.status = "paid" /\ order.recorded \in BOOLEAN
      /\ order \in [status : {"paid", "cancelled"}, recorded : BOOLEAN]
  BY DEF Init
<1>2. PICK code \in {NoCode, 1} :
        check = [code |-> code, wrong |-> 0, collected |-> FALSE, outcome |-> "none"]
  BY DEF Init
<1>3. /\ ~check.collected /\ shelf = 0 /\ released = FALSE
      /\ \A s \in Screens : shown[s] = NoCode
  BY <1>2 DEF Init
<1>4. back = [base |-> 0, fee |-> 0, customer |-> 0, whole |-> FALSE, of |-> {}]
  BY DEF Init
<1>5. FeeShare(Charged, Base, 0) = 0
  BY ShareOfNothing, Amounts
<1>6. /\ back.base = 0 /\ back.fee = 0 /\ back.customer = 0 /\ ~back.whole
      /\ Room = Base
  BY <1>4, Amounts DEF Room
<1>7. RestTyped
  BY <1>1, <1>2, Amounts DEF Init, RestTyped, NoCode
<1>8. /\ books.pending = IF order.recorded THEN Base ELSE 0
      /\ books.available = 0 /\ books.income = 0 /\ books.wallet = 0
      /\ books.clearing = IF order.recorded THEN Paid ELSE 0
      /\ books.promo = IF order.recorded THEN Discount ELSE 0
  BY <1>1 DEF Init
<1>9. MoneyTyped
  <2>1. back \in [base : 0..Base, fee : 0..Charged, customer : 0..Paid, whole : BOOLEAN,
                  of : SUBSET Disputes]
    BY <1>4, Amounts
  <2>2. /\ 0 \in 0..Base /\ Base \in 0..Base /\ 0 \in Int /\ 0 \in 0..Charged /\ 0 \in 0..Paid
        /\ 0 \in 0..Discount /\ Discount \in 0..Discount
    BY Amounts
  <2>3. books \in [pending : 0..Base, available : Int, income : 0..Charged, wallet : 0..Paid,
                   clearing : {0, Paid}, promo : 0..Discount]
    <3>1. CASE order.recorded
      <4>1. books = [pending |-> Base, available |-> 0, income |-> 0, wallet |-> 0,
                     clearing |-> Paid, promo |-> Discount]
        BY <3>1 DEF Init
      <4> QED BY <2>2, <4>1
    <3>2. CASE ~order.recorded
      <4>1. books = [pending |-> 0, available |-> 0, income |-> 0, wallet |-> 0,
                     clearing |-> 0, promo |-> 0]
        BY <3>2 DEF Init
      <4> QED BY <2>2, <4>1
    <3> QED BY <3>1, <3>2
  <2> QED BY <1>3, <2>1, <2>3 DEF MoneyTyped
<1>10. BackInv
  BY <1>5, <1>6, Amounts DEF BackInv
<1>11. SourceInv /\ BooksBalance
  <2>1. CASE order.recorded
    BY <1>3, <1>6, <1>8, <2>1, Amounts DEF SourceInv, BooksBalance
  <2>2. CASE ~order.recorded
    BY <1>3, <1>6, <1>8, <2>2, Amounts DEF SourceInv, BooksBalance
  <2> QED BY <2>1, <2>2
<1>12. EndsInv
  BY <1>1, <1>3, <1>6 DEF EndsInv, ShownIsExpected, GoodsInOnePlace, EndInv
<1> QED BY <1>7, <1>9, <1>10, <1>11, <1>12 DEF MoneyInv

-----------------------------------------------------------------------------
(* The steps.                                                              *)

\* Steps of the disputes and of the expiry that leave the order, its check and the money.
LEMMA QuietKeeps ==
  ASSUME IInv,
         \/ PickupWindowPasses \/ ExpiryReads \/ ExpireFails
         \/ \E d \in Disputes : Raise(d) \/ Reject(d) \/ ReReviewReads(d) \/ ReReviewSaves(d)
  PROVE  IInv'
<1>1. UNCHANGED <<order, check, shown, asking, money, shelf>>
  BY DEF PickupWindowPasses, ExpiryReads, ExpireFails, Raise, Reject, ReReviewReads, ReReviewSaves,
         pages
<1>2. MoneyInv'
  BY <1>1, MoneyStands, Parts
<1>3. EndsInv'
  BY <1>1, Parts DEF EndsInv, ShownIsExpected, GoodsInOnePlace, EndInv, money
<1>4. RestTyped'
  <2>1. RestTyped /\ job.fails \in 0..MaxFails
    BY Parts, RestFields
  <2>2. CASE PickupWindowPasses \/ ExpiryReads
    BY <1>1, <2>1, <2>2 DEF PickupWindowPasses, ExpiryReads, RestTyped, disputes
  <2>3. CASE ExpireFails
    <3>1. /\ job' = [job EXCEPT !.listed = FALSE, !.fails = @ + 1] /\ job.fails < MaxFails
          /\ UNCHANGED <<dispute, reopening>>
      BY <2>3 DEF ExpireFails, disputes
    <3>2. job.fails + 1 \in 0..MaxFails
      BY <2>1, <3>1, Amounts
    <3> QED BY <1>1, <2>1, <3>1, <3>2 DEF RestTyped
  <2>4. ASSUME NEW d \in Disputes, Raise(d) \/ Reject(d) \/ ReReviewReads(d) \/ ReReviewSaves(d)
        PROVE  RestTyped'
    BY <1>1, <2>1, <2>4 DEF Raise, Reject, ReReviewReads, ReReviewSaves, RestTyped
  <2> QED BY <2>2, <2>3, <2>4
<1> QED BY <1>2, <1>3, <1>4, PartsNext

\* A code once made stays; the pages are shown that one.
LEMMA CodeKeeps ==
  ASSUME IInv, (\E s \in Screens : ReadCode(s) \/ MakeCode(s)) \/ WrongCode
  PROVE  IInv'
<1>1. UNCHANGED <<order, dispute, reopening, money, shelf, job>>
  BY DEF ReadCode, MakeCode, WrongCode, disputes
<1>2. MoneyInv'
  BY <1>1, MoneyStands, Parts
<1>3. RestTyped /\ EndsInv /\ check.code \in Nat /\ check.wrong \in 0..Limit
  BY Parts, RestFields
<1>4. /\ CodeMade(check).code \in Nat /\ (check.code # NoCode => CodeMade(check).code = check.code)
      /\ CodeMade(check).collected = check.collected /\ CodeMade(check).wrong = check.wrong
      /\ CodeMade(check) \in [code : Nat, wrong : 0..Limit, collected : BOOLEAN,
                              outcome : {"none", "matches", "does_not_match", "unreachable"}]
  BY <1>3 DEF CodeMade, NewCode, RestTyped
<1>5. ASSUME NEW s \in Screens, ReadCode(s) PROVE IInv'
  <2>1. RestTyped'
    BY <1>1, <1>3, <1>5 DEF ReadCode, RestTyped
  <2>2. EndsInv'
    BY <1>1, <1>3, <1>5 DEF ReadCode, EndsInv, ShownIsExpected, GoodsInOnePlace, EndInv, money, RestTyped
  <2> QED BY <1>2, <2>1, <2>2, PartsNext
<1>6. ASSUME NEW s \in Screens, MakeCode(s) PROVE IInv'
  <2>1. RestTyped'
    BY <1>1, <1>3, <1>4, <1>6 DEF MakeCode, RestTyped
  <2>2. EndsInv'
    <3>1. \A t \in Screens : shown'[t] \in {NoCode, check'.code}
      BY <1>3, <1>4, <1>6 DEF MakeCode, EndsInv, ShownIsExpected, RestTyped
    <3>2. check'.collected = check.collected
      BY <1>4, <1>6 DEF MakeCode
    <3> QED BY <1>1, <1>3, <3>1, <3>2 DEF EndsInv, ShownIsExpected, GoodsInOnePlace, EndInv, money
  <2> QED BY <1>2, <2>1, <2>2, PartsNext
<1>7. CASE WrongCode
  <2>1. check' = [CodeMade(check) EXCEPT !.wrong = @ + 1] /\ check.wrong < Limit
        /\ UNCHANGED <<shown, asking>>
    BY <1>7 DEF WrongCode, AtDesk, pages
  <2>2. check.wrong + 1 \in 0..Limit
    BY <1>3, <2>1, Amounts
  <2>3. RestTyped'
    BY <1>1, <1>3, <1>4, <2>1, <2>2 DEF RestTyped
  <2>4. check'.code = CodeMade(check).code /\ check'.collected = check.collected
    BY <1>4, <2>1
  <2>5. \A t \in Screens : shown'[t] \in {NoCode, check'.code}
    BY <1>3, <1>4, <2>1, <2>4 DEF EndsInv, ShownIsExpected
  <2>6. EndsInv'
    BY <1>1, <1>3, <2>4, <2>5 DEF EndsInv, ShownIsExpected, GoodsInOnePlace, EndInv, money
  <2> QED BY <1>2, <2>3, <2>6, PartsNext
<1> QED BY <1>5, <1>6, <1>7

\* The hand-over, of an order neither cancelled nor wholly refunded.
LEMMA CollectKeeps ==
  ASSUME IInv, Collect
  PROVE  IInv'
<1>1. /\ UNCHANGED <<order, pages, disputes, money, shelf, job>>
      /\ check' = [check EXCEPT !.collected = TRUE] /\ order.status = "paid"
  BY DEF Collect, AtDesk, Waiting
<1>2. MoneyInv'
  BY <1>1, MoneyStands, Parts
<1>3. RestTyped'
  BY <1>1, Parts DEF RestTyped, pages, disputes
<1>4. check'.code = check.code /\ check'.collected
  BY <1>1, Parts DEF RestTyped
<1>5. EndsInv'
  BY <1>1, <1>4, Parts DEF EndsInv, ShownIsExpected, GoodsInOnePlace, EndInv, money, pages
<1> QED BY <1>2, <1>3, <1>5, PartsNext

\* A cancel of an order still at the desk, with all that is left given back.
LEMMA CancelKeeps ==
  ASSUME IInv, Waiting, Cancelled, AllGiven,
         UNCHANGED <<check, pages, disputes>>, RestTyped'
  PROVE  IInv'
<1>1. /\ order.status = "paid" /\ ~check.collected /\ shelf = 0 /\ ~released
      /\ order'.status = "cancelled" /\ order'.recorded = order.recorded /\ shelf' = 1
  BY Parts, RestFields DEF Waiting, Cancelled, EndsInv, GoodsInOnePlace, EndInv, RestTyped
<1>2. CASE order.recorded /\ PaidLeft > 0
  <2>1. Given(PaidLeft, {})
    BY <1>2 DEF AllGiven
  <2>2. MoneyInv' /\ released' = released /\ (back'.whole <=> IsWhole(PaidLeft))
    BY <1>1, <1>2, <2>1, GivenKeeps, Parts
  <2>3. back'.whole
    BY <2>2 DEF IsWhole
  <2>4. EndsInv'
    BY <1>1, <2>2, <2>3, Parts DEF EndsInv, ShownIsExpected, GoodsInOnePlace, EndInv, pages
  <2> QED BY <2>2, <2>4, PartsNext
<1>3. CASE ~(order.recorded /\ PaidLeft > 0)
  <2>1. UNCHANGED money
    BY <1>3 DEF AllGiven
  <2>2. MoneyInv'
    BY <1>1, <2>1, MoneyStands, Parts
  <2>3. order.recorded => back.whole
    <3>1. back.customer \in 0..Paid /\ back.whole \in BOOLEAN
      BY MoneyFields, Parts DEF MoneyInv
    <3> QED BY <1>3, <3>1, Parts, Amounts DEF MoneyInv, BackInv, PaidLeft
  <2>4. EndsInv'
    BY <1>1, <2>1, <2>3, Parts DEF EndsInv, ShownIsExpected, GoodsInOnePlace, EndInv, pages, money
  <2> QED BY <2>2, <2>4, PartsNext
<1> QED BY <1>2, <1>3

LEMMA CancelTypes ==
  ASSUME RestTyped, Cancelled
  PROVE  /\ order' \in [status : {"paid", "cancelled"}, recorded : BOOLEAN] /\ shelf' \in Nat
  BY DEF RestTyped, Cancelled

LEMMA CancelsKeep ==
  ASSUME IInv, SupportCancel \/ ExpireOne
  PROVE  IInv'
<1>1. RestTyped
  BY Parts
<1>2. CASE SupportCancel
  <2>1. /\ Waiting /\ Cancelled /\ AllGiven /\ UNCHANGED <<check, pages, disputes, job>>
    BY <1>2 DEF SupportCancel
  <2>2. RestTyped'
    BY <1>1, <2>1, CancelTypes DEF RestTyped, pages, disputes
  <2> QED BY <2>1, <2>2, CancelKeeps
<1>3. CASE ExpireOne /\ ToExpire
  <2>1. /\ Waiting /\ Cancelled /\ AllGiven /\ UNCHANGED <<check, pages, disputes>>
        /\ job' = [job EXCEPT !.listed = FALSE]
    BY <1>3 DEF ExpireOne, ToExpire
  <2>2. RestTyped'
    BY <1>1, <2>1, CancelTypes DEF RestTyped, pages, disputes
  <2> QED BY <2>1, <2>2, CancelKeeps
<1>4. CASE ExpireOne /\ ~ToExpire
  <2>1. /\ UNCHANGED <<order, check, pages, disputes, money, shelf>>
        /\ job' = [job EXCEPT !.listed = FALSE]
    BY <1>4 DEF ExpireOne
  <2>2. MoneyInv'
    BY <2>1, MoneyStands, Parts
  <2>3. RestTyped'
    BY <1>1, <2>1 DEF RestTyped, pages, disputes
  <2>4. EndsInv'
    BY <2>1, Parts DEF EndsInv, ShownIsExpected, GoodsInOnePlace, EndInv, pages, money
  <2> QED BY <2>2, <2>3, <2>4, PartsNext
<1> QED BY <1>2, <1>3, <1>4

\* Support's call: only a positive one moves the money.
LEMMA CallsKeep ==
  ASSUME IInv, CallMatches \/ CallDiffers \/ CallUnreachable
  PROVE  IInv'
<1>1. RestTyped /\ order.status = "paid" /\ ~released /\ check.collected
      /\ UNCHANGED <<order, pages, shelf, job, back>>
  BY Parts DEF CallMatches, CallDiffers, CallUnreachable, Settleable, money
<1>2. PICK result \in {"matches", "does_not_match", "unreachable"} :
        check' = [check EXCEPT !.outcome = result]
  BY DEF CallMatches, CallDiffers, CallUnreachable
<1>3. dispute' \in [Disputes -> {"none", "open", "resolved", "rejected"}] /\ reopening' \subseteq Disputes
  BY <1>1 DEF CallMatches, CallDiffers, CallUnreachable, RestTyped, disputes
<1>4. RestTyped'
  BY <1>1, <1>2, <1>3 DEF RestTyped, pages
<1>5. check'.code = check.code /\ check'.collected = check.collected
  BY <1>1, <1>2 DEF RestTyped
<1>6. CASE released'
  <2>1. order.recorded /\ ReleasePosted
    BY <1>1, <1>6 DEF CallMatches, CallDiffers, CallUnreachable, money
  <2>2. MoneyInv'
    BY <1>1, <1>6, <2>1, ReleaseKeeps, Parts
  <2>3. EndsInv'
    BY <1>1, <1>5, <2>1, Parts DEF EndsInv, ShownIsExpected, GoodsInOnePlace, EndInv, pages
  <2> QED BY <1>4, <2>2, <2>3, PartsNext
<1>7. CASE ~released'
  <2>1. UNCHANGED money
    <3>1. CASE CallMatches
      <4>1. released' \in BOOLEAN /\ UNCHANGED books
        BY <1>7, <3>1 DEF CallMatches
      <4>2. released \in BOOLEAN
        BY MoneyFields, Parts DEF MoneyInv
      <4> QED BY <1>1, <1>7, <4>1, <4>2 DEF money
    <3>2. CASE CallDiffers \/ CallUnreachable
      BY <3>2 DEF CallDiffers, CallUnreachable
    <3> QED BY <3>1, <3>2
  <2>2. MoneyInv'
    BY <1>1, <2>1, MoneyStands, Parts
  <2>3. EndsInv'
    BY <1>1, <1>5, <2>1, Parts DEF EndsInv, ShownIsExpected, GoodsInOnePlace, EndInv, pages, money
  <2> QED BY <1>4, <2>2, <2>3, PartsNext
<1> QED BY <1>6, <1>7

\* A resolution: nothing, a part, or all with the cancel of an order still at the desk.
LEMMA ResolveKeeps ==
  ASSUME IInv, NEW d \in Disputes, Resolve(d)
  PROVE  IInv'
<1>1. /\ UNCHANGED <<check, pages, reopening, job>>
      /\ dispute' = [dispute EXCEPT ![d] = "resolved"]
  BY DEF Resolve
<1>2. RestTyped /\ EndsInv /\ MoneyInv
  BY Parts
<1>3. dispute' \in [Disputes -> {"none", "open", "resolved", "rejected"}]
  BY <1>1, <1>2 DEF RestTyped
<1>4. CASE UNCHANGED <<order, money, shelf>>
  <2>1. MoneyInv'
    BY <1>2, <1>4, MoneyStands
  <2>2. RestTyped'
    BY <1>1, <1>2, <1>3, <1>4 DEF RestTyped, pages
  <2>3. EndsInv'
    BY <1>1, <1>2, <1>4 DEF EndsInv, ShownIsExpected, GoodsInOnePlace, EndInv, pages, money
  <2> QED BY <2>1, <2>2, <2>3, PartsNext
<1>5. ASSUME order.recorded, NEW amount \in 1..PaidLeft, Given(amount, {d}),
             IF IsWhole(amount) THEN CancelIfNotHandedOver ELSE UNCHANGED <<order, shelf>>
      PROVE  IInv'
  <2>1. (Cancelled /\ Waiting /\ IsWhole(amount)) \/ UNCHANGED <<order, shelf>>
    BY <1>5 DEF CancelIfNotHandedOver
  <2>2. order'.recorded = order.recorded
    BY <1>2, <2>1 DEF Cancelled, RestTyped
  <2>3. MoneyInv' /\ released' = released /\ ~back.whole /\ (back'.whole <=> IsWhole(amount))
    BY <1>2, <1>5, <2>2, GivenKeeps
  <2>4. RestTyped'
    BY <1>1, <1>2, <1>3, <2>1, CancelTypes DEF RestTyped, pages
  <2>5. CASE Cancelled /\ Waiting /\ IsWhole(amount)
    <3>1. /\ order'.status = "cancelled" /\ shelf = 0 /\ shelf' = 1 /\ ~check.collected /\ ~released
      BY <1>2, <2>5 DEF Cancelled, Waiting, RestTyped, EndsInv, GoodsInOnePlace, EndInv
    <3>2. EndsInv'
      BY <1>1, <1>2, <2>3, <2>5, <3>1 DEF EndsInv, ShownIsExpected, GoodsInOnePlace, EndInv, pages
    <3> QED BY <2>3, <2>4, <3>2, PartsNext
  <2>6. CASE UNCHANGED <<order, shelf>>
    <3>1. back'.whole => check.collected \/ order.status = "cancelled"
      <4>1. CASE Waiting
        <5>1. ~IsWhole(amount)
          BY <1>2, <1>5, <2>6, <4>1, RestFields
             DEF CancelIfNotHandedOver, Cancelled, EndsInv, GoodsInOnePlace
        <5> QED BY <2>3, <5>1
      <4>2. CASE ~Waiting
        BY <1>2, <4>2, RestFields DEF Waiting
      <4> QED BY <4>1, <4>2
    <3>2. order.status # "cancelled"
      BY <1>2, <1>5, <2>3 DEF EndsInv, EndInv
    <3>3. EndsInv'
      BY <1>1, <1>2, <2>3, <2>6, <3>1, <3>2 DEF EndsInv, ShownIsExpected, GoodsInOnePlace, EndInv, pages
    <3> QED BY <2>3, <2>4, <3>3, PartsNext
  <2> QED BY <2>1, <2>5, <2>6
<1> QED BY <1>4, <1>5 DEF Resolve

LEMMA NextIInv == IInv /\ [Next]_vars => IInv'
<1> SUFFICES ASSUME IInv, [Next]_vars PROVE IInv'
  OBVIOUS
<1>1. CASE (\E s \in Screens : ReadCode(s) \/ MakeCode(s)) \/ WrongCode
  BY <1>1, CodeKeeps
<1>2. CASE Collect
  BY <1>2, CollectKeeps
<1>3. CASE SupportCancel \/ ExpireOne
  BY <1>3, CancelsKeep
<1>4. CASE CallMatches \/ CallDiffers \/ CallUnreachable
  BY <1>4, CallsKeep
<1>5. ASSUME NEW d \in Disputes, Resolve(d) PROVE IInv'
  BY <1>5, ResolveKeeps
<1>6. CASE \/ PickupWindowPasses \/ ExpiryReads \/ ExpireFails
           \/ \E d \in Disputes : Raise(d) \/ Reject(d) \/ ReReviewReads(d) \/ ReReviewSaves(d)
  BY <1>6, QuietKeeps
<1>7. CASE UNCHANGED vars
  <2>1. UNCHANGED <<order, check, shown, asking, dispute, reopening, money, shelf, job>>
    BY <1>7 DEF vars, pages, disputes
  <2>2. MoneyInv'
    BY <2>1, MoneyStands, Parts
  <2>3. RestTyped' /\ EndsInv'
    BY <2>1, Parts DEF RestTyped, EndsInv, ShownIsExpected, GoodsInOnePlace, EndInv, money
  <2> QED BY <2>2, <2>3, PartsNext
<1> QED BY <1>1, <1>2, <1>3, <1>4, <1>5, <1>6, <1>7 DEF Next

-----------------------------------------------------------------------------
(* The theorems.                                                           *)

\* The invariant holds throughout (every operation of ledger.verification on one order).
THEOREM Inductive == Spec => []IInv
  BY InitIInv, NextIInv, PTL DEF Spec

\* Every variable stays in its type, for all amounts: no account of the order goes below
\* zero before its release, nor is more given back than was paid.
THEOREM TypesHold == Spec => []TypeOK
<1>1. IInv => TypeOK
  BY DEF IInv
<1> QED BY <1>1, Inductive, PTL

\* Whatever pages ask for the code and when, they show the one the desk expects.
THEOREM OneCode == Spec => []ShownIsExpected
<1>1. IInv => ShownIsExpected
  BY DEF IInv
<1> QED BY <1>1, Inductive, PTL

\* Customer, desk or shelf: the goods of an order are in one of them, once.
THEOREM OnePlace == Spec => []GoodsInOnePlace
<1>1. IInv => GoodsInOnePlace
  BY DEF IInv
<1> QED BY <1>1, Inductive, PTL

\* Whoever cancels an order, and whatever was refunded before, all of it went back.
THEOREM CancelGivesAllBack == Spec => []CancelledIsRefunded
<1>1. IInv => CancelledIsRefunded
  <2> SUFFICES ASSUME IInv, order.status = "cancelled", order.recorded
               PROVE  back.customer = Paid /\ books.pending = 0
    BY DEF CancelledIsRefunded
  <2>1. back.whole
    BY DEF IInv, EndInv
  <2>2. back.base = Base /\ back.customer = Paid
    BY <2>1 DEF IInv, BackInv
  <2>3. Room = 0
    BY <2>2, Amounts DEF Room
  <2> QED BY <2>2, <2>3 DEF IInv, BooksBalance
<1> QED BY <1>1, Inductive, PTL

\* The books balance through every order of refunds and release.
THEOREM BooksAgree == Spec => []BooksBalance
<1>1. IInv => BooksBalance
  BY DEF IInv
<1> QED BY <1>1, Inductive, PTL

\* The desk never hands over what was paid back in full.
THEOREM NoGoodsAfterRefund == Spec => NoGoodsAfterMoney
<1>1. IInv /\ [Next]_vars => [~check.collected /\ check'.collected /\ order.recorded => PaidLeft > 0]_vars
  <2> SUFFICES ASSUME IInv, Next, ~check.collected, check'.collected, order.recorded
               PROVE  PaidLeft > 0
    OBVIOUS
  <2>1. order.status = "paid"
    <3>1. CASE Collect
      BY <3>1 DEF Collect, AtDesk, Waiting
    <3>2. check'.collected = check.collected \/ Collect
      <4>1. RestTyped
        BY Parts
      <4>2. CodeMade(check).collected = check.collected
        BY <4>1 DEF CodeMade, NewCode, RestTyped
      <4>3. ASSUME WrongCode PROVE check'.collected = check.collected
        <5>1. CodeMade(check) \in [code : Nat, wrong : 0..Limit, collected : BOOLEAN,
                                  outcome : {"none", "matches", "does_not_match", "unreachable"}]
          BY <4>1, RestFields DEF CodeMade, NewCode, RestTyped
        <5> QED BY <4>2, <4>3, <5>1 DEF WrongCode
      <4>4. ASSUME NEW s \in Screens, ReadCode(s) \/ MakeCode(s)
            PROVE  check'.collected = check.collected
        BY <4>2, <4>4 DEF ReadCode, MakeCode
      <4>5. ASSUME CallMatches \/ CallDiffers \/ CallUnreachable
            PROVE  check'.collected = check.collected
        BY <4>1, <4>5 DEF CallMatches, CallDiffers, CallUnreachable, RestTyped
      <4>6. ASSUME \/ SupportCancel \/ ExpireOne \/ PickupWindowPasses \/ ExpiryReads \/ ExpireFails
                   \/ \E d \in Disputes : Raise(d) \/ Resolve(d) \/ Reject(d)
                                          \/ ReReviewReads(d) \/ ReReviewSaves(d)
            PROVE  check' = check
        BY <4>6 DEF SupportCancel, ExpireOne, PickupWindowPasses, ExpiryReads, ExpireFails, Raise,
           Resolve, Reject, ReReviewReads, ReReviewSaves
      <4> QED BY <4>3, <4>4, <4>5, <4>6 DEF Next
    <3> QED BY <3>1, <3>2
  <2>2. ~back.whole
    BY <2>1, RestFields, Parts DEF EndsInv, EndInv
  <2>3. back.customer < Paid /\ back.customer \in 0..Paid
    BY <2>2, MoneyFields, Parts DEF MoneyInv, BackInv
  <2> QED BY <2>3, Amounts DEF PaidLeft
<1> QED BY <1>1, Inductive, PTL DEF NoGoodsAfterMoney, Spec

\* The business's money goes out for goods taken, with no dispute open, and not in a refund.
THEOREM PaidRightly == Spec => PaidForGoodsTaken
<1>1. IInv /\ [Next]_vars =>
        [~released /\ released' => check.collected /\ ~InDispute /\ back' = back]_vars
  <2> SUFFICES ASSUME IInv, Next, ~released, released'
               PROVE  check.collected /\ ~InDispute /\ back' = back
    OBVIOUS
  <2>1. CallMatches
    <3>1. ASSUME SupportCancel \/ ExpireOne PROVE released' = released
      BY <3>1 DEF SupportCancel, ExpireOne, AllGiven, Given, money
    <3>2. ASSUME NEW d \in Disputes, Resolve(d) PROVE released' = released
      BY <3>2 DEF Resolve, Given, money
    <3>3. ASSUME \/ WrongCode \/ Collect \/ CallDiffers \/ CallUnreachable
                 \/ PickupWindowPasses \/ ExpiryReads \/ ExpireFails
                 \/ \E s \in Screens : ReadCode(s) \/ MakeCode(s)
                 \/ \E d \in Disputes : Raise(d) \/ Reject(d) \/ ReReviewReads(d) \/ ReReviewSaves(d)
          PROVE  released' = released
      BY <3>3 DEF WrongCode, Collect, CallDiffers, CallUnreachable, PickupWindowPasses, ExpiryReads,
         ExpireFails, ReadCode, MakeCode, Raise, Reject, ReReviewReads, ReReviewSaves, money
    <3> QED BY <3>1, <3>2, <3>3 DEF Next
  <2> QED BY <2>1 DEF CallMatches, Settleable
<1> QED BY <1>1, Inductive, PTL DEF PaidForGoodsTaken, Spec
=============================================================================
