-------------------------- MODULE BookingSaleProofs --------------------------
(***************************************************************************)
(* For any price, fee, payment charge and set of tickets: the books of a   *)
(* booking balance, the fee kept is its share of what the business keeps,  *)
(* a cancelled booking is never received, a cancelled purchase's tickets   *)
(* give everything back and nothing is paid out under an open dispute.     *)
(***************************************************************************)
EXTENDS BookingSale, MoneyLemmas

\* The status of a booking of each kind, and the policy tickets are sold under.
SubjectInv ==
  /\ kind = "service" => subject \in {"accepted", "in_progress", "completed", "cancelled"}
  /\ kind = "stay" => subject \in {"pending", "confirmed", "checked_in", "checked_out", "cancelled"}
  /\ kind = "tickets" => subject \in {"wanted", "bought"} /\ policy = "flexible"
  /\ sale.paid => subject \notin {"accepted", "pending", "wanted"}
  /\ left # {} => kind = "tickets"

\* Before the payment there is nothing to refund, report, call about or release.
UnpaidInv ==
  ~sale.paid =>
    /\ sale.refBase = 0 /\ sale.charge = 0 /\ ~sale.released
    /\ books.clearing = 0
    /\ refunded = {} /\ left = {}
    /\ dispute = "none" /\ ~reopening
    /\ given = [s \in Sources |-> NoRefund]

\* The fee refunded is the share of the base refunded; what is left of it was kept.
FeeInv ==
  /\ sale.refFee = FeeShare(Charged, Base, sale.refBase)
  /\ books.income = IF sale.released THEN Charged - sale.refFee ELSE 0
  /\ sale.reversed <=> sale.refBase = Base

\* Every ticket marked refunded gave back its price, or nothing was left.
TicketInv ==
  kind = "tickets" => sale.refBase = Base \/ sale.refBase >= Price * Cardinality(refunded)

IInv ==
  /\ TypeOK /\ SubjectInv /\ UnpaidInv /\ FeeInv /\ BooksBalance /\ TicketInv
  /\ NegativeCallHasADispute /\ MatchesIsReleased /\ CancelledIsNotReceived

\* The types of the money's variables, and of the others.
MoneyTyped ==
  /\ sale \in [paid : BOOLEAN, charge : {0, Processing}, refBase : 0..Base, refFee : 0..Charged,
               released : BOOLEAN, reversed : BOOLEAN,
               outcome : {"", "matches", "does_not_match", "unreachable"}]
  /\ given \in [Sources -> [amount : 0..Base, fee : 0..Charged, processing : 0..Processing]]
  /\ books \in [pending : 0..Base, available : Int, income : 0..Charged, wallet : Int,
                clearing : {0, Base}, providerFees : 0..sale.charge]

RestTyped ==
  /\ kind \in Kinds /\ policy \in DOMAIN Tiers
  /\ subject \in {Payable[kind], Paid[kind], "completed", "checked_in", "checked_out", "cancelled"}
  /\ delivered \subseteq Tickets /\ refunded \subseteq Tickets /\ left \subseteq Tickets
  /\ event \in {"approved", "pending", "rejected", "cancelled"}
  /\ clock \in Times
  /\ dispute \in {"none", "open", "resolved", "rejected"}
  /\ call \in {"idle", "clean", "linked"}
  /\ candidate \in BOOLEAN /\ reopening \in BOOLEAN /\ sendingBack \in BOOLEAN

LEMMA TypeParts == TypeOK <=> MoneyTyped /\ RestTyped
  BY DEF TypeOK, MoneyTyped, RestTyped

-----------------------------------------------------------------------------
(* The fee's share.                                                        *)

LEMMA Amounts ==
  Base \in Nat \ {0} /\ Charged \in Nat /\ Charged <= Base /\ Processing \in Nat
  BY PriceAssumption, FeeAssumption

USE Amounts

LEMMA FeeShareType ==
  ASSUME NEW r \in 0..Base
  PROVE  FeeShare(Charged, Base, r) \in 0..Charged
  BY ShareType

LEMMA FeeShareMonotone ==
  ASSUME NEW r \in 0..Base, NEW s \in 0..Base, r <= s
  PROVE  FeeShare(Charged, Base, r) <= FeeShare(Charged, Base, s)
  BY ShareMonotone

\* What is left of the fee is its share of what is left of the price, to half a unit.
LEMMA FeeShareNear ==
  ASSUME NEW r \in 0..Base
  PROVE  LET off == 2 * ((Charged - FeeShare(Charged, Base, r)) * Base - Charged * (Base - r))
         IN  -Base <= off /\ off <= Base
<1>1. CASE r = Base
  <2>1. Charged - FeeShare(Charged, Base, r) = 0 /\ Base - r = 0
    BY <1>1 DEF FeeShare
  <2>2. 0 * Base = 0 /\ Charged * 0 = 0
    OBVIOUS
  <2> QED BY <2>1, <2>2
<1>2. CASE r < Base
  <2> DEFINE n == Charged * r
             h == HalfUp(n, Base)
  <2>1. n \in Nat
    OBVIOUS
  <2> HIDE DEF n
  <2>2. h \in Nat /\ -Base <= 2 * n - 2 * (h * Base) /\ 2 * n - 2 * (h * Base) <= Base
    BY <2>1, HalfUpNear
  <2>3. FeeShare(Charged, Base, r) = h
    BY <1>2 DEF FeeShare, n
  <2> HIDE DEF h
  <2>4. (Charged - h) * Base = Charged * Base - h * Base
    BY <2>2
  <2>5. Charged * (Base - r) = Charged * Base - n
    BY DEF n
  <2>6. Charged * Base \in Nat /\ h * Base \in Nat
    BY <2>2
  <2> QED BY <2>1, <2>2, <2>3, <2>4, <2>5, <2>6
<1> QED BY <1>1, <1>2

\* Amounts the refunds come to.
LEMMA ChargeShareType ==
  ASSUME NEW c \in Nat, NEW rest \in 0..c, NEW amount \in 0..Base
  PROVE  ChargeShare(c, rest, amount, Base) \in 0..rest
<1>1. HalfUp(c * amount, Base) \in Nat
  BY HalfUpBounded
<1> QED BY <1>1 DEF ChargeShare, AtMost

-----------------------------------------------------------------------------
(* The money's steps.                                                      *)

\* The types of the money's fields.
LEMMA MoneyFields ==
  ASSUME MoneyTyped
  PROVE  /\ sale.paid \in BOOLEAN /\ sale.released \in BOOLEAN /\ sale.reversed \in BOOLEAN
         /\ sale.charge \in Nat /\ sale.charge <= Processing /\ sale.charge \in {0, Processing}
         /\ sale.refBase \in 0..Base /\ sale.refFee \in 0..Charged
         /\ books.pending \in 0..Base /\ books.available \in Int /\ books.income \in 0..Charged
         /\ books.wallet \in Int /\ books.clearing \in {0, Base}
         /\ books.providerFees \in 0..sale.charge
<1>1. /\ sale.paid \in BOOLEAN /\ sale.released \in BOOLEAN /\ sale.reversed \in BOOLEAN
      /\ sale.charge \in {0, Processing}
      /\ sale.refBase \in 0..Base /\ sale.refFee \in 0..Charged
  BY DEF MoneyTyped
<1>2. /\ books.pending \in 0..Base /\ books.available \in Int /\ books.income \in 0..Charged
      /\ books.wallet \in Int /\ books.clearing \in {0, Base}
      /\ books.providerFees \in 0..sale.charge
  BY DEF MoneyTyped
<1> QED BY <1>1, <1>2

\* A refund's row, and what it leaves.
LEMMA RefundRow ==
  ASSUME MoneyTyped, FeeInv, NEW amount \in 1..Room, NEW fault \in BOOLEAN
  PROVE  LET r == RefundOf(amount, fault) IN
         /\ r.amount = amount
         /\ sale.refBase + amount \in 0..Base
         /\ sale.refFee + r.fee = FeeShare(Charged, Base, sale.refBase + amount)
         /\ r.fee \in 0..Charged /\ sale.refFee + r.fee \in 0..Charged
         /\ r.processing \in 0..(sale.charge - books.providerFees)
         /\ r \in [amount : 0..Base, fee : 0..Charged, processing : 0..Processing]
<1> DEFINE r == RefundOf(amount, fault)
           f == FeeShare(Charged, Base, sale.refBase + amount)
           rest == sale.charge - books.providerFees
<1>1. /\ sale.refBase \in 0..Base /\ sale.refFee \in 0..Charged
      /\ sale.charge \in Nat /\ sale.charge <= Processing
      /\ books.providerFees \in 0..sale.charge
  BY MoneyFields
<1>2. amount \in 0..Base /\ sale.refBase + amount \in 0..Base
  BY <1>1 DEF Room
<1>3. f \in 0..Charged /\ sale.refFee <= f
  BY <1>1, <1>2, FeeShareType, FeeShareMonotone DEF FeeInv
<1>4. rest \in 0..sale.charge
  BY <1>1
<1>5. ChargeShare(sale.charge, rest, amount, Base) \in 0..rest
  BY <1>1, <1>2, <1>4, ChargeShareType
<1>6. r.amount = amount /\ r.fee = f - sale.refFee
  BY DEF RefundOf
<1>7. r.processing \in 0..rest
  BY <1>4, <1>5 DEF RefundOf
<1>8. r = [amount |-> r.amount, fee |-> r.fee, processing |-> r.processing]
  BY DEF RefundOf
<1> HIDE DEF r, f
<1> QED BY <1>1, <1>2, <1>3, <1>4, <1>6, <1>7, <1>8 DEF r, f

\* A refund keeps the types of the money, the fee's share and the books.
LEMMA RefundKeeps ==
  ASSUME MoneyTyped, FeeInv, BooksBalance, sale.paid,
         NEW amount \in 1..Room, NEW source \in Sources, NEW fault \in BOOLEAN,
         Refund(amount, source, fault)
  PROVE  /\ MoneyTyped' /\ FeeInv' /\ BooksBalance'
         /\ sale'.refBase = sale.refBase + amount
         /\ sale'.paid /\ sale'.released = sale.released /\ sale'.outcome = sale.outcome
         /\ \A s \in Sources \ {source} : given'[s] = given[s]
<1> DEFINE r == RefundOf(amount, fault)
<1>1. /\ r.amount = amount
      /\ sale.refBase + amount \in 0..Base
      /\ sale.refFee + r.fee = FeeShare(Charged, Base, sale.refBase + amount)
      /\ r.fee \in 0..Charged /\ sale.refFee + r.fee \in 0..Charged
      /\ r.processing \in 0..(sale.charge - books.providerFees)
      /\ r \in [amount : 0..Base, fee : 0..Charged, processing : 0..Processing]
  BY RefundRow
<1>2. /\ sale' = [sale EXCEPT !.refBase = @ + r.amount, !.refFee = @ + r.fee,
                              !.reversed = (amount = Room)]
      /\ given' = [given EXCEPT ![source] = r]
      /\ books' = [books EXCEPT !.pending = @ - (IF sale.released THEN 0 ELSE r.amount),
                                !.available = @ - (IF sale.released THEN r.amount - r.fee ELSE 0),
                                !.income = @ - (IF sale.released THEN r.fee ELSE 0),
                                !.providerFees = @ + r.processing,
                                !.wallet = @ + r.amount + r.processing]
  BY DEF Refund, BooksAfter
<1> HIDE DEF r
<1>3. /\ sale'.refBase = sale.refBase + amount /\ sale'.refFee = sale.refFee + r.fee
      /\ sale'.charge = sale.charge
  BY <1>1, <1>2 DEF MoneyTyped
<1>t. /\ sale'.reversed <=> amount = Room
      /\ sale'.paid /\ sale'.released = sale.released /\ sale'.outcome = sale.outcome
  BY <1>1, <1>2 DEF MoneyTyped
<1>s. sale' \in [paid : BOOLEAN, charge : {0, Processing}, refBase : 0..Base, refFee : 0..Charged,
                 released : BOOLEAN, reversed : BOOLEAN,
                 outcome : {"", "matches", "does_not_match", "unreachable"}]
  BY <1>1, <1>2 DEF MoneyTyped
<1>4. /\ given' \in [Sources -> [amount : 0..Base, fee : 0..Charged, processing : 0..Processing]]
      /\ \A s \in Sources \ {source} : given'[s] = given[s]
  BY <1>1, <1>2 DEF MoneyTyped
<1>5. /\ books.pending \in 0..Base /\ books.available \in Int /\ books.income \in 0..Charged
      /\ books.wallet \in Int /\ books.clearing \in {0, Base}
      /\ books.providerFees \in 0..sale.charge /\ sale.charge \in Nat
      /\ sale.refBase \in 0..Base /\ sale.refFee \in 0..Charged /\ sale.released \in BOOLEAN
  BY MoneyFields
<1>p. /\ sale.released => /\ books'.pending = books.pending
                          /\ books'.available = books.available - (amount - r.fee)
                          /\ books'.income = books.income - r.fee
      /\ ~sale.released => /\ books'.pending = books.pending - amount
                           /\ books'.available = books.available
                           /\ books'.income = books.income
  <2>1. /\ books.pending - 0 = books.pending /\ books.available - 0 = books.available
        /\ books.income - 0 = books.income
    BY <1>5
  <2> QED BY <1>1, <1>2, <2>1 DEF MoneyTyped
<1>6. /\ books'.providerFees = books.providerFees + r.processing
      /\ books'.wallet = books.wallet + amount + r.processing
      /\ books'.clearing = books.clearing
  BY <1>1, <1>2 DEF MoneyTyped
<1>r. books' = [pending |-> books'.pending, available |-> books'.available,
                income |-> books'.income, wallet |-> books'.wallet,
                clearing |-> books'.clearing, providerFees |-> books'.providerFees]
  BY <1>2 DEF MoneyTyped
<1>n. /\ amount \in Int /\ r.fee \in Int /\ r.processing \in Int /\ sale.refBase + amount \in 0..Base
      /\ sale.refFee + r.fee \in 0..Charged
      /\ books.providerFees + r.processing \in 0..sale.charge
  BY <1>1, <1>5
<1>i. /\ books.pending \in Int /\ books.available \in Int /\ books.income \in Int
      /\ books.wallet \in Int /\ books.clearing \in Int /\ books.providerFees \in Int
      /\ sale.refBase \in Int /\ sale.refFee \in Int
      /\ amount \in Int /\ r.fee \in Int /\ r.processing \in Int
  BY <1>5, <1>n
<1>f. /\ sale'.refFee = FeeShare(Charged, Base, sale'.refBase)
      /\ sale'.reversed <=> sale'.refBase = Base
  BY <1>1, <1>3, <1>5, <1>n, <1>t DEF Room
<1>7. ASSUME sale.released
      PROVE  /\ FeeInv' /\ BooksBalance'
             /\ books'.pending \in 0..Base /\ books'.available \in Int /\ books'.income \in 0..Charged
  <2>1. /\ books.pending = 0 /\ books.available + books.income = Base - sale.refBase
        /\ books.pending + books.available + books.income + books.wallet
             = books.clearing + books.providerFees
        /\ books.income = Charged - sale.refFee
    BY <1>7 DEF BooksBalance, FeeInv, Room
  <2>2. /\ books'.pending = 0 /\ books'.available = books.available - (amount - r.fee)
        /\ books'.income = books.income - r.fee
    BY <1>p, <1>7, <2>1
  <2>3. books'.income = Charged - sale'.refFee /\ books'.income \in 0..Charged
    <3>1. Charged - sale.refFee - r.fee = Charged - (sale.refFee + r.fee)
      BY <1>i
    <3>2. Charged - (sale.refFee + r.fee) \in 0..Charged
      BY <1>n
    <3> QED BY <1>3, <2>1, <2>2, <3>1, <3>2
  <2>4. books'.available + books'.income = Base - sale'.refBase /\ books'.available \in Int
    <3>1. (books.available - (amount - r.fee)) + (books.income - r.fee)
            = (books.available + books.income) - amount
      BY <1>i
    <3>2. (Base - sale.refBase) - amount = Base - (sale.refBase + amount)
      BY <1>i
    <3> QED BY <1>3, <1>i, <2>1, <2>2, <3>1, <3>2
  <2>5. books'.pending + books'.available + books'.income + books'.wallet
          = books'.clearing + books'.providerFees
    <3>1. 0 + (books.available - (amount - r.fee)) + (books.income - r.fee)
              + (books.wallet + amount + r.processing)
            = (0 + books.available + books.income + books.wallet) + r.processing
      BY <1>i
    <3>2. (0 + books.available + books.income + books.wallet) + r.processing
            = books.clearing + (books.providerFees + r.processing)
      BY <1>i, <2>1
    <3> QED BY <1>6, <2>2, <3>1, <3>2
  <2>6. FeeInv'
    BY <1>t, <1>7, <1>f, <2>3 DEF FeeInv
  <2>7. BooksBalance'
    BY <1>t, <1>7, <2>2, <2>4, <2>5 DEF BooksBalance, Room
  <2> QED BY <2>2, <2>3, <2>4, <2>6, <2>7
<1>8. ASSUME ~sale.released
      PROVE  /\ FeeInv' /\ BooksBalance'
             /\ books'.pending \in 0..Base /\ books'.available \in Int /\ books'.income \in 0..Charged
  <2>1. /\ books.pending = Base - sale.refBase /\ books.available + books.income = 0
        /\ books.pending + books.available + books.income + books.wallet
             = books.clearing + books.providerFees
        /\ books.income = 0
    BY <1>8 DEF BooksBalance, FeeInv, Room
  <2>2. /\ books'.pending = Base - sale'.refBase /\ books'.pending \in 0..Base
        /\ books'.available = books.available /\ books'.income = 0
    BY <1>3, <1>5, <1>p, <1>8, <1>n, <2>1
  <2>3. books'.available + books'.income = 0 /\ books'.available \in Int
    BY <1>5, <2>1, <2>2
  <2>4. books'.pending + books'.available + books'.income + books'.wallet
          = books'.clearing + books'.providerFees
    <3>1. books'.pending = books.pending - amount /\ books'.income = books.income
      BY <1>p, <1>8
    <3> QED BY <1>i, <1>6, <2>1, <2>2, <3>1
  <2>5. FeeInv'
    BY <1>t, <1>8, <1>f, <2>2 DEF FeeInv
  <2>6. BooksBalance'
    BY <1>t, <1>8, <2>2, <2>3, <2>4 DEF BooksBalance, Room
  <2> QED BY <2>2, <2>3, <2>5, <2>6
<1>9. /\ FeeInv' /\ BooksBalance'
      /\ books'.pending \in 0..Base /\ books'.available \in Int /\ books'.income \in 0..Charged
  BY <1>5, <1>7, <1>8
<1>10. /\ books'.wallet \in Int /\ books'.clearing \in {0, Base}
       /\ books'.providerFees \in 0..sale'.charge
  BY <1>3, <1>5, <1>6, <1>n
<1>11. books' \in [pending : 0..Base, available : Int, income : 0..Charged, wallet : Int,
                   clearing : {0, Base}, providerFees : 0..sale'.charge]
  BY <1>9, <1>10, <1>r
<1>12. MoneyTyped'
  BY <1>4, <1>11, <1>s DEF MoneyTyped
<1> QED BY <1>3, <1>t, <1>4, <1>9, <1>12

\* A release keeps them too, and no refund was lost by it.
LEMMA ReleaseKeeps ==
  ASSUME MoneyTyped, FeeInv, BooksBalance, Open, Released, UNCHANGED given
  PROVE  /\ MoneyTyped' /\ FeeInv' /\ BooksBalance'
         /\ sale'.refBase = sale.refBase
         /\ sale'.paid /\ sale'.released /\ sale'.outcome = "matches"
<1>1. /\ books.pending \in 0..Base /\ books.available \in Int /\ books.income \in 0..Charged
      /\ books.wallet \in Int /\ books.clearing \in {0, Base}
      /\ books.providerFees \in 0..sale.charge /\ sale.charge \in Nat
      /\ sale.refBase \in 0..Base /\ sale.refFee \in 0..Charged /\ sale.released \in BOOLEAN
  BY MoneyFields
<1>2. /\ sale' = [sale EXCEPT !.released = TRUE, !.outcome = "matches"]
      /\ books' = [books EXCEPT !.pending = @ - Room,
                                !.income = @ + (Charged - sale.refFee),
                                !.available = @ + Room - (Charged - sale.refFee)]
  BY DEF Released
<1>3. /\ sale' \in [paid : BOOLEAN, charge : {0, Processing}, refBase : 0..Base, refFee : 0..Charged,
                    released : BOOLEAN, reversed : BOOLEAN,
                    outcome : {"", "matches", "does_not_match", "unreachable"}]
      /\ sale'.refBase = sale.refBase /\ sale'.refFee = sale.refFee
      /\ sale'.reversed = sale.reversed /\ sale'.charge = sale.charge
      /\ sale'.paid /\ sale'.released /\ sale'.outcome = "matches"
  BY <1>2 DEF MoneyTyped, Open
<1>4. /\ books'.pending = books.pending - (Base - sale.refBase)
      /\ books'.income = books.income + (Charged - sale.refFee)
      /\ books'.available = books.available + (Base - sale.refBase) - (Charged - sale.refFee)
      /\ books'.providerFees = books.providerFees /\ books'.wallet = books.wallet
      /\ books'.clearing = books.clearing
  BY <1>2 DEF MoneyTyped, Room
<1>r. books' = [pending |-> books'.pending, available |-> books'.available,
                income |-> books'.income, wallet |-> books'.wallet,
                clearing |-> books'.clearing, providerFees |-> books'.providerFees]
  BY <1>2 DEF MoneyTyped
<1>a. /\ books.pending = Base - sale.refBase /\ books.available + books.income = 0
      /\ books.income = 0
      /\ books.pending + books.available + books.income + books.wallet
           = books.clearing + books.providerFees
      /\ sale.refFee = FeeShare(Charged, Base, sale.refBase)
      /\ sale.reversed <=> sale.refBase = Base
  BY DEF BooksBalance, FeeInv, Open, Room
<1>5. /\ books'.pending = 0 /\ books'.available \in Int
      /\ books'.available + books'.income = Base - sale'.refBase
      /\ books'.pending + books'.available + books'.income + books'.wallet
           = books'.clearing + books'.providerFees
      /\ books'.income = Charged - sale'.refFee /\ books'.income \in 0..Charged
  <2>1. books'.pending = 0
    BY <1>1, <1>4, <1>a
  <2>2. books'.income = Charged - sale.refFee /\ books'.income \in 0..Charged
    BY <1>1, <1>4, <1>a
  <2>3. /\ books.available = 0
        /\ books'.available = (Base - sale.refBase) - (Charged - sale.refFee)
        /\ books'.available \in Int
    BY <1>1, <1>4, <1>a
  <2>4. (Base - sale.refBase) + books.wallet = books.clearing + books.providerFees
    BY <1>1, <1>a
  <2>5. books'.available + books'.income = Base - sale.refBase
    BY <1>1, <2>2, <2>3
  <2>6. 0 + (Base - sale.refBase) + books.wallet = books'.clearing + books'.providerFees
    BY <1>1, <1>4, <2>4
  <2>7. books'.pending + books'.available + books'.income = Base - sale.refBase
    BY <1>1, <2>1, <2>2, <2>3, <2>5
  <2> QED BY <1>3, <1>4, <2>1, <2>2, <2>3, <2>4, <2>5, <2>6, <2>7
<1>b. BooksBalance'
  BY <1>3, <1>5 DEF BooksBalance, Room
<1>6. FeeInv'
  BY <1>3, <1>5, <1>a DEF FeeInv
<1>7. MoneyTyped'
  <2>1. given' \in [Sources -> [amount : 0..Base, fee : 0..Charged, processing : 0..Processing]]
    BY DEF MoneyTyped
  <2>2. books' \in [pending : 0..Base, available : Int, income : 0..Charged, wallet : Int,
                    clearing : {0, Base}, providerFees : 0..sale'.charge]
    <3>1. books'.pending \in 0..Base /\ books'.available \in Int /\ books'.income \in 0..Charged
      BY <1>5
    <3>2. /\ books'.wallet \in Int /\ books'.clearing \in {0, Base}
          /\ books'.providerFees \in 0..sale'.charge
      BY <1>1, <1>3, <1>4
    <3> QED BY <3>1, <3>2, <1>r
  <2> QED BY <1>3, <2>1, <2>2 DEF MoneyTyped
<1> QED BY <1>3, <1>b, <1>6, <1>7

-----------------------------------------------------------------------------
(* Steps that keep the invariant.                                          *)

LEMMA Statuses ==
  /\ Payable["service"] = "accepted" /\ Paid["service"] = "in_progress"
  /\ Payable["stay"] = "pending" /\ Paid["stay"] = "confirmed"
  /\ Payable["tickets"] = "wanted" /\ Paid["tickets"] = "bought"
  BY DEF Payable, Paid

\* A step that moves no money.
LEMMA QuietKeeps ==
  ASSUME IInv, RestTyped', SubjectInv', UNCHANGED <<kind, policy, money, refunded>>,
         ~sale.paid => dispute' = "none" /\ left' = {} /\ ~reopening',
         dispute # "none" => dispute' # "none",
         subject = "cancelled" => subject' = "cancelled",
         refunded = Tickets /\ delivered = {} => delivered' = {}
  PROVE  IInv'
<1>1. TypeOK'
  <2>1. MoneyTyped'
    BY TypeParts DEF IInv, MoneyTyped, money
  <2> QED BY <2>1 DEF TypeOK, MoneyTyped, RestTyped
<1>2. UnpaidInv'
  BY DEF IInv, UnpaidInv, money
<1>3. FeeInv' /\ BooksBalance'
  BY DEF IInv, FeeInv, BooksBalance, Room, money
<1>4. TicketInv'
  BY DEF IInv, TicketInv, money
<1>5. NegativeCallHasADispute' /\ MatchesIsReleased'
  BY DEF IInv, NegativeCallHasADispute, MatchesIsReleased, money
<1>6. CancelledIsNotReceived'
  BY DEF IInv, CancelledIsNotReceived, money
<1> QED BY <1>1, <1>2, <1>3, <1>4, <1>5, <1>6 DEF IInv

\* A refund.
LEMMA RefundStep ==
  ASSUME IInv, sale.paid, NEW amount \in 1..Room, NEW source \in Sources, NEW fault \in BOOLEAN,
         Refund(amount, source, fault), RestTyped', SubjectInv', TicketInv',
         dispute # "none" => dispute' # "none", CancelledIsNotReceived'
  PROVE  IInv'
<1>1. MoneyTyped /\ FeeInv /\ BooksBalance
  BY TypeParts DEF IInv
<1>2. /\ MoneyTyped' /\ FeeInv' /\ BooksBalance'
      /\ sale'.paid /\ sale'.released = sale.released /\ sale'.outcome = sale.outcome
  BY <1>1, RefundKeeps
<1>3. TypeOK'
  BY <1>2 DEF TypeOK, MoneyTyped, RestTyped
<1>4. UnpaidInv'
  BY <1>2 DEF UnpaidInv
<1>5. NegativeCallHasADispute' /\ MatchesIsReleased'
  BY <1>2 DEF IInv, NegativeCallHasADispute, MatchesIsReleased
<1> QED BY <1>2, <1>3, <1>4, <1>5 DEF IInv

\* A release.
LEMMA ReleaseStep ==
  ASSUME IInv, Open, Released, RestTyped', UNCHANGED <<kind, policy, goods, given, left>>
  PROVE  IInv'
<1>1. MoneyTyped /\ FeeInv /\ BooksBalance
  BY TypeParts DEF IInv
<1>2. /\ MoneyTyped' /\ FeeInv' /\ BooksBalance'
      /\ sale'.refBase = sale.refBase
      /\ sale'.paid /\ sale'.released /\ sale'.outcome = "matches"
  BY <1>1, ReleaseKeeps
<1>3. TypeOK'
  BY <1>2 DEF TypeOK, MoneyTyped, RestTyped
<1>4. UnpaidInv'
  BY <1>2 DEF UnpaidInv
<1>5. NegativeCallHasADispute' /\ MatchesIsReleased'
  BY <1>2 DEF IInv, NegativeCallHasADispute, MatchesIsReleased
<1>6. SubjectInv'
  BY <1>2 DEF IInv, SubjectInv, Open, goods
<1>7. TicketInv'
  BY <1>2 DEF IInv, TicketInv, goods
<1>8. CancelledIsNotReceived'
  BY DEF IInv, CancelledIsNotReceived, goods
<1> QED BY <1>2, <1>3, <1>4, <1>5, <1>6, <1>7, <1>8 DEF IInv

\* A call that releases nothing.
LEMMA OutcomeStep ==
  ASSUME IInv, Open, RestTyped', NEW o \in {"does_not_match", "unreachable"},
         sale' = [sale EXCEPT !.outcome = o], UNCHANGED <<kind, policy, goods, given, books, left>>,
         dispute' = IF o = "unreachable" THEN dispute ELSE "open"
  PROVE  IInv'
<1>1. MoneyTyped
  BY TypeParts DEF IInv
<1>2. /\ sale'.paid = sale.paid /\ sale'.charge = sale.charge /\ sale'.refBase = sale.refBase
      /\ sale'.refFee = sale.refFee /\ sale'.released = sale.released
      /\ sale'.reversed = sale.reversed /\ sale'.outcome = o
  BY <1>1 DEF MoneyTyped
<1>3. MoneyTyped'
  <2>1. sale' \in [paid : BOOLEAN, charge : {0, Processing}, refBase : 0..Base, refFee : 0..Charged,
                   released : BOOLEAN, reversed : BOOLEAN,
                   outcome : {"", "matches", "does_not_match", "unreachable"}]
    BY <1>1 DEF MoneyTyped
  <2> QED BY <1>1, <1>2, <2>1 DEF MoneyTyped
<1>4. TypeOK'
  BY <1>3 DEF TypeOK, MoneyTyped, RestTyped
<1>5. UnpaidInv'
  BY <1>2 DEF UnpaidInv, Open
<1>6. NegativeCallHasADispute' /\ MatchesIsReleased'
  BY <1>2 DEF IInv, NegativeCallHasADispute, MatchesIsReleased, Open
<1>7. SubjectInv'
  BY <1>2 DEF IInv, SubjectInv, goods
<1>8. TicketInv' /\ CancelledIsNotReceived'
  BY <1>2 DEF IInv, TicketInv, CancelledIsNotReceived, goods
<1>9. FeeInv' /\ BooksBalance'
  BY <1>2 DEF IInv, FeeInv, BooksBalance, Room
<1> QED BY <1>4, <1>5, <1>6, <1>7, <1>8, <1>9 DEF IInv

\* A ticket marked refunded adds its price to what must have gone back.
LEMMA TicketAdds ==
  ASSUME refunded \subseteq Tickets, NEW t \in Tickets, t \notin refunded
  PROVE  /\ Price * Cardinality(refunded) \in Nat
         /\ Price * Cardinality(refunded \cup {t}) = Price * Cardinality(refunded) + Price
<1>1. IsFiniteSet(refunded) /\ Cardinality(refunded) \in Nat
  BY PriceAssumption, FS_Subset, FS_CardinalityType
<1>2. Cardinality(refunded \cup {t}) = Cardinality(refunded) + 1
  BY <1>1, FS_AddElement
<1>3. Price \in Nat
  BY PriceAssumption
<1> DEFINE n == Cardinality(refunded)
<1>4. \A k \in Nat : Price * k \in Nat /\ Price * (k + 1) = Price * k + Price
  BY <1>3
<1> HIDE DEF n
<1> QED BY <1>1, <1>2, <1>4 DEF n

-----------------------------------------------------------------------------
(* The invariant is inductive.                                             *)

LEMMA InitIInv == Init => IInv
<1> SUFFICES ASSUME Init PROVE IInv
  OBVIOUS
<1>a. /\ kind \in Kinds /\ subject = Payable[kind]
      /\ delivered = {} /\ refunded = {} /\ left = {} /\ event = "approved" /\ clock = Early
      /\ dispute = "none" /\ call = "idle"
      /\ candidate = FALSE /\ reopening = FALSE /\ sendingBack = FALSE
  BY Zenon DEF Init
<1>b. sale = [paid |-> FALSE, charge |-> 0, refBase |-> 0, refFee |-> 0,
              released |-> FALSE, reversed |-> FALSE, outcome |-> ""]
  BY Zenon DEF Init
<1>c. given = [s \in Sources |-> NoRefund]
  BY Zenon DEF Init
<1>d. books = [pending |-> 0, available |-> 0, income |-> 0, wallet |-> 0,
               clearing |-> 0, providerFees |-> 0]
  BY Zenon DEF Init
<1>e. /\ ~sale.paid /\ sale.charge = 0 /\ sale.refBase = 0 /\ sale.refFee = 0
      /\ ~sale.released /\ ~sale.reversed
  BY Zenon, <1>b
<1>g. sale.outcome \notin {"matches", "does_not_match"}
  BY Zenon, <1>b
<1>f. /\ books.pending = 0 /\ books.available = 0 /\ books.income = 0 /\ books.wallet = 0
      /\ books.clearing = 0 /\ books.providerFees = 0
  BY <1>d
<1>1. FeeShare(Charged, Base, 0) = 0
  <2>1. Charged * 0 = 0
    OBVIOUS
  <2>2. HalfUp(0, Base) \in Nat /\ 0 - 2 * (HalfUp(0, Base) * Base) >= -Base
    BY HalfUpNear
  <2>3. HalfUp(0, Base) = 0
    BY <2>2, HalfUpBounded, <2>1
  <2> QED BY <2>1, <2>3 DEF FeeShare
<1>2. MoneyTyped
  <2>1. sale \in [paid : BOOLEAN, charge : {0, Processing}, refBase : 0..Base, refFee : 0..Charged,
                  released : BOOLEAN, reversed : BOOLEAN,
                  outcome : {"", "matches", "does_not_match", "unreachable"}]
    <3>1. 0 \in {0, Processing} /\ 0 \in 0..Base /\ 0 \in 0..Charged
      OBVIOUS
    <3> QED BY Zenon, <1>b, <3>1
  <2>2. given \in [Sources -> [amount : 0..Base, fee : 0..Charged, processing : 0..Processing]]
    BY <1>c DEF NoRefund
  <2>3. books \in [pending : 0..Base, available : Int, income : 0..Charged, wallet : Int,
                   clearing : {0, Base}, providerFees : 0..sale.charge]
    BY <1>d, <1>e
  <2> QED BY <2>1, <2>2, <2>3 DEF MoneyTyped
<1>3. RestTyped
  <2>1. policy \in {"flexible", "moderate", "strict"}
    BY Zenon DEF Init
  <2>2. policy \in DOMAIN Tiers
    BY <2>1 DEF Tiers
  <2>3. clock \in Times
    BY <1>a DEF Times, Early, Ended
  <2> QED BY <1>a, <2>2, <2>3 DEF RestTyped
<1>4. TypeOK
  BY <1>2, <1>3, TypeParts
<1>5. SubjectInv
  <2>1. kind = "tickets" => policy = "flexible"
    BY Zenon DEF Init
  <2> QED BY <1>a, <1>e, <2>1, Statuses, KindAssumption DEF SubjectInv
<1>6. UnpaidInv
  BY <1>a, <1>c, <1>e, <1>f DEF UnpaidInv
<1>7. FeeInv /\ BooksBalance
  BY <1>1, <1>e, <1>f DEF FeeInv, BooksBalance, Room
<1>8. TicketInv
  <2>1. Cardinality(refunded) = 0
    BY <1>a, FS_EmptySet
  <2>2. Price * 0 = 0
    BY PriceAssumption
  <2> QED BY <2>1, <2>2, <1>e DEF TicketInv
<1>9. NegativeCallHasADispute /\ MatchesIsReleased
  BY <1>a, <1>e, <1>g DEF NegativeCallHasADispute, MatchesIsReleased
<1>10. CancelledIsNotReceived
  BY <1>c DEF CancelledIsNotReceived, Sources
<1> QED BY <1>4, <1>5, <1>6, <1>7, <1>8, <1>9, <1>10 DEF IInv

\* The payment.
LEMMA PayKeeps ==
  ASSUME IInv, NEW byWallet \in BOOLEAN, Pay(byWallet)
  PROVE  IInv'
<1>1. ~sale.paid
  BY Statuses, KindAssumption DEF IInv, TypeOK, SubjectInv, Pay
<1>2. /\ sale.refBase = 0 /\ sale.charge = 0 /\ ~sale.released /\ books.clearing = 0
      /\ refunded = {} /\ left = {} /\ dispute = "none"
      /\ given = [s \in Sources |-> NoRefund]
  BY <1>1 DEF IInv, UnpaidInv
<1>3. MoneyTyped
  BY TypeParts DEF IInv
<1>4. books.pending = 0 /\ books.income = 0 /\ books.available = 0 /\ books.wallet = 0
      /\ books.providerFees = 0
  BY <1>1, <1>2, <1>3, MoneyFields DEF IInv, BooksBalance, FeeInv
<1>5. /\ UNCHANGED <<kind, policy, refunded, given, dispute, left, delivered, event, clock,
                     call, candidate, reopening, sendingBack>>
      /\ subject' = Paid[kind]
  BY DEF Pay, hands
<1>c. PICK c \in {0, Processing} : sale' = [sale EXCEPT !.paid = TRUE, !.charge = c]
  <2>1. CASE byWallet
    BY <2>1 DEF Pay
  <2>2. CASE ~byWallet
    BY <2>2 DEF Pay
  <2> QED BY <2>1, <2>2
<1>6. /\ sale'.paid /\ sale'.charge \in {0, Processing} /\ sale'.refBase = 0
      /\ sale'.refFee = sale.refFee /\ ~sale'.released
      /\ (sale'.reversed <=> sale.reversed) /\ sale'.outcome = sale.outcome
  BY <1>2, <1>3, <1>c DEF MoneyTyped
<1>s. sale' \in [paid : BOOLEAN, charge : {0, Processing}, refBase : 0..Base, refFee : 0..Charged,
                 released : BOOLEAN, reversed : BOOLEAN,
                 outcome : {"", "matches", "does_not_match", "unreachable"}]
  BY <1>3, <1>c DEF MoneyTyped
<1>12. /\ books'.pending = Base /\ books'.available = 0 /\ books'.income = 0
       /\ books'.providerFees = 0
       /\ \/ books'.wallet = -Base /\ books'.clearing = 0
          \/ books'.wallet = 0 /\ books'.clearing = Base
       /\ books' = [pending |-> books'.pending, available |-> books'.available,
                    income |-> books'.income, wallet |-> books'.wallet,
                    clearing |-> books'.clearing, providerFees |-> books'.providerFees]
  <2>0. 0 + Base = Base /\ 0 - Base = -Base
    OBVIOUS
  <2>1. CASE byWallet
    <3>1. books' = [books EXCEPT !.pending = @ + Base, !.wallet = @ - Base]
      BY <2>1 DEF Pay
    <3> QED BY <1>2, <1>3, <1>4, <2>0, <3>1 DEF MoneyTyped
  <2>2. CASE ~byWallet
    <3>1. books' = [books EXCEPT !.pending = @ + Base, !.clearing = @ + Base]
      BY <2>2 DEF Pay
    <3> QED BY <1>2, <1>3, <1>4, <2>0, <3>1 DEF MoneyTyped
  <2> QED BY <2>1, <2>2
<1>7. MoneyTyped'
  <2>1. books'.pending \in 0..Base /\ books'.available \in Int /\ books'.income \in 0..Charged
    BY <1>12
  <2>2. books'.wallet \in Int /\ books'.clearing \in {0, Base}
    BY <1>12
  <2>3. books'.providerFees \in 0..sale'.charge
    BY <1>6, <1>12
  <2>4. books' \in [pending : 0..Base, available : Int, income : 0..Charged, wallet : Int,
                    clearing : {0, Base}, providerFees : 0..sale'.charge]
    BY <1>12, <2>1, <2>2, <2>3
  <2> QED BY <1>3, <1>5, <1>s, <2>4 DEF MoneyTyped
<1>8. RestTyped'
  BY <1>5, TypeParts DEF IInv, RestTyped
<1>9. TypeOK'
  BY <1>7, <1>8 DEF TypeOK, MoneyTyped, RestTyped
<1>10. SubjectInv'
  BY <1>5, Statuses, KindAssumption DEF IInv, TypeOK, SubjectInv
<1>11. UnpaidInv'
  BY <1>6 DEF UnpaidInv
<1>13. FeeInv' /\ BooksBalance'
  BY <1>2, <1>6, <1>12 DEF IInv, FeeInv, BooksBalance, Room
<1>14. TicketInv'
  BY <1>2, <1>5, <1>6 DEF IInv, TicketInv
<1>15. NegativeCallHasADispute' /\ MatchesIsReleased'
  BY <1>2, <1>5, <1>6 DEF IInv, NegativeCallHasADispute, MatchesIsReleased
<1>16. CancelledIsNotReceived'
  BY <1>2, <1>5 DEF CancelledIsNotReceived, Sources
<1> QED BY <1>9, <1>10, <1>11, <1>13, <1>14, <1>15, <1>16 DEF IInv

\* The booking's own steps and the clock.
LEMMA BookingKeeps ==
  ASSUME IInv, CancelUnpaid \/ Progress \/ Tick
  PROVE  IInv'
<1>1. RestTyped /\ SubjectInv
  BY TypeParts DEF IInv
<1>2. UNCHANGED <<kind, policy, money, refunded, delivered, event, dispute, left, call, candidate,
                  reopening, sendingBack>>
  BY DEF CancelUnpaid, Progress, Tick, hands, goods
<1>3. clock' \in Times /\ (subject' # subject => clock' = clock)
  BY <1>1 DEF CancelUnpaid, Progress, Tick, RestTyped, Times, Early, Ended, goods
<1>4. SubjectInv' /\ (subject = "cancelled" => subject' = "cancelled")
  BY <1>1, <1>2 DEF CancelUnpaid, Progress, Tick, SubjectInv, goods, money
<1>5. subject' \in {subject, "cancelled", "completed", "checked_in", "checked_out"}
  BY DEF CancelUnpaid, Progress, Tick, goods
<1>6. RestTyped'
  BY <1>1, <1>2, <1>3, <1>5 DEF RestTyped
<1>7. ~sale.paid => dispute = "none" /\ left = {} /\ ~reopening
  BY DEF IInv, UnpaidInv
<1> QED BY <1>2, <1>4, <1>6, <1>7, QuietKeeps

\* The door, the dispute's desk, the readers and the event.
LEMMA OthersKeep ==
  ASSUME IInv,
         \/ \E t \in Tickets : Scan(t)
         \/ SweepReads \/ CallReads
         \/ Report \/ Reject \/ Reopen \/ ReopenReads \/ ReopenSaves
         \/ Edit \/ Review \/ SendBackReads \/ SendBackSaves
         \/ CancelEvent \/ FinishRefunds \/ Crash
  PROVE  IInv'
<1>1. RestTyped /\ SubjectInv
  BY TypeParts DEF IInv
<1>2. ~sale.paid => dispute = "none" /\ left = {} /\ ~reopening
  BY DEF IInv, UnpaidInv
<1>3. UNCHANGED <<kind, policy, money, refunded, subject>>
  BY DEF Scan, SweepReads, CallReads, Report, Reject, Reopen, ReopenReads, ReopenSaves, Edit, Review,
         SendBackReads, SendBackSaves, CancelEvent, FinishRefunds, Crash, goods
<1>4. /\ delivered' \subseteq Tickets
      /\ refunded = Tickets /\ delivered = {} => delivered' = {}
  BY <1>1 DEF Scan, SweepReads, CallReads, Report, Reject, Reopen, ReopenReads, ReopenSaves, Edit, Review,
         SendBackReads, SendBackSaves, CancelEvent, FinishRefunds, Crash, goods, RestTyped
<1>5. clock' \in Times /\ event' \in {"approved", "pending", "rejected", "cancelled"}
  BY <1>1 DEF Scan, SweepReads, CallReads, Report, Reject, Reopen, ReopenReads, ReopenSaves, Edit, Review,
         SendBackReads, SendBackSaves, CancelEvent, FinishRefunds, Crash, goods, RestTyped
<1>6. /\ dispute' \in {"none", "open", "resolved", "rejected"}
      /\ ~sale.paid => dispute' = "none" /\ ~reopening'
      /\ dispute # "none" => dispute' # "none"
  BY <1>1, <1>2 DEF Scan, SweepReads, CallReads, Report, Reject, Reopen, ReopenReads, ReopenSaves, Edit,
         Review, SendBackReads, SendBackSaves, CancelEvent, FinishRefunds, Crash, hands, Open, RestTyped
<1>7. left' \subseteq Tickets /\ (~sale.paid => left' = {})
  BY <1>1, <1>2 DEF Scan, SweepReads, CallReads, Report, Reject, Reopen, ReopenReads, ReopenSaves, Edit,
         Review, SendBackReads, SendBackSaves, CancelEvent, FinishRefunds, Crash, hands, Unrefunded, RestTyped
<1>8. /\ call' \in {"idle", "clean", "linked"}
      /\ candidate' \in BOOLEAN /\ reopening' \in BOOLEAN /\ sendingBack' \in BOOLEAN
  BY <1>1 DEF Scan, SweepReads, CallReads, Report, Reject, Reopen, ReopenReads, ReopenSaves, Edit,
         Review, SendBackReads, SendBackSaves, CancelEvent, FinishRefunds, Crash, hands, RestTyped
<1>9. RestTyped'
  BY <1>1, <1>3, <1>4, <1>5, <1>6, <1>7, <1>8 DEF RestTyped
<1>10. SubjectInv'
  <2>1. left' # {} => kind = "tickets"
    BY <1>1 DEF Scan, SweepReads, CallReads, Report, Reject, Reopen, ReopenReads, ReopenSaves, Edit,
           Review, SendBackReads, SendBackSaves, CancelEvent, FinishRefunds, Crash, hands, Unrefunded,
           SubjectInv
  <2> QED BY <1>1, <1>3, <2>1 DEF SubjectInv, money
<1> QED BY <1>3, <1>4, <1>6, <1>7, <1>9, <1>10, QuietKeeps

\* The releases and the calls.
LEMMA ReleasesKeep ==
  ASSUME IInv, SweepReleases \/ Accept \/ CallActs
  PROVE  IInv'
<1>1. RestTyped /\ SubjectInv
  BY TypeParts DEF IInv
<1>2. UNCHANGED <<kind, policy, goods, event, clock, given, reopening, sendingBack, left>>
  BY DEF SweepReleases, Accept, CallActs, CallMatches, CallDiffers, CallUnreachable, CallRefused,
         hands, money
<1>3. RestTyped'
  <2>1. dispute' \in {"none", "open", "resolved", "rejected"}
    BY <1>1 DEF SweepReleases, Accept, CallActs, CallMatches, CallDiffers, CallUnreachable, CallRefused,
                RestTyped
  <2>2. call' \in {"idle", "clean", "linked"} /\ candidate' \in BOOLEAN
    BY <1>1 DEF SweepReleases, Accept, CallActs, hands, RestTyped
  <2> QED BY <1>1, <1>2, <2>1, <2>2 DEF RestTyped, goods
<1>4. \/ Open /\ Released
      \/ UNCHANGED <<sale, books, dispute>>
      \/ /\ Open /\ UNCHANGED books
         /\ \/ CallDiffers
            \/ CallUnreachable
  BY DEF SweepReleases, Accept, CallActs, CallMatches, CallDiffers, CallUnreachable, CallRefused,
         CallAllowed, money
<1>5. CASE Open /\ Released
  BY <1>2, <1>3, <1>5, ReleaseStep
<1>6. CASE UNCHANGED <<sale, books, dispute>>
  <2>1. UNCHANGED <<money, refunded>> /\ SubjectInv'
    BY <1>1, <1>2, <1>6 DEF money, goods, SubjectInv
  <2>2. ~sale.paid => dispute = "none" /\ left = {} /\ ~reopening
    BY DEF IInv, UnpaidInv
  <2> QED BY <1>2, <1>3, <1>6, <2>1, <2>2, QuietKeeps DEF goods
<1>7. CASE Open /\ UNCHANGED books /\ CallDiffers
  BY <1>2, <1>3, <1>7, OutcomeStep DEF CallDiffers
<1>8. CASE Open /\ UNCHANGED books /\ CallUnreachable
  BY <1>2, <1>3, <1>8, OutcomeStep DEF CallUnreachable
<1> QED BY <1>4, <1>5, <1>6, <1>7, <1>8

\* What a cancel does to a booking that was not received.
LEMMA CancelEnds ==
  ASSUME IInv, sale.paid, ~HandedOver, CancelIfNotHandedOver, UNCHANGED <<kind, policy, delivered>>
  PROVE  /\ kind # "tickets" => subject' = "cancelled" /\ refunded' = refunded
         /\ kind = "tickets" => subject' = subject /\ refunded' = Tickets /\ delivered' = {}
<1>1. RestTyped /\ SubjectInv
  BY TypeParts DEF IInv
<1>2. CASE kind = "service"
  <2>1. subject # "completed"
    BY <1>2 DEF HandedOver
  <2> QED BY <1>1, <1>2, <2>1 DEF SubjectInv, CancelIfNotHandedOver, NotHandedOver
<1>3. CASE kind = "stay"
  <2>1. subject \notin {"checked_in", "checked_out"}
    BY <1>3 DEF HandedOver
  <2> QED BY <1>1, <1>3, <2>1 DEF SubjectInv, CancelIfNotHandedOver, NotHandedOver
<1>4. CASE kind = "tickets"
  <2>1. delivered = {}
    BY <1>4 DEF HandedOver
  <2>2. subject = "bought"
    BY <1>1, <1>4 DEF SubjectInv
  <2> QED BY <1>1, <1>4, <2>1, <2>2 DEF CancelIfNotHandedOver, NotHandedOver, RestTyped
<1> QED BY <1>1, <1>2, <1>3, <1>4, KindAssumption DEF RestTyped

\* A refund keeps what was said of tickets when it marks none, or leaves nothing.
LEMMA TicketsKept ==
  ASSUME IInv, sale.paid, NEW amount \in 1..Room, NEW source \in Sources, NEW fault \in BOOLEAN,
         Refund(amount, source, fault), UNCHANGED kind, refunded' \subseteq Tickets,
         kind = "tickets" /\ refunded' # refunded => amount = Room
  PROVE  TicketInv'
<1>1. MoneyTyped /\ FeeInv /\ BooksBalance /\ RestTyped /\ TicketInv
  BY TypeParts DEF IInv
<1>2. sale'.refBase = sale.refBase + amount
  BY <1>1, RefundKeeps
<1>3. sale.refBase \in 0..Base
  BY <1>1, MoneyFields
<1>4. CASE amount = Room
  BY <1>2, <1>3, <1>4 DEF TicketInv, Room
<1>5. CASE amount # Room /\ kind = "tickets"
  <2>1. refunded' = refunded
    BY <1>5
  <2>2. CASE sale.refBase = Base
    BY <1>3, <2>2 DEF Room
  <2>3. CASE sale.refBase >= Price * Cardinality(refunded)
    <3>1. IsFiniteSet(refunded) /\ Cardinality(refunded) \in Nat /\ Price \in Nat
      BY <1>1, PriceAssumption, FS_Subset, FS_CardinalityType DEF RestTyped
    <3> DEFINE m == Price * Cardinality(refunded)
    <3>2. m \in Nat
      BY <3>1
    <3>3. sale.refBase >= m
      BY <2>3
    <3> HIDE DEF m
    <3>4. sale'.refBase >= m
      BY <1>2, <1>3, <3>2, <3>3 DEF Room
    <3> QED BY <2>1, <3>4 DEF TicketInv, m
  <2> QED BY <1>1, <1>5, <2>2, <2>3 DEF TicketInv
<1> QED BY <1>4, <1>5 DEF TicketInv

\* A cancel by Support or by the customer.
LEMMA CancelKeeps ==
  ASSUME IInv, NEW amount \in 1..Room, NEW source \in {"cancel", "cancel-customer"},
         Open, ~HandedOver, Refund(amount, source, FALSE), CancelIfNotHandedOver,
         kind = "tickets" => amount = Room,
         UNCHANGED <<kind, policy, delivered, event, clock, dispute, hands>>
  PROVE  IInv'
<1>1. RestTyped /\ SubjectInv /\ MoneyTyped /\ FeeInv /\ BooksBalance
  BY TypeParts DEF IInv
<1>2. sale.paid /\ source \in Sources
  BY DEF Open, Sources
<1>3. /\ kind # "tickets" => subject' = "cancelled" /\ refunded' = refunded
      /\ kind = "tickets" => subject' = subject /\ refunded' = Tickets /\ delivered' = {}
  BY <1>2, CancelEnds
<1>4. RestTyped'
  BY <1>1, <1>3 DEF RestTyped, hands
<1>5. SubjectInv'
  BY <1>1, <1>2, <1>3, KindAssumption DEF SubjectInv, RestTyped, hands
<1>6. TicketInv'
  BY <1>2, <1>3, <1>4, TicketsKept DEF RestTyped
<1>7. CancelledIsNotReceived'
  BY <1>3 DEF CancelledIsNotReceived
<1> QED BY <1>2, <1>4, <1>5, <1>6, <1>7, RefundStep

LEMMA CancelsKeep ==
  ASSUME IInv, SupportCancel \/ CustomerCancel
  PROVE  IInv'
<1>1. MoneyTyped /\ RestTyped /\ FeeInv /\ SubjectInv
  BY TypeParts DEF IInv
<1>2. sale.refBase \in 0..Base
  BY <1>1, MoneyFields
<1>3. CASE SupportCancel
  <2>1. Room \in 1..Room
    <3>1. sale.refBase # Base
      BY <1>1, <1>3 DEF SupportCancel, Open, FeeInv
    <3> QED BY <1>2, <3>1 DEF Room
  <2>2. /\ Open /\ ~HandedOver /\ Refund(Room, "cancel", FALSE) /\ CancelIfNotHandedOver
        /\ UNCHANGED <<kind, policy, delivered, event, clock, dispute, hands>>
    BY <1>3 DEF SupportCancel, RefundAlone
  <2> QED BY <2>1, <2>2, CancelKeeps
<1>4. CASE CustomerCancel
  <2> DEFINE amount == (Room * RefundShare) \div Whole
  <2>1. /\ Open /\ ~HandedOver /\ amount > 0
        /\ Refund(amount, "cancel-customer", FALSE) /\ CancelIfNotHandedOver
        /\ UNCHANGED <<kind, policy, delivered, event, clock, dispute, hands>>
    BY <1>4 DEF CustomerCancel, Quoted
  <2>2. RefundShare \in {0, 5000, 10000}
    BY <1>1 DEF RefundShare, Tiers, Whole, RestTyped, Times, Early, Ended, Started
  <2>3. amount \in 0..Room
    BY <1>2, <2>2 DEF Room, Whole
  <2>4. ASSUME kind = "tickets" PROVE amount = Room
    <3>1. policy = "flexible"
      BY <1>1, <2>4 DEF SubjectInv
    <3>2. RefundShare \in {0, 10000}
      BY <1>1, <2>4, <3>1 DEF RefundShare, Tiers, Whole, RestTyped, Times, Early, Ended, Started
    <3> QED BY <1>2, <2>1, <3>2 DEF Room, Whole
  <2> HIDE DEF amount
  <2>5. amount \in 1..Room
    BY <1>2, <2>1, <2>3 DEF Room
  <2> QED BY <2>1, <2>4, <2>5, CancelKeeps
<1> QED BY <1>3, <1>4

\* A refund that is no cancel: subject and tickets change only when it leaves nothing.
LEMMA RefundAloneKeeps ==
  ASSUME IInv, sale.paid, NEW amount \in 1..Room, NEW fault \in BOOLEAN,
         RefundAlone(amount, "dispute", fault), dispute # "none", dispute' = "resolved",
         UNCHANGED <<kind, policy, delivered, event, clock, hands>>
  PROVE  IInv'
<1>1. RestTyped /\ SubjectInv /\ MoneyTyped /\ FeeInv /\ BooksBalance
  BY TypeParts DEF IInv
<1>2. /\ Refund(amount, "dispute", fault) /\ "dispute" \in Sources
      /\ subject' \in {subject, "cancelled"}
      /\ subject' # subject => subject \in NotHandedOver
      /\ refunded' \subseteq Tickets /\ refunded \subseteq refunded'
      /\ kind = "tickets" /\ refunded' # refunded => amount = Room
  BY <1>1 DEF RefundAlone, CancelIfNotHandedOver, Sources, RestTyped
<1>3. RestTyped'
  BY <1>1, <1>2 DEF RestTyped, hands
<1>4. /\ sale'.paid /\ \A s \in Sources \ {"dispute"} : given'[s] = given[s]
  BY <1>1, <1>2, RefundKeeps
<1>5. SubjectInv'
  BY <1>1, <1>2 DEF SubjectInv, NotHandedOver, hands
<1>6. TicketInv'
  BY <1>2, TicketsKept
<1>7. CancelledIsNotReceived'
  BY <1>2, <1>3, <1>4 DEF IInv, CancelledIsNotReceived, Sources, RestTyped
<1> QED BY <1>2, <1>3, <1>5, <1>6, <1>7, RefundStep

LEMMA ResolveKeeps ==
  ASSUME IInv, Resolve
  PROVE  IInv'
<1>1. RestTyped /\ SubjectInv
  BY TypeParts DEF IInv
<1>2. dispute = "open" /\ dispute' = "resolved"
      /\ UNCHANGED <<kind, policy, delivered, event, clock, hands>>
  BY DEF Resolve
<1>3. sale.paid
  BY <1>1, <1>2 DEF IInv, UnpaidInv
<1>4. CASE UNCHANGED <<money, subject, refunded>>
  <2>1. RestTyped' /\ SubjectInv'
    BY <1>1, <1>2, <1>4 DEF RestTyped, SubjectInv, hands, money
  <2> QED BY <1>2, <1>3, <1>4, <2>1, QuietKeeps
<1>5. CASE \E amount \in 1..Room, fault \in BOOLEAN : RefundAlone(amount, "dispute", fault)
  BY <1>2, <1>3, <1>5, RefundAloneKeeps
<1> QED BY <1>4, <1>5 DEF Resolve

\* A ticket refunded by name, for its price or for all that is left.
LEMMA TicketRefundKeeps ==
  ASSUME IInv, sale.paid, kind = "tickets", NEW t \in Tickets, NEW amount \in 1..Room,
         NEW fault \in BOOLEAN, t \notin refunded, amount = Price \/ amount = Room,
         Refund(amount, t, fault),
         refunded' = refunded \cup {t} \cup (IF amount = Room THEN Tickets \ delivered ELSE {}),
         left' \subseteq left, UNCHANGED <<kind, policy, subject, delivered, event, clock, dispute, call,
                                           candidate, reopening, sendingBack>>
  PROVE  IInv'
<1>1. RestTyped /\ SubjectInv /\ MoneyTyped /\ FeeInv /\ BooksBalance /\ TicketInv
  BY TypeParts DEF IInv
<1>2. /\ sale'.paid /\ sale'.refBase = sale.refBase + amount
      /\ \A s \in Sources \ {t} : given'[s] = given[s]
      /\ t \in Sources
  <2>1. t \in Sources
    BY DEF Sources
  <2> QED BY <1>1, <2>1, RefundKeeps
<1>3. RestTyped' /\ SubjectInv'
  <2>1. refunded' \subseteq Tickets /\ left' \subseteq Tickets
    BY <1>1 DEF RestTyped
  <2>2. RestTyped'
    BY <1>1, <2>1 DEF RestTyped
  <2> QED BY <1>1, <2>2 DEF SubjectInv
<1>4. sale.refBase \in 0..Base
  BY <1>1, MoneyFields
<1>5. TicketInv'
  <2>1. CASE amount = Room
    BY <1>2, <1>4, <2>1 DEF TicketInv, Room
  <2>2. CASE amount # Room
    <3>1. refunded' = refunded \cup {t} /\ amount = Price
      BY <2>2
    <3>2. sale.refBase # Base
      BY <1>4 DEF Room
    <3>3. sale.refBase >= Price * Cardinality(refunded)
      BY <1>1, <3>2 DEF TicketInv
    <3> DEFINE m == Price * Cardinality(refunded)
               n == Price * Cardinality(refunded \cup {t})
    <3>4. m \in Nat /\ n = m + Price
      BY <1>1, TicketAdds DEF RestTyped
    <3>5. sale.refBase >= m
      BY <3>3
    <3> HIDE DEF m, n
    <3>6. sale'.refBase >= n
      BY <1>2, <1>4, <3>1, <3>4, <3>5
    <3>7. n = Price * Cardinality(refunded')
      BY <3>1 DEF n
    <3> QED BY <3>6, <3>7 DEF TicketInv
  <2> QED BY <2>1, <2>2
<1>6. CancelledIsNotReceived'
  <2>1. given'["cancel"] = given["cancel"] /\ given'["cancel-customer"] = given["cancel-customer"]
    BY <1>2, SourceAssumption DEF Sources
  <2>2. refunded = Tickets => refunded' = Tickets
    BY <1>1 DEF RestTyped
  <2> QED BY <2>1, <2>2 DEF IInv, CancelledIsNotReceived
<1> QED BY <1>2, <1>3, <1>5, <1>6, RefundStep

LEMMA TicketsKeep ==
  ASSUME IInv, NEW t \in Tickets, RefundTicket(t) \/ RefundNext(t)
  PROVE  IInv'
<1>1. RestTyped /\ SubjectInv /\ MoneyTyped /\ FeeInv
  BY TypeParts DEF IInv
<1>2. sale.refBase \in 0..Base /\ Price \in Nat \ {0}
  BY <1>1, MoneyFields, PriceAssumption
<1>3. CASE RefundTicket(t)
  <2>1. Price \in 1..Room /\ left' \subseteq left
    BY <1>2, <1>3 DEF RefundTicket, Room, hands
  <2> QED BY <1>3, <2>1, TicketRefundKeeps DEF RefundTicket, hands
<1>4. CASE RefundNext(t)
  <2>1. /\ t \in left /\ left' = left \ {t}
        /\ UNCHANGED <<kind, policy, subject, delivered, event, clock, dispute, call, candidate,
                       reopening, sendingBack>>
    BY <1>4 DEF RefundNext
  <2>2. sale.paid
    BY <2>1 DEF IInv, UnpaidInv
  <2>3. CASE UNCHANGED <<money, refunded>>
    <3>1. RestTyped' /\ SubjectInv'
      BY <1>1, <2>1, <2>3 DEF RestTyped, SubjectInv, money
    <3> QED BY <2>1, <2>2, <2>3, <3>1, QuietKeeps
  <2>4. CASE t \notin refunded /\ EventShare <= 0 /\ refunded' = refunded \cup {t} /\ UNCHANGED money
    <3>1. sale.refBase = Base
      BY <1>2, <2>4 DEF EventShare, AtMost, Room
    <3>2. RestTyped' /\ SubjectInv'
      BY <1>1, <2>1, <2>4 DEF RestTyped, SubjectInv, money
    <3>3. TypeOK' /\ UnpaidInv' /\ FeeInv' /\ BooksBalance'
      BY <1>1, <2>2, <2>4, <3>2 DEF IInv, TypeOK, RestTyped, MoneyTyped, UnpaidInv, FeeInv, BooksBalance,
                                    Room, money
    <3>4. TicketInv' /\ NegativeCallHasADispute' /\ MatchesIsReleased'
      BY <2>1, <2>4, <3>1 DEF IInv, TicketInv, NegativeCallHasADispute, MatchesIsReleased, money
    <3>5. CancelledIsNotReceived'
      BY <1>1, <2>1, <2>4 DEF IInv, CancelledIsNotReceived, RestTyped, money
    <3> QED BY <3>2, <3>3, <3>4, <3>5 DEF IInv
  <2>5. CASE /\ t \notin refunded /\ ~(EventShare <= 0) /\ EventShare <= Room
             /\ Refund(EventShare, t, TRUE)
             /\ refunded' = refunded \cup {t} \cup (IF EventShare = Room THEN Tickets \ delivered ELSE {})
    <3>1. EventShare \in 1..Room /\ (EventShare = Price \/ EventShare = Room)
      BY <1>2, <2>5 DEF EventShare, AtMost, Room
    <3>2. CASE kind = "tickets"
      BY <2>1, <2>2, <2>5, <3>1, <3>2, TicketRefundKeeps
    <3> QED BY <1>1, <2>1, <3>2 DEF SubjectInv
  <2> QED BY <1>4, <2>3, <2>4, <2>5 DEF RefundNext
<1> QED BY <1>3, <1>4

-----------------------------------------------------------------------------
(* What is proved of the specification.                                    *)

LEMMA NextIInv ==
  ASSUME IInv, [Next]_vars
  PROVE  IInv'
<1>1. CASE UNCHANGED vars
  <2>1. RestTyped /\ SubjectInv /\ UnpaidInv
    BY TypeParts DEF IInv
  <2>2. /\ UNCHANGED <<kind, policy, money, refunded>>
        /\ UNCHANGED <<subject, delivered, event, clock, dispute, call, candidate, reopening,
                       sendingBack, left>>
    BY <1>1 DEF vars, goods, hands
  <2>3. RestTyped' /\ SubjectInv'
    BY <2>1, <2>2 DEF RestTyped, SubjectInv, money
  <2> QED BY <2>1, <2>2, <2>3, QuietKeeps DEF UnpaidInv
<1>2. CASE Next
  <2>1. CASE \E byWallet \in BOOLEAN : Pay(byWallet)
    BY <2>1, PayKeeps
  <2>2. CASE CancelUnpaid \/ Progress \/ Tick
    BY <2>2, BookingKeeps
  <2>3. CASE \E t \in Tickets : RefundTicket(t) \/ RefundNext(t)
    BY <2>3, TicketsKeep
  <2>4. CASE SweepReleases \/ Accept \/ CallActs
    BY <2>4, ReleasesKeep
  <2>5. CASE SupportCancel \/ CustomerCancel
    BY <2>5, CancelsKeep
  <2>6. CASE Resolve
    BY <2>6, ResolveKeeps
  <2>7. CASE \/ \E t \in Tickets : Scan(t)
             \/ SweepReads \/ CallReads
             \/ Report \/ Reject \/ Reopen \/ ReopenReads \/ ReopenSaves
             \/ Edit \/ Review \/ SendBackReads \/ SendBackSaves
             \/ CancelEvent \/ FinishRefunds \/ Crash
    BY <2>7, OthersKeep
  <2> QED BY <1>2, <2>1, <2>2, <2>3, <2>4, <2>5, <2>6, <2>7 DEF Next
<1> QED BY <1>1, <1>2

-----------------------------------------------------------------------------
(* The refunds' rows and the sale's totals.                                *)

RowAmounts(rows) == [s \in Sources |-> rows[s].amount]
RowFees(rows) == [s \in Sources |-> rows[s].fee]
RowProcessings(rows) == [s \in Sources |-> rows[s].processing]

\* A source that gave nothing yet: Support's cancel gives all that is left, and a ticket that
\* gave is marked.
SlotInv ==
  /\ given["cancel"] # NoRefund => sale.refBase = Base
  /\ \A t \in Tickets : given[t] # NoRefund => t \in refunded

RowsInv == SlotInv /\ RefundsAddUp

\* What a step does to the rows: nothing, or a refund fills a row that is still empty.
RowsSame ==
  /\ given' = given /\ sale'.refBase = sale.refBase /\ sale'.refFee = sale.refFee
  /\ books'.providerFees = books.providerFees
  /\ refunded \subseteq refunded'
Fills(amount, source, fault) ==
  /\ Refund(amount, source, fault) /\ given[source] = NoRefund
  /\ source = "cancel" => amount = Room
  /\ source \in Tickets => source \in refunded'
  /\ refunded \subseteq refunded'
RowsStep ==
  \/ RowsSame
  \/ sale.paid /\ \E amount \in 1..Room, source \in Sources, fault \in BOOLEAN : Fills(amount, source, fault)

\* Every refund is made of a row still empty.
LEMMA StepsOfRows ==
  ASSUME IInv, SlotInv, [Next]_vars
  PROVE  RowsStep
<1>0. MoneyTyped /\ RestTyped /\ FeeInv /\ sale.refBase \in 0..Base
  <2>1. MoneyTyped /\ RestTyped /\ FeeInv
    BY TypeParts DEF IInv
  <2> QED BY <2>1, MoneyFields
<1>1. ASSUME NEW byWallet \in BOOLEAN, Pay(byWallet) PROVE RowsStep
  BY <1>0, <1>1 DEF Pay, RowsStep, RowsSame, MoneyTyped
<1>2. ASSUME Released, UNCHANGED <<given, refunded>> PROVE RowsStep
  BY <1>0, <1>2 DEF Released, RowsStep, RowsSame, MoneyTyped
<1>3. ASSUME UNCHANGED <<given, books, refunded>>, \E o : sale' = [sale EXCEPT !.outcome = o]
      PROVE  RowsStep
  BY <1>0, <1>3 DEF RowsStep, RowsSame, MoneyTyped
<1>4. ASSUME UNCHANGED money, refunded \subseteq refunded' PROVE RowsStep
  BY <1>4 DEF RowsStep, RowsSame, money
<1>5. CASE SweepReleases \/ Accept \/ CallActs
  <2>1. UNCHANGED <<given, refunded>>
    BY <1>5 DEF SweepReleases, Accept, CallActs, CallMatches, CallDiffers, CallUnreachable,
                CallRefused, goods, money
  <2>2. \/ Released \/ UNCHANGED <<sale, books>>
        \/ books' = books /\ \E o : sale' = [sale EXCEPT !.outcome = o]
    BY <1>5 DEF SweepReleases, Accept, CallActs, CallMatches, CallDiffers, CallUnreachable,
                CallRefused, money
  <2> QED BY <1>2, <1>3, <1>4, <2>1, <2>2 DEF money
<1>6. CASE SupportCancel
  <2>1. Room \in 1..Room
    BY <1>0, <1>6 DEF SupportCancel, Open, FeeInv, Room
  <2>2. given["cancel"] = NoRefund /\ "cancel" \in Sources /\ "cancel" \notin Tickets
    BY <1>0, <1>6, <2>1, SourceAssumption DEF SupportCancel, SlotInv, Room, Sources
  <2>3. sale.paid /\ Refund(Room, "cancel", FALSE) /\ refunded \subseteq refunded'
    BY <1>6 DEF SupportCancel, RefundAlone, Open, CancelIfNotHandedOver
  <2>4. Fills(Room, "cancel", FALSE)
    BY <2>2, <2>3 DEF Fills
  <2> QED BY <2>1, <2>2, <2>3, <2>4 DEF RowsStep
<1>7. CASE CustomerCancel
  <2> DEFINE amount == (Room * RefundShare) \div Whole
  <2>1. RefundShare \in {0, 5000, 10000}
    BY <1>0 DEF RefundShare, Tiers, Whole, RestTyped, Times, Early, Ended, Started
  <2>2. amount \in 0..Room
    BY <1>0, <2>1 DEF Room, Whole
  <2>3. /\ sale.paid /\ amount > 0 /\ Refund(amount, "cancel-customer", FALSE)
        /\ given["cancel-customer"] = NoRefund /\ refunded \subseteq refunded'
    BY <1>7 DEF CustomerCancel, Quoted, Open, CancelIfNotHandedOver
  <2>4. "cancel-customer" \in Sources /\ "cancel-customer" \notin Tickets
    BY SourceAssumption DEF Sources
  <2> HIDE DEF amount
  <2>5. Fills(amount, "cancel-customer", FALSE)
    BY <2>3, <2>4 DEF Fills
  <2>6. amount \in 1..Room
    BY <1>0, <2>2, <2>3 DEF Room
  <2> QED BY <2>3, <2>4, <2>5, <2>6 DEF RowsStep
<1>8. CASE Resolve
  <2>1. CASE UNCHANGED <<money, subject, refunded>>
    BY <1>4, <2>1
  <2>2. ASSUME NEW amount \in 1..Room, NEW fault \in BOOLEAN,
               given["dispute"] = NoRefund, RefundAlone(amount, "dispute", fault)
        PROVE  RowsStep
    <3>1. sale.paid
      BY <1>8 DEF Resolve, IInv, UnpaidInv
    <3>2. "dispute" \in Sources /\ "dispute" \notin Tickets
      BY SourceAssumption DEF Sources
    <3>3. Fills(amount, "dispute", fault)
      BY <2>2, <3>2 DEF Fills, RefundAlone, CancelIfNotHandedOver
    <3> QED BY <3>1, <3>2, <3>3 DEF RowsStep
  <2> QED BY <1>8, <2>1, <2>2 DEF Resolve
<1>9. ASSUME NEW t \in Tickets, NEW amount \in 1..Room, NEW fault \in BOOLEAN, sale.paid,
             Refund(amount, t, fault), t \notin refunded, refunded \cup {t} \subseteq refunded'
      PROVE  RowsStep
  <2>1. given[t] = NoRefund /\ t \in Sources /\ t # "cancel" /\ t \in refunded'
    BY <1>9, SourceAssumption DEF SlotInv, Sources
  <2>2. Fills(amount, t, fault)
    BY <1>9, <2>1 DEF Fills
  <2> QED BY <1>9, <2>1, <2>2 DEF RowsStep
<1>10. ASSUME NEW t \in Tickets, RefundTicket(t) PROVE RowsStep
  <2>1. Price \in 1..Room
    BY <1>0, <1>10, PriceAssumption DEF RefundTicket, Room
  <2> QED BY <1>9, <1>10, <2>1 DEF RefundTicket
<1>11. ASSUME NEW t \in Tickets, RefundNext(t) PROVE RowsStep
  <2>1. sale.paid
    BY <1>11 DEF RefundNext, IInv, UnpaidInv
  <2>2. CASE UNCHANGED money /\ refunded \subseteq refunded'
    BY <1>4, <2>2
  <2>3. CASE ~(UNCHANGED money /\ refunded \subseteq refunded')
    <3>1. /\ t \notin refunded /\ ~(EventShare <= 0) /\ EventShare <= Room
          /\ Refund(EventShare, t, TRUE) /\ refunded \cup {t} \subseteq refunded'
      BY <1>11, <2>3 DEF RefundNext
    <3>2. EventShare \in 1..Room
      BY <1>0, <3>1, PriceAssumption DEF EventShare, AtMost, Room
    <3> QED BY <1>9, <2>1, <3>1, <3>2
  <2> QED BY <2>2, <2>3
<1>12. CASE \/ CancelUnpaid \/ Progress \/ Tick \/ SweepReads \/ CallReads
            \/ \E t \in Tickets : Scan(t)
            \/ Report \/ Reject \/ Reopen \/ ReopenReads \/ ReopenSaves
            \/ Edit \/ Review \/ SendBackReads \/ SendBackSaves
            \/ CancelEvent \/ FinishRefunds \/ Crash \/ UNCHANGED vars
  <2>1. UNCHANGED money /\ refunded' = refunded
    BY <1>12 DEF CancelUnpaid, Progress, Tick, SweepReads, CallReads, Scan, Report, Reject, Reopen,
                 ReopenReads, ReopenSaves, Edit, Review, SendBackReads, SendBackSaves, CancelEvent,
                 FinishRefunds, Crash, vars, goods
  <2> QED BY <1>4, <2>1
<1> QED BY <1>1, <1>5, <1>6, <1>7, <1>8, <1>10, <1>11, <1>12 DEF Next

LEMMA SourcesFinite == IsFiniteSet(Sources)
<1>1. IsFiniteSet({"cancel", "cancel-customer"})
  <2>1. {"cancel"} \cup {"cancel-customer"} = {"cancel", "cancel-customer"}
    OBVIOUS
  <2>2. IsFiniteSet({"cancel"} \cup {"cancel-customer"})
    BY FS_Singleton, FS_Union
  <2> QED BY <2>1, <2>2
<1>2. IsFiniteSet({"cancel", "cancel-customer", "dispute"})
  <2>1. {"cancel", "cancel-customer"} \cup {"dispute"} = {"cancel", "cancel-customer", "dispute"}
    OBVIOUS
  <2>2. IsFiniteSet({"cancel", "cancel-customer"} \cup {"dispute"})
    BY <1>1, FS_Singleton, FS_Union
  <2> QED BY <2>1, <2>2
<1> QED BY <1>2, PriceAssumption, FS_Union DEF Sources

\* A row filled adds what it gives.
LEMMA RowAdds ==
  ASSUME MoneyTyped, NEW source \in Sources, given[source] = NoRefund,
         NEW r \in [amount : 0..Base, fee : 0..Charged, processing : 0..Processing],
         given' = [given EXCEPT ![source] = r]
  PROVE  /\ Moved(RowAmounts(given), RowAmounts(given'), r.amount)
         /\ Moved(RowFees(given), RowFees(given'), r.fee)
         /\ Moved(RowProcessings(given), RowProcessings(given'), r.processing)
<1>1. /\ \A s \in Sources : given[s] \in [amount : 0..Base, fee : 0..Charged, processing : 0..Processing]
      /\ \A s \in Sources : given'[s] = IF s = source THEN r ELSE given[s]
  BY DEF MoneyTyped
<1>2. r.amount \in Int /\ r.fee \in Int /\ r.processing \in Int
  OBVIOUS
<1>3. /\ RowAmounts(given) \in [Sources -> Int] /\ RowAmounts(given') \in [Sources -> Int]
      /\ \A s \in Sources : RowAmounts(given')[s] = IF s = source THEN RowAmounts(given)[source] + r.amount
                                                  ELSE RowAmounts(given)[s]
  BY <1>1 DEF RowAmounts, NoRefund
<1>4. /\ RowFees(given) \in [Sources -> Int] /\ RowFees(given') \in [Sources -> Int]
      /\ \A s \in Sources : RowFees(given')[s] = IF s = source THEN RowFees(given)[source] + r.fee
                                              ELSE RowFees(given)[s]
  BY <1>1 DEF RowFees, NoRefund
<1>5. /\ RowProcessings(given) \in [Sources -> Int] /\ RowProcessings(given') \in [Sources -> Int]
      /\ \A s \in Sources : RowProcessings(given')[s] =
                              IF s = source THEN RowProcessings(given)[source] + r.processing
                              ELSE RowProcessings(given)[s]
  BY <1>1 DEF RowProcessings, NoRefund
<1>6. Moved(RowAmounts(given), RowAmounts(given'), r.amount)
  BY <1>2, <1>3, SourcesFinite, SumMoved
<1>7. Moved(RowFees(given), RowFees(given'), r.fee)
  BY <1>2, <1>4, SourcesFinite, SumMoved
<1>8. Moved(RowProcessings(given), RowProcessings(given'), r.processing)
  BY <1>2, <1>5, SourcesFinite, SumMoved
<1> QED BY <1>6, <1>7, <1>8

\* A refund adds its row to the totals.
LEMMA FillAdds ==
  ASSUME IInv, RefundsAddUp, NEW amount \in 1..Room, NEW source \in Sources,
         NEW fault \in BOOLEAN, Refund(amount, source, fault), given[source] = NoRefund, FeeInv'
  PROVE  RefundsAddUp'
<1> DEFINE r == RefundOf(amount, fault)
<1>1. MoneyTyped /\ FeeInv
  BY TypeParts DEF IInv
<1>2. r \in [amount : 0..Base, fee : 0..Charged, processing : 0..Processing]
  BY <1>1, RefundRow
<1>3. /\ given' = [given EXCEPT ![source] = r]
      /\ sale'.refBase = sale.refBase + r.amount /\ sale'.refFee = sale.refFee + r.fee
      /\ books'.providerFees = books.providerFees + r.processing
  BY <1>1 DEF Refund, BooksAfter, MoneyTyped
<1> HIDE DEF r
<1>4. /\ Moved(RowAmounts(given), RowAmounts(given'), r.amount)
      /\ Moved(RowFees(given), RowFees(given'), r.fee)
      /\ Moved(RowProcessings(given), RowProcessings(given'), r.processing)
  BY <1>1, <1>2, <1>3, RowAdds
<1>5. /\ sale.refBase = SumFunction(RowAmounts(given)) /\ sale.refFee = SumFunction(RowFees(given))
      /\ books.providerFees = SumFunction(RowProcessings(given))
  BY DEF RefundsAddUp, RowAmounts, RowFees, RowProcessings
<1>6. /\ sale'.refBase = SumFunction(RowAmounts(given')) /\ sale'.refFee = SumFunction(RowFees(given'))
      /\ books'.providerFees = SumFunction(RowProcessings(given'))
  BY <1>3, <1>4, <1>5 DEF Moved
<1> QED BY <1>6 DEF RefundsAddUp, RowAmounts, RowFees, RowProcessings, FeeInv

\* At first every row is empty and every total nothing.
LEMMA InitRows == Init => RowsInv
<1> SUFFICES ASSUME Init PROVE RowsInv
  OBVIOUS
<1>1. SlotInv
  BY DEF Init, SlotInv, Sources
<1>2. /\ \A s \in Sources : RowAmounts(given)[s] = 0 /\ RowFees(given)[s] = 0 /\ RowProcessings(given)[s] = 0
      /\ DOMAIN RowAmounts(given) = Sources /\ DOMAIN RowFees(given) = Sources
      /\ DOMAIN RowProcessings(given) = Sources
  BY DEF Init, NoRefund, RowAmounts, RowFees, RowProcessings
<1>3. /\ SumFunctionOnSet(RowAmounts(given), Sources) = 0 /\ SumFunctionOnSet(RowFees(given), Sources) = 0
      /\ SumFunctionOnSet(RowProcessings(given), Sources) = 0
  BY <1>2, SourcesFinite, SumZero
<1>4. /\ SumFunction(RowAmounts(given)) = 0 /\ SumFunction(RowFees(given)) = 0
      /\ SumFunction(RowProcessings(given)) = 0
  BY <1>2, <1>3 DEF SumFunction
<1>5. sale.refBase = 0 /\ sale.refFee = 0 /\ books.providerFees = 0 /\ ~sale.reversed
  BY DEF Init
<1> QED BY <1>1, <1>4, <1>5 DEF RowsInv, RefundsAddUp, RowAmounts, RowFees, RowProcessings

\* Every step keeps the rows and the totals together.
LEMMA StepRows ==
  ASSUME IInv, RowsInv, [Next]_vars
  PROVE  RowsInv'
<1>1. RowsStep /\ IInv'
  BY StepsOfRows, NextIInv DEF RowsInv
<1>2. FeeInv' /\ MoneyTyped /\ sale.refBase \in 0..Base
  <2>1. FeeInv' /\ MoneyTyped
    BY <1>1, TypeParts DEF IInv
  <2> QED BY <2>1, MoneyFields
<1>3. CASE RowsSame
  BY <1>2, <1>3 DEF RowsSame, RowsInv, SlotInv, RefundsAddUp, FeeInv
<1>4. ASSUME NEW amount \in 1..Room, NEW source \in Sources, NEW fault \in BOOLEAN,
             sale.paid, Fills(amount, source, fault)
      PROVE  RowsInv'
  <2>1. RefundsAddUp'
    BY <1>2, <1>4, FillAdds DEF Fills, RowsInv
  <2>2. \A s \in Sources \ {source} : given'[s] = given[s]
    BY <1>2, <1>4 DEF Fills, Refund, MoneyTyped
  <2>3. sale'.refBase = sale.refBase + amount
    BY <1>2, <1>4 DEF Fills, Refund, RefundOf, MoneyTyped
  <2>4. ASSUME given'["cancel"] # NoRefund
        PROVE  sale'.refBase = Base
    <3>1. CASE source = "cancel"
      BY <1>2, <1>4, <2>3, <3>1 DEF Fills, Room
    <3>2. CASE source # "cancel"
      <4>1. given["cancel"] # NoRefund
        BY <2>2, <2>4, <3>2 DEF Sources
      <4>2. sale.refBase = Base
        BY <4>1 DEF RowsInv, SlotInv
      <4> QED BY <1>2, <4>2 DEF Room
    <3> QED BY <3>1, <3>2
  <2>5. ASSUME NEW t \in Tickets, given'[t] # NoRefund
        PROVE  t \in refunded'
    <3>1. CASE source = t
      BY <1>4, <3>1 DEF Fills
    <3>2. CASE source # t
      <4>1. given[t] # NoRefund
        BY <2>2, <2>5, <3>2 DEF Sources
      <4> QED BY <1>4, <4>1 DEF Fills, RowsInv, SlotInv
    <3> QED BY <3>1, <3>2
  <2>6. SlotInv'
    BY <2>4, <2>5 DEF SlotInv
  <2> QED BY <2>1, <2>6 DEF RowsInv
<1> QED BY <1>1, <1>3, <1>4 DEF RowsStep

\* The strengthening holds in every reachable state.
THEOREM Inductive == Spec => []IInv
BY InitIInv, NextIInv, PTL DEF Spec

\* Every variable stays in its type: no account runs below nothing but the wallet's and the
\* business's, and the payment charge given back never passes what was charged.
THEOREM TypesHold == Spec => []TypeOK
<1>1. IInv => TypeOK
  BY DEF IInv
<1> QED BY <1>1, Inductive, PTL

\* The refunds' rows make up the sale's totals and the payment charge given back, and a sale is
\* reversed exactly when they make up the price: whatever the order of cancels, tickets, disputes
\* and a cancelled event, no row is filled twice and none is lost (refund, by source).
THEOREM RefundsAreAllThere == Spec => []RefundsAddUp
<1>1. Init => IInv /\ RowsInv
  BY InitIInv, InitRows
<1>2. (IInv /\ RowsInv) /\ [Next]_vars => (IInv /\ RowsInv)'
  BY NextIInv, StepRows
<1>3. RowsInv => RefundsAddUp
  BY DEF RowsInv
<1> QED BY <1>1, <1>2, <1>3, PTL DEF Spec

\* Pending, Available, fee income and the customer's wallet always agree with what was
\* released and refunded, in whatever order (release, refund).
THEOREM BooksAgree == Spec => []BooksBalance
<1>1. IInv => BooksBalance
  BY DEF IInv
<1> QED BY <1>1, Inductive, PTL

\* The fee kept is the fee's share of what the business kept, to half a pesewa (fee_share).
THEOREM FeeIsFair == Spec => []FeeIsItsShare
<1>1. IInv => FeeIsItsShare
  <2> SUFFICES ASSUME IInv, sale.released
               PROVE  LET off == 2 * (books.income * Base - Charged * Room)
                      IN  -Base <= off /\ off <= Base
    BY DEF FeeIsItsShare
  <2>1. sale.refBase \in 0..Base
    BY TypeParts, MoneyFields DEF IInv
  <2>2. books.income = Charged - FeeShare(Charged, Base, sale.refBase)
    BY DEF IInv, FeeInv
  <2> QED BY <2>1, <2>2, FeeShareNear DEF Room
<1> QED BY <1>1, Inductive, PTL

\* A customer given their money back by a cancel never gets the booking too.
THEOREM NoMoneyAndGoods == Spec => []CancelledIsNotReceived
<1>1. IInv => CancelledIsNotReceived
  BY DEF IInv
<1> QED BY <1>1, Inductive, PTL

\* "Matches" is on the sale exactly when its money went out, and a negative call has a
\* dispute to settle it (record_verification, _release_on_clock).
THEOREM OutcomesAreTrue == Spec => [](MatchesIsReleased /\ NegativeCallHasADispute)
<1>1. IInv => MatchesIsReleased /\ NegativeCallHasADispute
  BY DEF IInv
<1> QED BY <1>1, Inductive, PTL

\* When every ticket is marked refunded the whole price went back (_refund_one).
THEOREM AllTicketsAllBack == Spec => []TicketsGiveItAllBack
<1>1. IInv => TicketsGiveItAllBack
  <2> SUFFICES ASSUME IInv, kind = "tickets", refunded = Tickets
               PROVE  sale.refBase = Base
    BY DEF TicketsGiveItAllBack
  <2>1. sale.refBase \in 0..Base
    BY TypeParts, MoneyFields DEF IInv
  <2>2. sale.refBase = Base \/ sale.refBase >= Base
    BY PriceAssumption DEF IInv, TicketInv
  <2> QED BY <2>1, <2>2
<1> QED BY <1>1, Inductive, PTL

\* Only these steps release.
LEMMA Releasing ==
  ASSUME MoneyTyped, Next, ~sale.released, sale'.released
  PROVE  SweepReleases \/ Accept \/ CallActs
<1>1. ASSUME NEW amount, NEW source, NEW fault, Refund(amount, source, fault)
      PROVE  FALSE
  <2>1. PICK base, fee, all : sale' = [sale EXCEPT !.refBase = base, !.refFee = fee, !.reversed = all]
    BY <1>1 DEF Refund
  <2> QED BY <2>1 DEF MoneyTyped
<1>2. ASSUME NEW byWallet \in BOOLEAN, Pay(byWallet)
      PROVE  FALSE
  <2>1. PICK charge : sale' = [sale EXCEPT !.paid = TRUE, !.charge = charge]
    BY <1>2 DEF Pay
  <2> QED BY <2>1 DEF MoneyTyped
<1>3. ASSUME UNCHANGED sale PROVE FALSE
  BY <1>3
<1>4. CASE \E t \in Tickets : RefundTicket(t) \/ RefundNext(t)
  BY <1>1, <1>3, <1>4 DEF RefundTicket, RefundNext, money
<1>5. CASE SupportCancel \/ CustomerCancel \/ Resolve
  BY <1>1, <1>3, <1>5 DEF SupportCancel, CustomerCancel, Resolve, RefundAlone, money
<1>6. CASE \E t \in Tickets : Scan(t)
  BY <1>3, <1>6 DEF Scan, money
<1>7. CASE CancelUnpaid \/ Progress \/ Tick \/ SweepReads \/ CallReads \/ Report \/ Reject \/ Reopen
           \/ ReopenReads \/ ReopenSaves \/ Edit \/ Review \/ SendBackReads \/ SendBackSaves
           \/ CancelEvent \/ FinishRefunds \/ Crash
  BY <1>3, <1>7 DEF CancelUnpaid, Progress, Tick, SweepReads, CallReads, Report, Reject, Reopen, ReopenReads,
                    ReopenSaves, Edit, Review, SendBackReads, SendBackSaves, CancelEvent, FinishRefunds,
                    Crash, money
<1> QED BY <1>2, <1>4, <1>5, <1>6, <1>7 DEF Next

\* Money is never paid out while a problem is open (release).
THEOREM DisputeHoldsTheMoney == Spec => NoReleaseUnderDispute
<1>1. IInv /\ [Next]_vars => [~sale.released /\ sale'.released => dispute # "open" /\ dispute' # "open"]_vars
  <2> SUFFICES ASSUME IInv, Next, ~sale.released, sale'.released
               PROVE  dispute # "open" /\ dispute' # "open"
    OBVIOUS
  <2>1. MoneyTyped
    BY TypeParts DEF IInv
  <2>2. SweepReleases \/ Accept \/ CallActs
    BY <2>1, Releasing
  <2>3. CASE SweepReleases \/ Accept
    BY <2>3 DEF SweepReleases, Accept, Open
  <2>4. CASE CallActs
    <3>1. CASE CallMatches
      BY <3>1 DEF CallMatches
    <3>2. CASE CallDiffers \/ CallUnreachable
      <4>1. PICK o : sale' = [sale EXCEPT !.outcome = o]
        BY <3>2 DEF CallDiffers, CallUnreachable
      <4> QED BY <2>1, <4>1 DEF MoneyTyped
    <3>3. CASE CallRefused
      BY <3>3 DEF CallRefused, money
    <3> QED BY <2>4, <3>1, <3>2, <3>3 DEF CallActs
  <2> QED BY <2>2, <2>3, <2>4
<1> QED BY <1>1, Inductive, PTL DEF Spec, NoReleaseUnderDispute
=============================================================================
