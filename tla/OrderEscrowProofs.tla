-------------------------- MODULE OrderEscrowProofs -------------------------
(***************************************************************************)
(* For any vendors, riders, cases and amounts: the books of an order       *)
(* balance, nothing of it is overdrawn, vendors, riders and a customer     *)
(* refunded whole have what is theirs, and a rider is paid for that        *)
(* rider's own trip.                                                       *)
(*                                                                         *)
(* The invariant keeps four parts of the money apart, for each step moves  *)
(* only some of them: what was given back (BackSound), the delivery's      *)
(* (DeliverySound), the vendors' (ShopsSound) and the second trip's        *)
(* (RedoFeeHeld); StageInv says which of them a state of the order has     *)
(* settled.  The sum of all accounts is kept by every journal by itself.   *)
(*                                                                         *)
(* The last part is RefundShares', which shares with the order only the    *)
(* arithmetic: any sequence of partial refunds, each shop with its own     *)
(* base and fee.                                                           *)
(***************************************************************************)
EXTENDS OrderEscrow, RefundShares, MoneyLemmas

Earners == ThirdParty \cup {"none"}
Stages == {"none", "owed", "charged", "reversed", "returned"}
Ledger == [books : [Account -> Int], taken : Int, earner : Earners, waiver : Stages]

PendingOf(l, v) == l.books[<<"vendor_pending", v>>]
AvailableOf(l, v) == l.books[<<"vendor_available", v>>]
BalanceOf(l, r) == l.books[<<"rider_balance", r>>]

\* The amounts and sets an order is made of, in the form the proofs use them.
LEMMA TheAmounts ==
  /\ Base \in Nat \ {0} /\ Fee \in Nat /\ Fee <= Base
  /\ DeliveryFee \in Nat /\ Waived \in Nat /\ (DeliveryFee = 0 \/ Waived = 0)
  /\ Vendors \in Nat \ {0} /\ Vendors * Base \in Nat
  /\ Discount \in Nat /\ Discount < Vendors * Base
  /\ Processing \in Nat /\ RedoFee \in Nat \ {0}
  /\ BusinessFunds \in BOOLEAN /\ ThirdParty \subseteq Rider /\ "none" \notin Rider
<1>1. Vendors \in Nat \ {0} /\ "none" \notin Rider
  BY JobAssumption
<1>2. Base \in Nat \ {0} /\ Fee \in Nat /\ Fee <= Base
  BY EscrowAssumption
<1>3. Vendors * Base \in Nat
  BY <1>1, <1>2
<1>4. Discount \in Nat /\ Discount < Vendors * Base
  BY <1>3, EscrowAssumption
<1>5. /\ DeliveryFee \in Nat /\ Waived \in Nat /\ (DeliveryFee = 0 \/ Waived = 0)
      /\ Processing \in Nat /\ RedoFee \in Nat \ {0}
  BY EscrowAssumption
<1>6. BusinessFunds \in BOOLEAN /\ ThirdParty \subseteq Rider
  BY EscrowAssumption, Zenon
<1> QED BY <1>1, <1>2, <1>3, <1>4, <1>5, <1>6

\* Which account is which.
Kinds(a) ==
  /\ a \notin Pending \cup Available \cup RiderBalance
  /\ \A v \in Vendor : a # <<"vendor_pending", v>> /\ a # <<"vendor_available", v>>
  /\ \A r \in Rider : a # <<"rider_balance", r>>

\* Every account is one, and none is of two kinds.
LEMMA TheAccounts ==
  /\ \A a \in {Clearing, Wallet, Promo, FeeIncome, DeliveryIncome, ProviderFees, Payable, RedoPayable} : Kinds(a) /\ a \in Account
  /\ \A v \in Vendor : /\ <<"vendor_pending", v>> \in Pending /\ <<"vendor_pending", v>>[2] = v
                       /\ <<"vendor_pending", v>> \in Account
                       /\ <<"vendor_pending", v>> \notin Available \cup RiderBalance
                       /\ <<"vendor_available", v>> \in Available /\ <<"vendor_available", v>>[2] = v
                       /\ <<"vendor_available", v>> \in Account
                       /\ <<"vendor_available", v>> \notin Pending \cup RiderBalance
  /\ \A r \in Rider : /\ <<"rider_balance", r>> \in RiderBalance
                      /\ <<"rider_balance", r>> \in Account
                      /\ <<"rider_balance", r>> \notin Pending \cup Available
<1>1. \A v \in Vendor, w \in Vendor : <<"vendor_pending", v>> # <<"vendor_available", w>>
  OBVIOUS
<1>2. \A v \in Vendor, r \in Rider : <<"vendor_pending", v>> # <<"rider_balance", r>> /\ <<"vendor_available", v>> # <<"rider_balance", r>>
  OBVIOUS
<1>3. \A v \in Vendor : <<"vendor_pending", v>> \in Pending /\ <<"vendor_available", v>> \in Available
  BY DEF Pending, Available
<1>4. \A r \in Rider : <<"rider_balance", r>> \in RiderBalance
  BY DEF RiderBalance
<1>5. \A a \in {Clearing, Wallet, Promo, FeeIncome, DeliveryIncome, ProviderFees, Payable, RedoPayable} : Kinds(a)
  BY DEF Kinds, Pending, Available, RiderBalance, Clearing, Wallet, Promo, FeeIncome,
     DeliveryIncome, ProviderFees, Payable, RedoPayable
<1>6. \A v \in Vendor : <<"vendor_pending", v>>[2] = v /\ <<"vendor_available", v>>[2] = v
  OBVIOUS
<1>7. \A v \in Vendor : <<"vendor_pending", v>> \notin Available \cup RiderBalance /\ <<"vendor_available", v>> \notin Pending \cup RiderBalance
  BY DEF Pending, Available, RiderBalance
<1>8. \A r \in Rider : <<"rider_balance", r>> \notin Pending \cup Available
  BY DEF Pending, Available, RiderBalance
<1> QED BY <1>3, <1>4, <1>5, <1>6, <1>7, <1>8 DEF Account

\* No two of them are one.
LEMMA TheyDiffer ==
  /\ Clearing # Wallet /\ Clearing # Promo /\ Clearing # FeeIncome /\ Clearing # DeliveryIncome
  /\ Clearing # ProviderFees /\ Clearing # Payable /\ Clearing # RedoPayable
  /\ Wallet # Promo /\ Wallet # FeeIncome /\ Wallet # DeliveryIncome /\ Wallet # ProviderFees
  /\ Wallet # Payable /\ Wallet # RedoPayable
  /\ Promo # FeeIncome /\ Promo # DeliveryIncome /\ Promo # ProviderFees /\ Promo # Payable /\ Promo # RedoPayable
  /\ FeeIncome # DeliveryIncome /\ FeeIncome # ProviderFees /\ FeeIncome # Payable /\ FeeIncome # RedoPayable
  /\ DeliveryIncome # ProviderFees /\ DeliveryIncome # Payable /\ DeliveryIncome # RedoPayable
  /\ ProviderFees # Payable /\ ProviderFees # RedoPayable /\ Payable # RedoPayable
  /\ \A v, w \in Vendor : v # w => /\ <<"vendor_pending", v>> # <<"vendor_pending", w>>
                                  /\ <<"vendor_available", v>> # <<"vendor_available", w>>
  /\ \A r, s \in Rider : r # s => <<"rider_balance", r>> # <<"rider_balance", s>>
BY DEF Clearing, Wallet, Promo, FeeIncome, DeliveryIncome, ProviderFees, Payable, RedoPayable

\* A journal adds its lines to the books and changes nothing else.
LEMMA PostIs ==
  ASSUME NEW l \in Ledger, NEW lines \in [Account -> Int]
  PROVE  /\ Post(l, lines) \in Ledger
         /\ Post(l, lines).taken = l.taken /\ Post(l, lines).earner = l.earner /\ Post(l, lines).waiver = l.waiver
         /\ \A a \in Account : Post(l, lines).books[a] = l.books[a] + lines[a]
<1> DEFINE b == [a \in Account |-> l.books[a] + lines[a]]
<1>1. b \in [Account -> Int] /\ \A a \in Account : b[a] = l.books[a] + lines[a]
  BY DEF Ledger
<1>2. Post(l, lines) = [l EXCEPT !.books = b]
  BY DEF Post
<1> HIDE DEF b
<1> QED BY <1>1, <1>2 DEF Ledger

\* A transfer moves its amount from one account to the other.
LEMMA TransferIs ==
  ASSUME NEW l \in Ledger, NEW from \in Account, NEW to \in Account, from # to, NEW n \in Int
  PROVE  /\ Transfer(l, from, to, n) \in Ledger
         /\ Transfer(l, from, to, n).taken = l.taken
         /\ Transfer(l, from, to, n).earner = l.earner
         /\ Transfer(l, from, to, n).waiver = l.waiver
         /\ \A a \in Account : Transfer(l, from, to, n).books[a] = 
               l.books[a] + (IF a = from THEN -n ELSE IF a = to THEN n ELSE 0)
<1> DEFINE lines == TransferLines(from, to, n)
<1>1. lines \in [Account -> Int] /\ \A a \in Account : lines[a] = IF a = from THEN -n ELSE IF a = to THEN n ELSE 0
  BY DEF TransferLines
<1>2. Transfer(l, from, to, n) = Post(l, lines)
  BY DEF Transfer
<1> HIDE DEF lines
<1> QED BY <1>1, <1>2, PostIs

-----------------------------------------------------------------------------
Owed(l) == IF l.waiver = "owed" THEN Waived ELSE 0
Charged(l) == IF l.waiver = "charged" THEN Waived ELSE 0
Due(l, r) == IF r \in ThirdParty /\ l.earner = "none" /\ l.taken > 0 THEN l.taken ELSE 0

\* Whoever funds the promo has an account of its own.
LEMMA FunderIs == Funder \in Account /\ Funder # DeliveryIncome /\ Funder \in Available \cup {Promo}
<1>1. 1 \in Vendor
  BY TheAmounts DEF Vendor
<1> QED BY <1>1, TheAccounts, TheyDiffer DEF Funder, Kinds

\* The held fee goes whole to the delivery income.
LEMMA FeeTakenIs ==
  ASSUME NEW l \in Ledger
  PROVE  /\ FeeTaken(l) \in Ledger
         /\ FeeTaken(l).taken = l.taken + l.books[Payable]
         /\ FeeTaken(l).earner = l.earner
         /\ FeeTaken(l).waiver = l.waiver
         /\ \A a \in Account : FeeTaken(l).books[a] =
               l.books[a] + (IF a = Payable THEN -l.books[Payable] ELSE IF a = DeliveryIncome THEN l.books[Payable] ELSE 0)
<1> DEFINE held == l.books[Payable]
           m == Transfer(l, Payable, DeliveryIncome, held)
<1>1. held \in Int
  BY TheAccounts DEF Ledger
<1>2. /\ m \in Ledger /\ m.taken = l.taken /\ m.earner = l.earner /\ m.waiver = l.waiver
      /\ \A a \in Account : m.books[a] = l.books[a] + (IF a = Payable THEN -held ELSE IF a = DeliveryIncome THEN held ELSE 0)
  <2>1. Payable \in Account /\ DeliveryIncome \in Account /\ Payable # DeliveryIncome
    BY TheAccounts, TheyDiffer
  <2> HIDE DEF held
  <2> QED BY <1>1, <2>1, TransferIs
<1>3. FeeTaken(l) = [m EXCEPT !.taken = m.taken + held]
  BY DEF FeeTaken
<1> HIDE DEF m
<1> QED BY <1>1, <1>2, <1>3 DEF Ledger

\* A promo is charged once, to its funder.
LEMMA PromoChargedIs ==
  ASSUME NEW l \in Ledger
  PROVE  /\ PromoCharged(l) \in Ledger
         /\ PromoCharged(l).taken = l.taken + Owed(l)
         /\ PromoCharged(l).earner = l.earner
         /\ PromoCharged(l).waiver = IF l.waiver = "owed" THEN "charged" ELSE l.waiver
         /\ \A a \in Account : PromoCharged(l).books[a] =
               l.books[a] + (IF a = Funder THEN -Owed(l) ELSE IF a = DeliveryIncome THEN Owed(l) ELSE 0)
<1> DEFINE m == Transfer(l, Funder, DeliveryIncome, Waived)
<1>1. Waived \in Int
  BY TheAmounts
<1>2. /\ m \in Ledger /\ m.taken = l.taken /\ m.earner = l.earner /\ m.waiver = l.waiver
      /\ \A a \in Account : m.books[a] = l.books[a] + (IF a = Funder THEN -Waived ELSE IF a = DeliveryIncome THEN Waived ELSE 0)
  BY <1>1, TheAccounts, FunderIs, TransferIs
<1>3. PromoCharged(l) = IF l.waiver = "owed" THEN [m EXCEPT !.taken = m.taken + Waived, !.waiver = "charged"] ELSE l
  BY DEF PromoCharged
<1> HIDE DEF m
<1>4. CASE l.waiver = "owed"
  <2>1. PromoCharged(l) = [m EXCEPT !.taken = m.taken + Waived, !.waiver = "charged"]
    BY <1>3, <1>4
  <2>2. PromoCharged(l) \in Ledger
    <3> DEFINE n == m.taken + Waived
    <3>1. n \in Int /\ m \in Ledger
      BY <1>1, <1>2 DEF Ledger
    <3>2. PromoCharged(l) = [[m EXCEPT !.taken = n] EXCEPT !.waiver = "charged"]
      BY <2>1, <3>1 DEF Ledger
    <3> HIDE DEF n
    <3>3. [m EXCEPT !.taken = n] \in Ledger
      BY <3>1 DEF Ledger
    <3> QED BY <3>2, <3>3 DEF Ledger, Stages
  <2>3. /\ PromoCharged(l).taken = m.taken + Waived /\ PromoCharged(l).earner = m.earner
        /\ PromoCharged(l).waiver = "charged" /\ PromoCharged(l).books = m.books
    BY <1>2, <2>1 DEF Ledger
  <2>4. Owed(l) = Waived
    BY <1>4 DEF Owed
  <2> QED BY <1>2, <1>4, <2>2, <2>3, <2>4
<1>5. CASE l.waiver # "owed"
  BY <1>3, <1>5 DEF Ledger, Owed
<1> QED BY <1>4, <1>5

\* A charged promo goes back to its funder.
LEMMA PromoReturnedIs ==
  ASSUME NEW l \in Ledger
  PROVE  /\ PromoReturned(l) \in Ledger
         /\ PromoReturned(l).taken = l.taken
         /\ PromoReturned(l).earner = l.earner
         /\ PromoReturned(l).waiver = IF l.waiver = "owed" THEN "reversed" ELSE IF l.waiver = "charged" THEN "returned" ELSE l.waiver
         /\ \A a \in Account : PromoReturned(l).books[a] =
               l.books[a] + (IF a = Funder THEN Charged(l) ELSE IF a = DeliveryIncome THEN -Charged(l) ELSE 0)
<1> DEFINE m == Transfer(l, DeliveryIncome, Funder, Waived)
<1>1. Waived \in Int
  BY TheAmounts
<1>2. /\ m \in Ledger /\ m.taken = l.taken /\ m.earner = l.earner /\ m.waiver = l.waiver
      /\ \A a \in Account : m.books[a] = l.books[a] + (IF a = DeliveryIncome THEN -Waived ELSE IF a = Funder THEN Waived ELSE 0)
  BY <1>1, TheAccounts, FunderIs, TransferIs
<1>3. PromoReturned(l) = IF l.waiver = "owed" THEN [l EXCEPT !.waiver = "reversed"]
                         ELSE IF l.waiver = "charged" THEN [m EXCEPT !.waiver = "returned"] ELSE l
  BY DEF PromoReturned
<1> HIDE DEF m
<1>4. CASE l.waiver = "owed"
  BY <1>3, <1>4 DEF Ledger, Stages, Charged
<1>5. CASE l.waiver = "charged"
  BY <1>1, <1>2, <1>3, <1>5, FunderIs DEF Ledger, Stages, Charged
<1>6. CASE l.waiver \notin {"owed", "charged"}
  BY <1>3, <1>6 DEF Ledger, Charged
<1> QED BY <1>4, <1>5, <1>6

\* A third-party rider who is due the takings gets them, and nobody else does.
LEMMA RiderCreditedIs ==
  ASSUME NEW l \in Ledger, NEW r
  PROVE  /\ RiderCredited(l, r) \in Ledger
         /\ RiderCredited(l, r).taken = l.taken
         /\ RiderCredited(l, r).earner = IF Due(l, r) > 0 THEN r ELSE l.earner
         /\ RiderCredited(l, r).waiver = l.waiver
         /\ \A a \in Account : RiderCredited(l, r).books[a] =
               l.books[a] + (IF a = DeliveryIncome THEN -Due(l, r) ELSE IF a = <<"rider_balance", r>> THEN Due(l, r) ELSE 0)
<1> DEFINE m == Transfer(l, DeliveryIncome, <<"rider_balance", r>>, l.taken)
<1>1. l.taken \in Int
  BY DEF Ledger
<1>2. RiderCredited(l, r) = IF r \in ThirdParty /\ l.earner = "none" /\ l.taken > 0 THEN [m EXCEPT !.earner = r] ELSE l
  BY DEF RiderCredited
<1>3. CASE r \in ThirdParty /\ l.earner = "none" /\ l.taken > 0
  <2>1. r \in Rider /\ r \in Earners
    BY <1>3, TheAmounts DEF Earners
  <2>2. /\ m \in Ledger /\ m.taken = l.taken /\ m.earner = l.earner /\ m.waiver = l.waiver
        /\ \A a \in Account : m.books[a] = l.books[a] + (IF a = DeliveryIncome THEN -l.taken ELSE IF a = <<"rider_balance", r>> THEN l.taken ELSE 0)
    <3>1. DeliveryIncome \in Account /\ <<"rider_balance", r>> \in Account /\ DeliveryIncome # <<"rider_balance", r>>
      BY <2>1, TheAccounts DEF Kinds
    <3> DEFINE n == l.taken
               to == <<"rider_balance", r>>
    <3>2. n \in Int
      BY <1>1
    <3>3. DeliveryIncome \in Account /\ to \in Account /\ DeliveryIncome # to
      BY <3>1
    <3> HIDE DEF n, to
    <3>4. /\ Transfer(l, DeliveryIncome, to, n) \in Ledger
          /\ Transfer(l, DeliveryIncome, to, n).taken = l.taken
          /\ Transfer(l, DeliveryIncome, to, n).earner = l.earner
          /\ Transfer(l, DeliveryIncome, to, n).waiver = l.waiver
          /\ \A a \in Account : Transfer(l, DeliveryIncome, to, n).books[a] =
               l.books[a] + (IF a = DeliveryIncome THEN -n ELSE IF a = to THEN n ELSE 0)
      BY <3>2, <3>3, TransferIs
    <3> QED BY <3>4 DEF n, to
  <2> HIDE DEF m
  <2> QED BY <1>1, <1>2, <1>3, <2>1, <2>2 DEF Ledger, Due
<1>4. CASE ~(r \in ThirdParty /\ l.earner = "none" /\ l.taken > 0)
  BY <1>2, <1>4 DEF Ledger, Due
<1> QED BY <1>3, <1>4

\* The delivery settled: what is held and owed is taken, and the rider's part of it goes on.
Takings(l) == l.taken + l.books[Payable] + Owed(l)
Credit(l, r) == IF r \in ThirdParty /\ l.earner = "none" /\ Takings(l) > 0 THEN Takings(l) ELSE 0

\* The settlement of a delivery, all its parts together.
LEMMA SettledIs ==
  ASSUME NEW l \in Ledger, NEW r
  PROVE  /\ DeliverySettled(l, r) \in Ledger
         /\ DeliverySettled(l, r).taken = Takings(l)
         /\ DeliverySettled(l, r).earner = IF Credit(l, r) > 0 THEN r ELSE l.earner
         /\ DeliverySettled(l, r).waiver = IF l.waiver = "owed" THEN "charged" ELSE l.waiver
         /\ \A a \in Account : DeliverySettled(l, r).books[a] =
               l.books[a] + (IF a = Payable THEN -l.books[Payable]
                             ELSE IF a = DeliveryIncome THEN l.books[Payable] + Owed(l) - Credit(l, r)
                             ELSE IF a = Funder THEN -Owed(l)
                             ELSE IF a = <<"rider_balance", r>> THEN Credit(l, r) ELSE 0)
<1> DEFINE l1 == FeeTaken(l)
           l2 == PromoCharged(l1)
           held == l.books[Payable]
           wallet == <<"rider_balance", r>>
<1>1. /\ l1 \in Ledger /\ l1.taken = l.taken + held /\ l1.earner = l.earner /\ l1.waiver = l.waiver
      /\ \A a \in Account : l1.books[a] =
           l.books[a] + (IF a = Payable THEN -held ELSE IF a = DeliveryIncome THEN held ELSE 0)
  BY FeeTakenIs
<1> HIDE DEF l1
<1>2. /\ l2 \in Ledger /\ l2.taken = l1.taken + Owed(l1) /\ l2.earner = l1.earner
      /\ l2.waiver = IF l1.waiver = "owed" THEN "charged" ELSE l1.waiver
      /\ \A a \in Account : l2.books[a] =
           l1.books[a] + (IF a = Funder THEN -Owed(l1) ELSE IF a = DeliveryIncome THEN Owed(l1) ELSE 0)
  BY <1>1, PromoChargedIs
<1> HIDE DEF l2
<1> DEFINE d == RiderCredited(l2, r)
<1>3. /\ d \in Ledger /\ d.taken = l2.taken /\ d.earner = (IF Due(l2, r) > 0 THEN r ELSE l2.earner)
      /\ d.waiver = l2.waiver
      /\ \A a \in Account : d.books[a] =
           l2.books[a] + (IF a = DeliveryIncome THEN -Due(l2, r) ELSE IF a = wallet THEN Due(l2, r) ELSE 0)
  BY <1>2, RiderCreditedIs
<1>4. DeliverySettled(l, r) = d
  BY DEF DeliverySettled, l2, l1
<1> HIDE DEF d
<1>5. Owed(l1) = Owed(l)
  BY <1>1 DEF Owed
<1>6. l2.taken = Takings(l)
  BY <1>1, <1>2, <1>5 DEF Takings
<1>7. Due(l2, r) = Credit(l, r)
  BY <1>1, <1>2, <1>6 DEF Due, Credit
<1>8. held \in Int /\ Owed(l) \in Int /\ Credit(l, r) \in Int /\ \A a \in Account : l.books[a] \in Int
  BY TheAccounts, TheAmounts DEF Ledger, Owed, Credit, Takings
<1>9. /\ Payable # DeliveryIncome /\ Funder # DeliveryIncome /\ Funder # Payable
      /\ wallet # Payable /\ wallet # DeliveryIncome /\ wallet # Funder
  BY FunderIs, TheyDiffer DEF Funder, Payable, DeliveryIncome, Promo
<1> HIDE DEF held, wallet
<1>10. \A a \in Account : d.books[a] =
         l.books[a] + (IF a = Payable THEN -held
                       ELSE IF a = DeliveryIncome THEN held + Owed(l) - Credit(l, r)
                       ELSE IF a = Funder THEN -Owed(l)
                       ELSE IF a = wallet THEN Credit(l, r) ELSE 0)
  BY <1>1, <1>2, <1>3, <1>5, <1>7, <1>8, <1>9
<1> QED BY <1>1, <1>2, <1>3, <1>4, <1>6, <1>7, <1>10 DEF held, wallet

-----------------------------------------------------------------------------
(* The second trip's fee.                                                  *)

\* Money moves out of or into what is held for a second trip, and nowhere it is missed.
RedoMoved(l, m, n) ==
  /\ m \in Ledger /\ m.taken = l.taken /\ m.earner = l.earner /\ m.waiver = l.waiver
  /\ m.books[RedoPayable] = l.books[RedoPayable] + n
  /\ \A a \in Pending \cup Available \cup {Payable, FeeIncome} : m.books[a] = l.books[a]
  /\ \A a \in RiderBalance \cup {DeliveryIncome} : \E k \in Nat : m.books[a] = l.books[a] + k

\* A second trip paid for is money held.
LEMMA RedoPaidIn ==
  ASSUME NEW l \in Ledger
  PROVE  RedoMoved(l, Transfer(l, Clearing, RedoPayable, RedoFee), RedoFee)
<1> DEFINE m == Transfer(l, Clearing, RedoPayable, RedoFee)
<1>1. RedoFee \in Nat /\ Clearing \in Account /\ RedoPayable \in Account /\ Clearing # RedoPayable
  BY TheAmounts, TheAccounts, TheyDiffer
<1>2. /\ m \in Ledger /\ m.taken = l.taken /\ m.earner = l.earner /\ m.waiver = l.waiver
      /\ \A a \in Account : m.books[a] = l.books[a] + (IF a = Clearing THEN -RedoFee ELSE IF a = RedoPayable THEN RedoFee ELSE 0)
  BY <1>1, TransferIs
<1> HIDE DEF m
<1>3. \A a \in Pending \cup Available \cup RiderBalance \cup {Payable, FeeIncome, DeliveryIncome} :
        a \in Account /\ a # Clearing /\ a # RedoPayable
  BY TheAccounts, TheyDiffer DEF Account, Kinds
<1>4. \A a \in Account : l.books[a] \in Int
  BY DEF Ledger
<1>5. RedoMoved(l, m, RedoFee)
  BY <1>1, <1>2, <1>3, <1>4 DEF RedoMoved
<1> QED BY <1>5 DEF m

\* A second trip given up goes back to the customer.
LEMMA RedoReturnedOut ==
  ASSUME NEW l \in Ledger
  PROVE  RedoMoved(l, RedoReturned(l), -RedoFee)
<1> DEFINE m == Transfer(l, RedoPayable, Wallet, RedoFee)
<1>1. RedoFee \in Nat /\ Wallet \in Account /\ RedoPayable \in Account /\ Wallet # RedoPayable
  BY TheAmounts, TheAccounts, TheyDiffer
<1>2. /\ m \in Ledger /\ m.taken = l.taken /\ m.earner = l.earner /\ m.waiver = l.waiver
      /\ \A a \in Account : m.books[a] = l.books[a] + (IF a = RedoPayable THEN -RedoFee ELSE IF a = Wallet THEN RedoFee ELSE 0)
  BY <1>1, TransferIs
<1>3. RedoReturned(l) = m
  BY DEF RedoReturned
<1> HIDE DEF m
<1>4. \A a \in Pending \cup Available \cup RiderBalance \cup {Payable, FeeIncome, DeliveryIncome} :
        a \in Account /\ a # Wallet /\ a # RedoPayable
  BY TheAccounts, TheyDiffer DEF Account, Kinds
<1>5. \A a \in Account : l.books[a] \in Int
  BY DEF Ledger
<1> QED BY <1>1, <1>2, <1>3, <1>4, <1>5 DEF RedoMoved

\* A second trip made is the rider's or AshantiHub's.
LEMMA RedoSettledOut ==
  ASSUME NEW l \in Ledger, NEW r
  PROVE  RedoMoved(l, RedoSettled(l, r), -RedoFee)
<1> DEFINE to == IF r \in ThirdParty THEN <<"rider_balance", r>> ELSE DeliveryIncome
           m == Transfer(l, RedoPayable, to, RedoFee)
<1>1. RedoFee \in Nat /\ RedoPayable \in Account
  BY TheAmounts, TheAccounts
<1>2. to \in Account /\ to \in RiderBalance \cup {DeliveryIncome}
  BY TheAmounts, TheAccounts
<1>3. RedoSettled(l, r) = m
  BY DEF RedoSettled
<1> HIDE DEF to
<1>4. to # RedoPayable /\ \A a \in Pending \cup Available \cup {Payable, FeeIncome} : a # to
  BY <1>2, TheAccounts, TheyDiffer DEF Kinds, Pending, Available, RiderBalance
<1>5. /\ m \in Ledger /\ m.taken = l.taken /\ m.earner = l.earner /\ m.waiver = l.waiver
      /\ \A a \in Account : m.books[a] = l.books[a] + (IF a = RedoPayable THEN -RedoFee ELSE IF a = to THEN RedoFee ELSE 0)
  BY <1>1, <1>2, <1>4, TransferIs
<1> HIDE DEF m
<1>6. \A a \in Pending \cup Available \cup RiderBalance \cup {Payable, FeeIncome, DeliveryIncome} :
        a \in Account /\ a # RedoPayable
  BY TheAccounts, TheyDiffer DEF Account, Kinds
<1>7. \A a \in Account : l.books[a] \in Int
  BY DEF Ledger
<1> QED BY <1>1, <1>2, <1>3, <1>4, <1>5, <1>6, <1>7 DEF RedoMoved

\* What a whole refund does with an open request for a second trip.
RedoHeld == IF redo \in {"paid", "assigned"} THEN RedoFee ELSE 0

\* A refund leaves no second trip open and nothing held for it.
LEMMA RedoClosedOut ==
  ASSUME NEW l \in Ledger, NEW j
  PROVE  RedoMoved(l, RedoClosedIn(l, j), -RedoHeld) /\ RedoClosed(j) \notin {"paid", "assigned"}
<1>1. RedoMoved(l, l, 0)
  BY TheAccounts DEF RedoMoved, Ledger, Account
<1>2. CASE redo = "waiting"
  <2>1. RedoClosed(j) = "cancelled" /\ RedoClosedIn(l, j) = l /\ RedoHeld = 0
    BY <1>2 DEF RedoClosed, RedoClosedIn, RedoHeld
  <2> QED BY <1>1, <2>1
<1>3. CASE redo = "paid" \/ (redo = "assigned" /\ ~PickupMade(j))
  <2>1. RedoClosed(j) = "refunded"
    BY <1>3 DEF RedoClosed
  <2>2. RedoClosedIn(l, j) = RedoReturned(l) /\ RedoHeld = RedoFee
    BY <1>3, <2>1 DEF RedoClosedIn, RedoHeld
  <2> QED BY <2>1, <2>2, RedoReturnedOut
<1>4. CASE redo = "assigned" /\ PickupMade(j)
  <2>1. RedoClosed(j) = "completed"
    BY <1>4 DEF RedoClosed
  <2>2. RedoClosedIn(l, j) = RedoSettled(l, j.rider) /\ RedoHeld = RedoFee
    BY <1>4, <2>1 DEF RedoClosedIn, RedoHeld
  <2> QED BY <2>1, <2>2, RedoSettledOut
<1>5. CASE redo \notin {"waiting", "paid", "assigned"}
  <2>1. RedoClosed(j) = redo
    BY <1>5 DEF RedoClosed
  <2>2. RedoClosedIn(l, j) = l
    BY <2>1 DEF RedoClosedIn
  <2>3. RedoHeld = 0
    BY <1>5 DEF RedoHeld
  <2> QED BY <1>1, <1>5, <2>1, <2>2, <2>3
<1> QED BY <1>2, <1>3, <1>4, <1>5

-----------------------------------------------------------------------------
(* What is left of the items, and how it is shared.                        *)

Items == Vendors * Base
BackTyped == back.base \in [Vendor -> 0..Base]

\* The vendors of an order are finitely many.
LEMMA VendorFinite == IsFiniteSet(Vendor) /\ Cardinality(Vendor) = Vendors /\ Vendor \subseteq Int
<1>1. Vendors \in Nat
  BY TheAmounts
<1> QED BY <1>1, FS_Interval DEF Vendor

\* A sum of equal entries.
LEMMA SameForAll ==
  ASSUME NEW c \in Nat, NEW f \in [Vendor -> Int], \A v \in Vendor : f[v] = c
  PROVE  SumFunction(f) = Vendors * c
<1> DEFINE one == [v \in Vendor |-> 1]
<1>1. SumFunctionOnSet(one, Vendor) = Vendors
  BY VendorFinite, SumOnes
<1>2. SumFunctionOnSet(f, Vendor) = c * SumFunctionOnSet(one, Vendor)
  <2>1. \A x \in Vendor : one[x] \in Int /\ f[x] = c * one[x]
    OBVIOUS
  <2>2. IsFiniteSet(Vendor) /\ c \in Int
    BY VendorFinite
  <2> HIDE DEF one
  <2> QED BY <2>1, <2>2, SumTimes
<1>3. c * Vendors = Vendors * c
  BY TheAmounts
<1> QED BY <1>1, <1>2, <1>3 DEF SumFunction

\* What is left and what was given back make up the items.
LEMMA RoomIs ==
  ASSUME BackTyped
  PROVE  /\ Room \in [Vendor -> 0..Base] /\ \A v \in Vendor : Room[v] = Base - back.base[v]
         /\ SumFunction(back.base) \in Nat /\ SumFunction(Room) \in Nat
         /\ SumFunction(Room) = Items - SumFunction(back.base)
         /\ \A v \in Vendor : Room[v] <= SumFunction(Room)
<1> DEFINE all == [v \in Vendor |-> Base]
           given == back.base
<1>1. given \in [Vendor -> 0..Base] /\ Base \in Nat
  BY TheAmounts DEF BackTyped
<1>2. Room \in [Vendor -> 0..Base] /\ \A v \in Vendor : Room[v] = Base - given[v]
  BY <1>1 DEF Room
<1> HIDE DEF given
<1>3. SumFunctionOnSet(all, Vendor) = Items
  <2>1. all \in [Vendor -> Int] /\ \A v \in Vendor : all[v] = Base
    BY <1>1
  <2> HIDE DEF all
  <2>2. SumFunction(all) = Items
    BY <1>1, <2>1, SameForAll DEF Items
  <2> QED BY <2>1, <2>2 DEF SumFunction
<1>4. SumFunctionOnSet(all, Vendor) = SumFunctionOnSet(Room, Vendor) + SumFunctionOnSet(given, Vendor)
  <2> DEFINE room == Room
  <2>1. \A x \in Vendor : room[x] \in Int /\ given[x] \in Int /\ all[x] = room[x] + given[x]
    BY <1>1, <1>2
  <2>2. IsFiniteSet(Vendor)
    BY VendorFinite
  <2> HIDE DEF all, room
  <2>3. SumFunctionOnSet(all, Vendor) = SumFunctionOnSet(room, Vendor) + SumFunctionOnSet(given, Vendor)
    BY <2>1, <2>2, SumPlus
  <2> QED BY <2>3 DEF room
<1>5. /\ SumFunctionOnSet(Room, Vendor) \in Nat /\ SumFunctionOnSet(given, Vendor) \in Nat
      /\ \A v \in Vendor : Room[v] <= SumFunctionOnSet(Room, Vendor)
  <2>1. \A v \in Vendor : Room[v] \in Nat /\ given[v] \in Nat
    BY <1>1, <1>2
  <2> QED BY <2>1, VendorFinite, SumNat
<1>6. DOMAIN Room = Vendor /\ DOMAIN given = Vendor
  BY <1>1, <1>2
<1>7. SumFunction(Room) = SumFunctionOnSet(Room, Vendor) /\ SumFunction(given) = SumFunctionOnSet(given, Vendor)
  BY <1>6 DEF SumFunction
<1> QED BY <1>2, <1>3, <1>4, <1>5, <1>7 DEF given

\* Nothing is left of the items once nothing is left of their sum.
LEMMA RoomGone ==
  ASSUME BackTyped, SumFunction(Room) = 0
  PROVE  \A v \in Vendor : back.base[v] = Base
<1>1. \A v \in Vendor : Room[v] <= 0 /\ Room[v] = Base - back.base[v] /\ Room[v] \in 0..Base /\ back.base[v] \in 0..Base
  BY RoomIs DEF BackTyped
<1> QED BY <1>1, TheAmounts

\* With every item given back there is no room for more, whatever the scope.
LEMMA RoomAllGone ==
  ASSUME BackTyped, \A v \in Vendor : back.base[v] = Base
  PROVE  SumFunction(Room) = 0 /\ \A scope \in 0..Vendors : RoomOf(scope) = 0
<1>1. \A v \in Vendor : Room[v] = 0
  BY RoomIs, TheAmounts
<1>2. DOMAIN Room = Vendor
  BY RoomIs
<1>3. SumFunction(Room) = 0
  BY <1>1, <1>2, VendorFinite, SumZero DEF SumFunction
<1>4. \A scope \in 0..Vendors : scope # 0 => scope \in Vendor
  BY TheAmounts DEF Vendor
<1> QED BY <1>1, <1>3, <1>4 DEF RoomOf

\* A part's shares make up the amount, each within what is left of its vendor.
LEMMA PartIs ==
  ASSUME BackTyped, NEW scope \in 0..Vendors, NEW amount \in Nat \ {0}, amount <= RoomOf(scope), NEW charge
  PROVE  /\ PartGive(scope, amount, charge).base \in [Vendor -> Nat]
         /\ \A v \in Vendor : PartGive(scope, amount, charge).base[v] <= Room[v]
         /\ SumFunction(PartGive(scope, amount, charge).base) = amount
<1> DEFINE V == IF scope = 0 THEN Vendor ELSE {scope}
           room == [v \in V |-> Room[v]]
           share == Allocate(amount, room)
           base == [v \in Vendor |-> IF v \in DOMAIN share THEN share[v] ELSE 0]
<1>1. PartGive(scope, amount, charge).base = base
  BY DEF PartGive
<1>2. V \subseteq Vendor /\ IsFiniteSet(V) /\ V \subseteq Int
  <2>1. scope # 0 => scope \in Vendor
    BY TheAmounts DEF Vendor
  <2> QED BY <2>1, VendorFinite, FS_Singleton
<1>3. room \in [V -> Nat]
  BY <1>2, RoomIs
<1>4. SumFunction(room) = RoomOf(scope)
  <2>1. CASE scope = 0
    <3>1. DOMAIN Room = Vendor /\ V = Vendor /\ DOMAIN room = Vendor
      BY <2>1, RoomIs
    <3> DEFINE left == Room
    <3>2. \A x \in Vendor : left[x] \in Int /\ left[x] = room[x]
      BY <2>1, RoomIs
    <3>3. IsFiniteSet(Vendor)
      BY VendorFinite
    <3> HIDE DEF left, room
    <3>4. SumFunctionOnSet(left, Vendor) = SumFunctionOnSet(room, Vendor)
      BY <3>2, <3>3, SumSame
    <3> QED BY <2>1, <3>1, <3>4 DEF SumFunction, RoomOf, left
  <2>2. CASE scope # 0
    <3>1. V = {scope} /\ room[scope] = Room[scope] /\ DOMAIN room = {scope} /\ room[scope] \in Int
      BY <2>2, <1>2, RoomIs
    <3>2. SumFunctionOnSet(room, {scope}) = room[scope]
      BY <3>1, SumOne
    <3> QED BY <2>2, <3>1, <3>2 DEF SumFunction, RoomOf
  <2> QED BY <2>1, <2>2
<1>5. Fair(share, amount, room, V)
  <2> HIDE DEF V, room
  <2> QED BY <1>2, <1>3, <1>4, AllocateIsFair
<1> HIDE DEF share
<1>6. /\ share \in [V -> Nat] /\ SumFunctionOnSet(share, V) = amount
      /\ \A v \in V : share[v] <= room[v]
  BY <1>5 DEF Fair
<1> HIDE DEF room, V
<1>7. base \in [Vendor -> Nat] /\ \A v \in Vendor : base[v] = IF v \in V THEN share[v] ELSE 0
  BY <1>6
<1>8. \A v \in V : share[v] <= Room[v]
  BY <1>6 DEF room
<1>9. \A v \in Vendor : base[v] <= Room[v]
  BY <1>7, <1>8, RoomIs
<1> HIDE DEF base
<1>10. SumFunctionOnSet(base, Vendor) = SumFunctionOnSet(base, V)
  <2>1. (\A x \in V : base[x] \in Int) /\ (\A x \in Vendor \ V : base[x] = 0)
    BY <1>2, <1>6, <1>7
  <2>2. V \in SUBSET Vendor /\ IsFiniteSet(Vendor)
    BY <1>2, VendorFinite
  <2> QED BY <2>1, <2>2, SumWhere
<1>11. SumFunctionOnSet(base, V) = SumFunctionOnSet(share, V)
  <2>1. \A v \in V : base[v] \in Int /\ base[v] = share[v]
    BY <1>2, <1>6, <1>7
  <2> QED BY <1>2, <2>1, SumSame
<1>12. SumFunction(base) = amount
  BY <1>6, <1>7, <1>10, <1>11 DEF SumFunction
<1> QED BY <1>1, <1>7, <1>9, <1>12

-----------------------------------------------------------------------------
(* The delivery.                                                           *)

CaseTypeOK ==
  case \in [Case -> [status : {"none", "open", "resolved", "rejected"}, scope : 0..Vendors,
                     asks : {All} \cup 0..Paid]]
Riding == job.status # "none" => job.rider \in Rider
JobSound == JobTypeOK /\ CaseTypeOK /\ Riding

\* The vendor a trip starts with is one of its vendors.
LEMMA FirstIs ==
  ASSUME NEW S \in SUBSET Vendor, S # {}
  PROVE  First(S) \in S
<1> DEFINE U == {T \in SUBSET Vendor : T = {} \/ \E c \in T : \A i \in T : c <= i}
<1>1. {} \in U
  OBVIOUS
<1>2. \A T \in SUBSET Vendor : \A x \in Vendor \ T : T \in U => T \cup {x} \in U
  <2> SUFFICES ASSUME NEW T \in SUBSET Vendor, NEW x \in Vendor \ T, T \in U PROVE T \cup {x} \in U
    OBVIOUS
  <2>1. CASE T = {}
    BY <2>1, VendorFinite
  <2>2. CASE T # {}
    <3>1. PICK c \in T : \A i \in T : c <= i
      BY <2>2
    <3>2. CASE c <= x
      BY <3>1, <3>2
    <3>3. CASE x < c
      <4>1. \A i \in T \cup {x} : x <= i
        BY <3>1, <3>3, VendorFinite
      <4> QED BY <4>1
    <3> QED BY <3>1, <3>2, <3>3, VendorFinite
  <2> QED BY <2>1, <2>2
<1>3. S \in U
  <2>1. IsFiniteSet(S)
    BY VendorFinite, FS_Subset
  <2>2. \A T \in SUBSET S : \A x \in S \ T : T \in U => T \cup {x} \in U
    BY <1>2
  <2> HIDE DEF U
  <2> QED BY <1>1, <2>1, <2>2, SubsetInduction
<1> QED BY <1>3 DEF First

\* What a step of the delivery alone leaves as it was.
JobOnly ==
  /\ JobSound'
  /\ order' = order /\ refunded' = refunded
  /\ Delivered(job) => job' = job
  /\ firstLeg' # firstLeg => ~refunded /\ ~Delivered(job)
  /\ redo \in {"paid", "assigned"} <=> redo' \in {"paid", "assigned"}

\* A case opened is a case.
LEMMA NewCaseType ==
  ASSUME CaseTypeOK, NEW scope \in 0..Vendors, NewCase(scope)
  PROVE  CaseTypeOK'
<1>1. 0 \in {All} \cup 0..Paid
  BY TheAmounts DEF Paid, All
<1> QED BY <1>1 DEF NewCase, CaseTypeOK, NoCase

\* An assignment, to a first trip or a second, touches the delivery only.
LEMMA AssignIs ==
  ASSUME JobSound, NEW r \in Rider, NEW status \in {"assigned", "accepted"}, Assign(r, status),
         moving' \in {"processing", "out", "delivered"}, picked' \in BOOLEAN
  PROVE  JobOnly
<1>1. StopsReopened \in [Vendor -> Rider \cup {"open", "skipped"}]
  BY DEF StopsReopened, JobSound, JobTypeOK
<1>2. job' = [status |-> status, rider |-> r, stop |-> StopsReopened, pickedBy |-> "none", reason |-> "none"]
  BY DEF Assign, GivenTo
<1>3. /\ order' = order /\ refunded' = refunded /\ firstLeg' = firstLeg /\ trips' = trips /\ case' = case
      /\ ~Delivered(job)
      /\ redo' = IF Away(job) THEN "assigned" ELSE redo
      /\ Away(job) => redo = "paid"
  BY DEF Assign, RedoPaid, Delivered
<1>4. JobTypeOK'
  BY <1>1, <1>2, <1>3 DEF JobSound, JobTypeOK
<1>5. CaseTypeOK' /\ Riding'
  BY <1>2, <1>3 DEF JobSound, CaseTypeOK, Riding
<1> QED BY <1>3, <1>4, <1>5 DEF JobOnly, JobSound

\* So does the end of a stop.
LEMMA AfterStopIs ==
  ASSUME JobSound, CaseTypeOK', NEW j, AfterStop(j), j.status \in {"assigned", "accepted"},
         j \in [status : {"none", "assigned", "accepted", "picked_up", "delivered", "failed"},
              rider : Rider,
              stop : [Vendor -> Rider \cup {"open", "skipped"}],
              pickedBy : Rider \cup {"none"},
              reason : {"none", "away", "other", "all_skipped", "order_cancelled"}],
         ~Delivered(job)
  PROVE  JobOnly
<1>1. Collected(j) # {} => PickupBy(j) \in Rider
  <2> SUFFICES ASSUME Collected(j) # {} PROVE PickupBy(j) \in Rider
    OBVIOUS
  <2>1. First(Collected(j)) \in Collected(j)
    BY FirstIs DEF Collected
  <2> QED BY <2>1 DEF PickupBy, Collected
<1>2. /\ job' \in [status : {"none", "assigned", "accepted", "picked_up", "delivered", "failed"},
              rider : Rider,
              stop : [Vendor -> Rider \cup {"open", "skipped"}],
              pickedBy : Rider \cup {"none"},
              reason : {"none", "away", "other", "all_skipped", "order_cancelled"}]
  BY <1>1 DEF AfterStop
<1>3. /\ order' = order /\ refunded' = refunded /\ picked' = picked /\ redo' = redo /\ firstLeg' = firstLeg /\ trips' = trips
      /\ moving' \in {"out", moving}
  BY DEF AfterStop, redelivery
<1>4. JobTypeOK' /\ Riding'
  BY <1>2, <1>3 DEF JobSound, JobTypeOK, Riding
<1> QED BY <1>3, <1>4 DEF JobOnly, JobSound

\* And so does every step that moves no money.
LEMMA JobStepIs ==
  ASSUME JobSound, JobStep
  PROVE  JobOnly
<1>1. CASE OpenCase
  <2>1. CaseTypeOK'
    BY <1>1, NewCaseType, TheAmounts DEF OpenCase, JobSound
  <2> QED BY <1>1, <2>1 DEF OpenCase, JobOnly, JobSound, JobTypeOK, Riding, assignment, redelivery
<1>2. CASE ReadWaiting
  BY <1>2 DEF ReadWaiting, JobOnly, JobSound, JobTypeOK, CaseTypeOK, Riding, redelivery
<1>3. ASSUME NEW r \in Rider, AssignByManager(r) \/ AcceptOffer(r) \/ ForceAssign(r)
      PROVE  JobOnly
  <2>1. moving \in {"processing", "out", "delivered"} /\ picked \in BOOLEAN
    BY DEF JobSound, JobTypeOK
  <2>2. CASE AssignByManager(r)
    BY <2>1, <2>2, AssignIs DEF AssignByManager
  <2>3. CASE AcceptOffer(r)
    BY <2>1, <2>3, AssignIs DEF AcceptOffer
  <2>4. CASE ForceAssign(r)
    BY <2>1, <2>4, AssignIs DEF ForceAssign
  <2> QED BY <1>3, <2>2, <2>3, <2>4
<1>4. CASE Accept
  BY <1>4 DEF Accept, JobOnly, JobSound, JobTypeOK, CaseTypeOK, Riding, redelivery, Delivered
<1>5. CASE Collect
  <2> DEFINE j == [job EXCEPT !.stop[First(Open(job))] = job.rider]
  <2>1. job.rider \in Rider /\ job.status = "accepted"
    BY <1>5 DEF Collect, JobSound, Riding
  <2>2. /\ j \in [status : {"none", "assigned", "accepted", "picked_up", "delivered", "failed"},
              rider : Rider,
              stop : [Vendor -> Rider \cup {"open", "skipped"}],
              pickedBy : Rider \cup {"none"},
              reason : {"none", "away", "other", "all_skipped", "order_cancelled"}]
        /\ j.status = "accepted"
    BY <2>1 DEF JobSound, JobTypeOK
  <2>3. AfterStop(j) /\ CaseTypeOK'
    BY <1>5 DEF Collect, JobSound, CaseTypeOK
  <2> HIDE DEF j
  <2> QED BY <2>1, <2>2, <2>3, AfterStopIs DEF Delivered
<1>6. ASSUME NEW v \in Vendor, NEW byManager \in BOOLEAN, Skip(v, byManager)
      PROVE  JobOnly
  <2> DEFINE j == [job EXCEPT !.stop[v] = "skipped"]
  <2>1. job.rider \in Rider /\ job.status \in {"assigned", "accepted"}
    BY <1>6 DEF Skip, JobSound, Riding
  <2>2. /\ j \in [status : {"none", "assigned", "accepted", "picked_up", "delivered", "failed"},
              rider : Rider,
              stop : [Vendor -> Rider \cup {"open", "skipped"}],
              pickedBy : Rider \cup {"none"},
              reason : {"none", "away", "other", "all_skipped", "order_cancelled"}]
        /\ j.status \in {"assigned", "accepted"}
    BY <2>1 DEF JobSound, JobTypeOK
  <2>3. CaseTypeOK'
    <3>1. v \in 0..Vendors
      BY TheAmounts DEF Vendor
    <3>2. CASE UNCHANGED case
      BY <3>2 DEF JobSound, CaseTypeOK
    <3>3. CASE NewCase(v)
      BY <3>1, <3>3, NewCaseType DEF JobSound
    <3> QED BY <1>6, <3>2, <3>3 DEF Skip, CaseOfSkip
  <2>4. AfterStop(j)
    BY <1>6 DEF Skip
  <2> HIDE DEF j
  <2> QED BY <2>1, <2>2, <2>3, <2>4, AfterStopIs DEF Delivered
<1>7. CASE RequestRedo
  <2>1. /\ order' = order /\ refunded' = refunded /\ job' = job /\ moving' = moving /\ picked' = picked /\ case' = case
        /\ ~refunded /\ job.status = "failed"
        /\ redo' = "waiting" /\ redo \notin {"paid", "assigned"}
        /\ trips' = trips + 1 /\ trips < MaxTrips
        /\ firstLeg' \in {job.rider, firstLeg}
    BY <1>7 DEF RequestRedo, RedoOpen, Away, assignment
  <2>2. trips' \in 0..MaxTrips
    BY <2>1, JobAssumption DEF JobSound, JobTypeOK
  <2>3. JobTypeOK'
    BY <2>1, <2>2 DEF JobSound, JobTypeOK, Riding
  <2>4. CaseTypeOK' /\ Riding'
    BY <2>1 DEF JobSound, CaseTypeOK, Riding
  <2> QED BY <2>1, <2>3, <2>4 DEF JobOnly, JobSound, Delivered
<1> QED BY <1>1, <1>2, <1>3, <1>4, <1>5, <1>6, <1>7 DEF JobStep

-----------------------------------------------------------------------------
(* Books in order.                                                         *)

FeeTakenIn(l) == IF DeliveryFee > 0 THEN l.taken ELSE 0
GivenBack(l) == IF l.waiver = "returned" THEN Waived ELSE 0
Promised(l, v) == IF BusinessFunds /\ v = 1 THEN Charged(l) ELSE 0

\* The delivery's money, `d` of the fee having been refunded.
DeliverySound(l, d) ==
  /\ l \in Ledger /\ l.taken \in Nat
  /\ l.books[Payable] \in Nat /\ l.books[Payable] = DeliveryFee - d - FeeTakenIn(l)
  /\ \A r \in Rider : BalanceOf(l, r) \in Nat
  /\ l.books[DeliveryIncome] + GivenBack(l) >= IF l.earner = "none" THEN l.taken ELSE 0
  /\ l.waiver \in {"charged", "returned"} => l.taken >= Waived
  /\ l.waiver = "none" <=> Waived = 0

\* The vendors' money, `base` of the items and `fee` of the platform fee having been refunded.
ShopsSound(l, base, fee, rel) ==
  /\ \A v \in Vendor : PendingOf(l, v) = IF rel THEN 0 ELSE Base - base[v]
  /\ \A v \in Vendor :
       AvailableOf(l, v) = (IF rel THEN (Base - base[v]) - (Fee - fee[v]) ELSE 0) - Promised(l, v)
  /\ l.books[FeeIncome] = IF rel THEN Vendors * Fee - SumFunction(fee) ELSE 0

\* The second trip's money leaves the first delivery's in order.
LEMMA RedoKeepsDelivery ==
  ASSUME NEW l, NEW d \in Int, DeliverySound(l, d), NEW m, NEW n, RedoMoved(l, m, n)
  PROVE  DeliverySound(m, d)
<1>1. /\ m \in Ledger /\ m.taken = l.taken /\ m.earner = l.earner /\ m.waiver = l.waiver
      /\ m.books[Payable] = l.books[Payable]
  BY DEF RedoMoved
<1>2. \A r \in Rider : BalanceOf(m, r) \in Nat
  <2> TAKE r \in Rider
  <2>1. PICK k \in Nat : m.books[<<"rider_balance", r>>] = l.books[<<"rider_balance", r>>] + k
    BY TheAccounts DEF RedoMoved
  <2>2. l.books[<<"rider_balance", r>>] \in Nat
    BY DEF DeliverySound, BalanceOf
  <2> QED BY <2>1, <2>2 DEF BalanceOf
<1>3. PICK k \in Nat : m.books[DeliveryIncome] = l.books[DeliveryIncome] + k
  BY DEF RedoMoved
<1>4. GivenBack(m) = GivenBack(l) /\ FeeTakenIn(m) = FeeTakenIn(l)
  BY <1>1 DEF GivenBack, FeeTakenIn
<1>5. l.books[DeliveryIncome] \in Int /\ GivenBack(l) \in Int
  BY TheAccounts, TheAmounts DEF DeliverySound, Ledger, GivenBack
<1>6. m.books[DeliveryIncome] + GivenBack(m) >= IF m.earner = "none" THEN m.taken ELSE 0
  BY <1>1, <1>3, <1>4, <1>5 DEF DeliverySound
<1> QED BY <1>1, <1>2, <1>4, <1>6 DEF DeliverySound

\* And the vendors'.
LEMMA RedoKeepsShops ==
  ASSUME NEW l, NEW base, NEW fee, NEW rel, ShopsSound(l, base, fee, rel), NEW m, NEW n, RedoMoved(l, m, n)
  PROVE  ShopsSound(m, base, fee, rel)
<1>1. m.waiver = l.waiver /\ m.books[FeeIncome] = l.books[FeeIncome]
  BY DEF RedoMoved
<1>2. \A v \in Vendor : PendingOf(m, v) = PendingOf(l, v) /\ AvailableOf(m, v) = AvailableOf(l, v)
  BY TheAccounts DEF RedoMoved, PendingOf, AvailableOf
<1>3. \A v \in Vendor : Promised(m, v) = Promised(l, v)
  BY <1>1 DEF Promised, Charged
<1> QED BY <1>1, <1>2, <1>3 DEF ShopsSound

\* Vendor 1 alone may fund a promo.
LEMMA FunderOf == \A v \in Vendor : <<"vendor_available", v>> = Funder <=> (BusinessFunds /\ v = 1)
BY TheAccounts, TheAmounts DEF Funder, Kinds

\* A settlement leaves the delivery's money in order, and nothing of it held.
LEMMA SettledKeepsDelivery ==
  ASSUME NEW l, NEW d \in Nat, DeliverySound(l, d), NEW r
  PROVE  /\ DeliverySound(DeliverySettled(l, r), d)
         /\ DeliverySettled(l, r).books[Payable] = 0
         /\ FeeTakenIn(DeliverySettled(l, r)) = FeeTakenIn(l) + l.books[Payable]
         /\ DeliverySettled(l, r).books[RedoPayable] = l.books[RedoPayable]
<1> DEFINE m == DeliverySettled(l, r)
           wallet == <<"rider_balance", r>>
           held == l.books[Payable]
           o == Owed(l)
           c == Credit(l, r)
<1>1. /\ m \in Ledger /\ m.taken = Takings(l)
      /\ m.earner = (IF c > 0 THEN r ELSE l.earner)
      /\ m.waiver = IF l.waiver = "owed" THEN "charged" ELSE l.waiver
      /\ \A a \in Account : m.books[a] =
           l.books[a] + (IF a = Payable THEN -held ELSE IF a = DeliveryIncome THEN held + o - c
                         ELSE IF a = Funder THEN -o ELSE IF a = wallet THEN c ELSE 0)
  BY SettledIs DEF DeliverySound
<1> HIDE DEF m
<1>2. held \in Nat /\ o \in Nat /\ l.taken \in Nat /\ Waived \in Nat /\ DeliveryFee \in Nat
  BY TheAmounts DEF DeliverySound, Owed
<1>3. Takings(l) = l.taken + held + o
  BY DEF Takings
<1>4. c \in Nat /\ (c > 0 => r \in ThirdParty /\ l.earner = "none" /\ c = Takings(l))
                /\ (c = 0 => ~(r \in ThirdParty /\ l.earner = "none" /\ Takings(l) > 0))
  BY <1>2, <1>3 DEF Credit
<1>5. \A a \in Account : l.books[a] \in Int
  BY DEF DeliverySound, Ledger
<1> HIDE DEF c, o, held
<1>6. Payable \in Account /\ m.books[Payable] = 0
  <2>1. Payable \in Account /\ l.books[Payable] = held
    BY TheAccounts DEF held
  <2> QED BY <1>1, <1>2, <2>1
<1>7. m.books[RedoPayable] = l.books[RedoPayable]
  <2>1. /\ RedoPayable \in Account /\ RedoPayable # Payable /\ RedoPayable # DeliveryIncome
        /\ RedoPayable # Funder /\ RedoPayable # wallet
    BY TheAccounts, TheyDiffer DEF Funder, RedoPayable, Promo
  <2> HIDE DEF wallet
  <2> QED BY <1>1, <1>5, <2>1
<1>8. \A q \in Rider : BalanceOf(m, q) \in Nat
  <2> TAKE q \in Rider
  <2> DEFINE a == <<"rider_balance", q>>
  <2>1. /\ a \in Account /\ a # Payable /\ a # DeliveryIncome /\ a # Funder /\ l.books[a] \in Nat
    <3>1. a \notin Pending \cup Available /\ a \in Account /\ a # Payable /\ a # DeliveryIncome /\ a # Promo
      BY TheAccounts DEF Kinds
    <3> QED BY <3>1, FunderIs DEF DeliverySound, BalanceOf
  <2> HIDE DEF a, wallet
  <2>2. m.books[a] \in Nat
    BY <1>1, <1>4, <2>1
  <2> QED BY <2>2 DEF BalanceOf, a
<1>9. DeliveryIncome \in Account /\ m.books[DeliveryIncome] = l.books[DeliveryIncome] + held + o - c
  <2>1. DeliveryIncome \in Account /\ DeliveryIncome # Payable /\ l.books[DeliveryIncome] \in Int
    BY <1>5, TheAccounts, TheyDiffer
  <2> QED BY <1>1, <1>2, <1>4, <2>1
<1>10. GivenBack(m) = GivenBack(l) /\ GivenBack(l) \in Nat
  BY <1>1, <1>2 DEF GivenBack
<1>11. m.books[DeliveryIncome] + GivenBack(m) >= IF m.earner = "none" THEN m.taken ELSE 0
  <2>1. l.books[DeliveryIncome] + GivenBack(l) >= (IF l.earner = "none" THEN l.taken ELSE 0)
    BY DEF DeliverySound
  <2>2. CASE c > 0
    <3>1. r # "none"
      BY <1>4, <2>2, TheAmounts
    <3>2. m.earner # "none" /\ l.earner = "none" /\ c = l.taken + held + o
      BY <1>1, <1>3, <1>4, <2>2, <3>1
    <3> QED BY <1>2, <1>5, <1>9, <1>10, <2>1, <3>2
  <2>3. CASE c = 0
    <3>1. m.earner = l.earner
      BY <1>1, <2>3
    <3> QED BY <1>1, <1>2, <1>3, <1>5, <1>9, <1>10, <2>1, <2>3, <3>1
  <2> QED BY <1>4, <2>2, <2>3
<1>12. (m.waiver \in {"charged", "returned"} => m.taken >= Waived) /\ (m.waiver = "none" <=> Waived = 0)
  <2>1. l.waiver \in {"charged", "returned"} => l.taken >= Waived
    BY DEF DeliverySound
  <2>2. l.waiver = "none" <=> Waived = 0
    BY DEF DeliverySound
  <2>3. l.waiver = "owed" => o = Waived
    BY DEF o, Owed
  <2>4. CASE l.waiver = "owed"
    BY <1>1, <1>2, <1>3, <2>2, <2>3, <2>4
  <2>5. CASE l.waiver # "owed"
    BY <1>1, <1>2, <1>3, <2>1, <2>2, <2>5
  <2> QED BY <2>4, <2>5
<1>13. FeeTakenIn(m) = FeeTakenIn(l) + held
  <2>1. held = DeliveryFee - d - FeeTakenIn(l)
    BY DEF held, DeliverySound
  <2>2. DeliveryFee > 0 => Waived = 0
    BY TheAmounts
  <2>3. Waived = 0 => o = 0
    BY DEF o, Owed
  <2> HIDE DEF o, held
  <2>4. CASE DeliveryFee > 0
    BY <1>1, <1>2, <1>3, <2>2, <2>3, <2>4 DEF FeeTakenIn
  <2>5. CASE DeliveryFee = 0 /\ held = 0
    BY <2>5 DEF FeeTakenIn
  <2>6. CASE DeliveryFee = 0 /\ held # 0
    BY <1>2, <2>1, <2>6 DEF FeeTakenIn
  <2> QED BY <1>2, <2>4, <2>5, <2>6
<1>14. m.books[Payable] = DeliveryFee - d - FeeTakenIn(m)
  <2>1. held = DeliveryFee - d - FeeTakenIn(l) /\ FeeTakenIn(l) \in Nat
    BY <1>2 DEF held, DeliverySound, FeeTakenIn
  <2> QED BY <1>2, <1>6, <1>13, <2>1
<1>15. m.taken \in Nat
  BY <1>1, <1>2, <1>3
<1>16. DeliverySound(m, d)
  BY <1>1, <1>6, <1>8, <1>11, <1>12, <1>14, <1>15 DEF DeliverySound
<1> QED BY <1>6, <1>7, <1>13, <1>16 DEF m, held

\* A settlement charges the promo to whom it was promised.
LEMMA SettledKeepsShops ==
  ASSUME NEW l \in Ledger, NEW base \in [Vendor -> Int], NEW fee \in [Vendor -> Int], NEW rel \in BOOLEAN, ShopsSound(l, base, fee, rel), NEW r
  PROVE  ShopsSound(DeliverySettled(l, r), base, fee, rel)
<1> DEFINE m == DeliverySettled(l, r)
<1>1. /\ m.waiver = (IF l.waiver = "owed" THEN "charged" ELSE l.waiver)
      /\ \A a \in Account : a \notin RiderBalance /\ a # Payable /\ a # DeliveryIncome =>
           m.books[a] = l.books[a] + (IF a = Funder THEN -Owed(l) ELSE 0)
  <2> DEFINE c == Credit(l, r)
             wallet == <<"rider_balance", r>>
  <2>1. /\ m.waiver = (IF l.waiver = "owed" THEN "charged" ELSE l.waiver)
        /\ \A a \in Account : m.books[a] =
             l.books[a] + (IF a = Payable THEN -l.books[Payable]
                           ELSE IF a = DeliveryIncome THEN l.books[Payable] + Owed(l) - c
                           ELSE IF a = Funder THEN -Owed(l) ELSE IF a = wallet THEN c ELSE 0)
    BY SettledIs
  <2>2. c # 0 => wallet \in RiderBalance
    BY TheAmounts, TheAccounts DEF Credit
  <2> HIDE DEF m, c, wallet
  <2> QED BY <2>1, <2>2
<1>2. \A a \in Account : l.books[a] \in Int
  BY DEF Ledger
<1> HIDE DEF m
<1>3. Owed(l) = (IF l.waiver = "owed" THEN Waived ELSE 0) /\ Charged(l) = (IF l.waiver = "charged" THEN Waived ELSE 0)
      /\ Charged(m) = (IF m.waiver = "charged" THEN Waived ELSE 0) /\ Waived \in Nat
  BY TheAmounts DEF Owed, Charged
<1>4. Charged(m) = Charged(l) + Owed(l) /\ Charged(l) \in Nat /\ Owed(l) \in Nat
  BY <1>1, <1>3
<1>5. \A v \in Vendor : PendingOf(m, v) = PendingOf(l, v)
  <2> TAKE v \in Vendor
  <2> DEFINE a == <<"vendor_pending", v>>
  <2>1. a \in Account /\ a \notin RiderBalance /\ a # Payable /\ a # DeliveryIncome /\ a # Funder
    BY TheAccounts, FunderIs DEF Kinds
  <2>2. m.books[a] = l.books[a] + 0
    <3> HIDE DEF a
    <3> QED BY <1>1, <2>1
  <2> QED BY <1>2, <2>1, <2>2 DEF PendingOf
<1>6. \A v \in Vendor : AvailableOf(m, v) = AvailableOf(l, v) - (IF BusinessFunds /\ v = 1 THEN Owed(l) ELSE 0)
  <2> TAKE v \in Vendor
  <2> DEFINE a == <<"vendor_available", v>>
  <2>1. a \in Account /\ a \notin RiderBalance /\ a # Payable /\ a # DeliveryIncome
        /\ (a = Funder <=> (BusinessFunds /\ v = 1))
    BY TheAccounts, FunderOf DEF Kinds
  <2>2. m.books[a] = l.books[a] + (IF a = Funder THEN -Owed(l) ELSE 0)
    <3> HIDE DEF a
    <3> QED BY <1>1, <2>1
  <2>3. m.books[a] = l.books[a] - (IF BusinessFunds /\ v = 1 THEN Owed(l) ELSE 0)
    <3> HIDE DEF a
    <3>1. l.books[a] \in Int
      BY <1>2, <2>1
    <3> QED BY <1>4, <2>1, <2>2, <3>1
  <2> QED BY <2>3 DEF AvailableOf
<1>7. m.books[FeeIncome] = l.books[FeeIncome]
  <2>1. FeeIncome \in Account /\ FeeIncome \notin RiderBalance /\ FeeIncome # Payable
        /\ FeeIncome # DeliveryIncome /\ FeeIncome # Funder
    BY TheAccounts, TheyDiffer, FunderIs DEF Kinds
  <2> QED BY <1>1, <1>2, <2>1
<1>8. \A v \in Vendor :
        AvailableOf(m, v) = (IF rel THEN (Base - base[v]) - (Fee - fee[v]) ELSE 0) - Promised(m, v)
  <2> TAKE v \in Vendor
  <2> DEFINE x == IF rel THEN (Base - base[v]) - (Fee - fee[v]) ELSE 0
  <2>1. AvailableOf(l, v) = x - Promised(l, v)
    BY DEF ShopsSound
  <2>4. x \in Int
    BY TheAmounts
  <2>5. AvailableOf(l, v) \in Int
    BY <1>2, TheAccounts DEF AvailableOf
  <2> HIDE DEF x
  <2>6. AvailableOf(m, v) = x - Promised(m, v)
    <3>1. CASE BusinessFunds /\ v = 1
      <4>1. Promised(m, v) = Charged(l) + Owed(l) /\ Promised(l, v) = Charged(l)
        BY <1>4, <3>1 DEF Promised
      <4>2. AvailableOf(m, v) = AvailableOf(l, v) - Owed(l)
        BY <1>6, <3>1
      <4> QED BY <1>4, <2>1, <2>4, <4>1, <4>2
    <3>2. CASE ~(BusinessFunds /\ v = 1)
      <4>1. Promised(m, v) = 0 /\ Promised(l, v) = 0 /\ AvailableOf(m, v) = AvailableOf(l, v) - 0
        BY <1>6, <3>2 DEF Promised
      <4> QED BY <2>1, <2>4, <2>5, <4>1
    <3> QED BY <3>1, <3>2
  <2> QED BY <2>6 DEF x
<1> QED BY <1>5, <1>7, <1>8 DEF ShopsSound, m

\* A promo given back leaves the delivery's money in order.
LEMMA ReturnedKeepsDelivery ==
  ASSUME NEW l, NEW d \in Int, DeliverySound(l, d)
  PROVE  /\ DeliverySound(PromoReturned(l), d)
         /\ PromoReturned(l).books[Payable] = l.books[Payable]
         /\ PromoReturned(l).books[RedoPayable] = l.books[RedoPayable]
         /\ FeeTakenIn(PromoReturned(l)) = FeeTakenIn(l)
<1> DEFINE m == PromoReturned(l)
           c == Charged(l)
<1>1. /\ m \in Ledger /\ m.taken = l.taken /\ m.earner = l.earner
      /\ m.waiver = (IF l.waiver = "owed" THEN "reversed" ELSE IF l.waiver = "charged" THEN "returned" ELSE l.waiver)
      /\ \A a \in Account : m.books[a] =
           l.books[a] + (IF a = Funder THEN c ELSE IF a = DeliveryIncome THEN -c ELSE 0)
  BY PromoReturnedIs DEF DeliverySound
<1>2. \A a \in Account : l.books[a] \in Int
  BY DEF DeliverySound, Ledger
<1>3. c = (IF l.waiver = "charged" THEN Waived ELSE 0) /\ Waived \in Nat
  BY TheAmounts DEF Charged
<1> HIDE DEF m, c
<1>4. \A a \in RiderBalance \cup {Payable, RedoPayable} : m.books[a] = l.books[a]
  <2> TAKE a \in RiderBalance \cup {Payable, RedoPayable}
  <2>1. a \in Account /\ a # Funder /\ a # DeliveryIncome
    BY TheAccounts, TheyDiffer, FunderIs DEF Account, Kinds, Pending, Available, RiderBalance
  <2> QED BY <1>1, <1>2, <2>1
<1>5. \A q \in Rider : BalanceOf(m, q) \in Nat
  BY <1>4, TheAccounts DEF DeliverySound, BalanceOf
<1>6. m.books[DeliveryIncome] + GivenBack(m) >= IF m.earner = "none" THEN m.taken ELSE 0
  <2>1. l.books[DeliveryIncome] + GivenBack(l) >= (IF l.earner = "none" THEN l.taken ELSE 0)
    BY DEF DeliverySound
  <2>2. m.books[DeliveryIncome] = l.books[DeliveryIncome] - c /\ l.books[DeliveryIncome] \in Int
    BY <1>1, <1>2, <1>3, TheAccounts, FunderIs
  <2>3. GivenBack(m) = GivenBack(l) + c /\ GivenBack(l) \in Nat
    BY <1>1, <1>3 DEF GivenBack
  <2>4. l.taken \in Nat
    BY DEF DeliverySound
  <2> QED BY <1>1, <1>3, <2>1, <2>2, <2>3, <2>4
<1>7. (m.waiver \in {"charged", "returned"} => m.taken >= Waived) /\ (m.waiver = "none" <=> Waived = 0)
  BY <1>1 DEF DeliverySound
<1>8. FeeTakenIn(m) = FeeTakenIn(l)
  BY <1>1 DEF FeeTakenIn
<1>9. DeliverySound(m, d)
  BY <1>1, <1>4, <1>5, <1>6, <1>7, <1>8 DEF DeliverySound
<1> QED BY <1>4, <1>8, <1>9 DEF m

\* And the vendors'.
LEMMA ReturnedKeepsShops ==
  ASSUME NEW l \in Ledger, NEW base \in [Vendor -> Int], NEW fee \in [Vendor -> Int], NEW rel \in BOOLEAN,
         ShopsSound(l, base, fee, rel)
  PROVE  ShopsSound(PromoReturned(l), base, fee, rel)
<1> DEFINE m == PromoReturned(l)
           c == Charged(l)
<1>1. /\ m.waiver = (IF l.waiver = "owed" THEN "reversed" ELSE IF l.waiver = "charged" THEN "returned" ELSE l.waiver)
      /\ \A a \in Account : m.books[a] =
           l.books[a] + (IF a = Funder THEN c ELSE IF a = DeliveryIncome THEN -c ELSE 0)
  BY PromoReturnedIs
<1>2. \A a \in Account : l.books[a] \in Int
  BY DEF Ledger
<1>3. c = (IF l.waiver = "charged" THEN Waived ELSE 0) /\ Waived \in Nat /\ Charged(m) = 0
  BY <1>1, TheAmounts DEF Charged
<1> HIDE DEF m
<1>4. \A v \in Vendor : PendingOf(m, v) = PendingOf(l, v)
  <2> TAKE v \in Vendor
  <2> DEFINE a == <<"vendor_pending", v>>
  <2>1. a \in Account /\ a # DeliveryIncome /\ a # Funder
    BY TheAccounts, FunderIs DEF Kinds
  <2>2. m.books[a] = l.books[a] + 0
    <3> HIDE DEF a, c
    <3> QED BY <1>1, <2>1
  <2> QED BY <1>2, <2>1, <2>2 DEF PendingOf
<1>5. m.books[FeeIncome] = l.books[FeeIncome]
  <2>1. FeeIncome \in Account /\ FeeIncome # DeliveryIncome /\ FeeIncome # Funder
    BY TheAccounts, TheyDiffer, FunderIs DEF Kinds
  <2> QED BY <1>1, <1>2, <2>1
<1>6. \A v \in Vendor :
        AvailableOf(m, v) = (IF rel THEN (Base - base[v]) - (Fee - fee[v]) ELSE 0) - Promised(m, v)
  <2> TAKE v \in Vendor
  <2> DEFINE a == <<"vendor_available", v>>
             x == IF rel THEN (Base - base[v]) - (Fee - fee[v]) ELSE 0
  <2>1. a \in Account /\ a # DeliveryIncome /\ (a = Funder <=> (BusinessFunds /\ v = 1))
    BY TheAccounts, FunderOf DEF Kinds
  <2>2. l.books[a] = x - Promised(l, v)
    BY DEF ShopsSound, AvailableOf
  <2>3. x \in Int
    BY TheAmounts
  <2>4. Promised(m, v) = 0
    BY <1>3 DEF Promised
  <2>5. Promised(l, v) = (IF BusinessFunds /\ v = 1 THEN c ELSE 0)
    BY DEF Promised
  <2> HIDE DEF x, a, c
  <2>6. m.books[a] = l.books[a] + (IF BusinessFunds /\ v = 1 THEN c ELSE 0)
    BY <1>1, <2>1
  <2>7. c \in Nat
    BY <1>3
  <2>8. m.books[a] = x - Promised(m, v)
    BY <2>2, <2>3, <2>4, <2>5, <2>6, <2>7
  <2> QED BY <2>8 DEF AvailableOf, a, x
<1> QED BY <1>4, <1>5, <1>6 DEF ShopsSound, m

\* The promo reversed before a refund that Support makes.
Reversed(l) == [l EXCEPT !.waiver = IF @ = "owed" THEN "reversed" ELSE @]

\* A promo reversed before it was charged moves nothing.
LEMMA ReversedKeeps ==
  ASSUME NEW l, NEW d, DeliverySound(l, d), NEW base, NEW fee, NEW rel, ShopsSound(l, base, fee, rel)
  PROVE  /\ DeliverySound(Reversed(l), d) /\ ShopsSound(Reversed(l), base, fee, rel)
         /\ Reversed(l).books = l.books /\ Reversed(l).taken = l.taken /\ Reversed(l).earner = l.earner
<1> DEFINE m == Reversed(l)
<1>1. l \in Ledger
  BY DEF DeliverySound
<1>2. /\ m \in Ledger /\ m.books = l.books /\ m.taken = l.taken /\ m.earner = l.earner
      /\ m.waiver = IF l.waiver = "owed" THEN "reversed" ELSE l.waiver
  BY <1>1 DEF Reversed, Ledger, Stages
<1> HIDE DEF m
<1>3. GivenBack(m) = GivenBack(l) /\ FeeTakenIn(m) = FeeTakenIn(l) /\ Charged(m) = Charged(l)
  BY <1>2 DEF GivenBack, FeeTakenIn, Charged
<1>4. DeliverySound(m, d)
  BY <1>2, <1>3 DEF DeliverySound, BalanceOf
<1>5. ShopsSound(m, base, fee, rel)
  BY <1>2, <1>3 DEF ShopsSound, PendingOf, AvailableOf, Promised
<1> QED BY <1>2, <1>4, <1>5 DEF m

-----------------------------------------------------------------------------
(* A refund and a release, posted.                                         *)

GiveTyped(give) ==
  /\ give.base \in [Vendor -> Int] /\ give.delivery \in Int /\ give.subsidy \in Int
  /\ give.processing \in Int /\ give.customer \in Int

\* The lines of a refund, account by account.
LEMMA RefundLinesAre ==
  ASSUME NEW give, GiveTyped(give), NEW fee \in [Vendor -> Int], released \in BOOLEAN
  PROVE  LET lines == RefundLines(give, fee) IN
         /\ lines \in [Account -> Int] /\ SumFunction(fee) \in Int
         /\ \A a \in Pending : lines[a] = IF released THEN 0 ELSE -give.base[a[2]]
         /\ \A a \in Available : lines[a] = IF released THEN fee[a[2]] - give.base[a[2]] ELSE 0
         /\ lines[FeeIncome] = IF released THEN -SumFunction(fee) ELSE 0
         /\ lines[Payable] = IF released THEN 0 ELSE -give.delivery
         /\ lines[DeliveryIncome] = IF released THEN -give.delivery ELSE 0
         /\ \A a \in RiderBalance \cup {RedoPayable, Clearing} : lines[a] = 0
         /\ lines[Promo] = give.subsidy /\ lines[ProviderFees] = -give.processing
         /\ lines[Wallet] = give.customer + give.processing
<1> DEFINE lines == RefundLines(give, fee)
           holder == IF released THEN DeliveryIncome ELSE Payable
           total == SumFunction(fee)
           x == give.customer + give.processing
           y == -give.processing
           z == give.delivery
<1>1. total \in Int
  <2>1. \A q \in Vendor : fee[q] \in Int
    OBVIOUS
  <2>2. SumFunctionOnSet(fee, Vendor) \in Int
    BY <2>1, VendorFinite, SumRemoved
  <2>3. DOMAIN fee = Vendor
    OBVIOUS
  <2> QED BY <2>2, <2>3 DEF SumFunction
<1>2. x \in Int /\ y \in Int /\ z \in Int /\ give.subsidy \in Int /\ give.base \in [Vendor -> Int]
  BY DEF GiveTyped
<1>3. lines = [a \in Account |->
     CASE a \in Pending        -> IF released THEN 0 ELSE -give.base[a[2]]
       [] a \in Available      -> IF released THEN fee[a[2]] - give.base[a[2]] ELSE 0
       [] a = FeeIncome        -> IF released THEN -total ELSE 0
       [] a = holder           -> -z
       [] a = Promo            -> give.subsidy
       [] a = ProviderFees     -> y
       [] a = Wallet           -> x
       [] OTHER                -> 0]
  BY DEF RefundLines
<1> HIDE DEF lines, x, y, z, total
<1>4. \A a \in Pending \cup Available : a[2] \in Vendor
  BY DEF Pending, Available
<1>5. /\ Pending \cap Available = {}
      /\ \A a \in {FeeIncome, DeliveryIncome, Payable, Promo, ProviderFees, Wallet, RedoPayable} \cup RiderBalance :
           a \notin Pending \cup Available /\ a \in Account
  <2>1. Pending \cap Available = {}
    BY DEF Pending, Available
  <2>2. \A a \in RiderBalance : a \notin Pending \cup Available /\ a \in Account
    BY TheAccounts DEF RiderBalance
  <2> QED BY <2>1, <2>2, TheAccounts DEF Kinds
<1>6. holder \in {DeliveryIncome, Payable}
  OBVIOUS
<1>7. \A a \in Pending : lines[a] = IF released THEN 0 ELSE -give.base[a[2]]
  BY <1>3, <1>5 DEF Account
<1>8. \A a \in Available : lines[a] = IF released THEN fee[a[2]] - give.base[a[2]] ELSE 0
  BY <1>3, <1>5 DEF Account
<1>9. lines[FeeIncome] = IF released THEN -total ELSE 0
  BY <1>3, <1>5, <1>6, TheyDiffer
<1>10. holder # FeeIncome /\ holder # RedoPayable /\ holder # Promo /\ holder # ProviderFees /\ holder # Wallet
  BY TheyDiffer
<1>11. lines[holder] = -z
  BY <1>3, <1>5, <1>10
<1>12. \A a \in {DeliveryIncome, Payable} : a # holder => lines[a] = 0
  BY <1>3, <1>5, TheyDiffer
<1>13. lines[RedoPayable] = 0
  BY <1>3, <1>5, <1>10, TheyDiffer
<1>14. \A a \in RiderBalance : lines[a] = 0
  <2> TAKE a \in RiderBalance
  <2>1. a # FeeIncome /\ a # DeliveryIncome /\ a # Payable /\ a # Promo /\ a # ProviderFees /\ a # Wallet
    BY TheAccounts DEF Kinds
  <2> QED BY <1>3, <1>5, <1>6, <2>1
<1>15. lines[Promo] = give.subsidy /\ lines[ProviderFees] = y /\ lines[Wallet] = x /\ lines[Clearing] = 0
  <2>1. Clearing \notin Pending \cup Available /\ Clearing \in Account
    BY TheAccounts DEF Kinds
  <2> QED BY <1>3, <1>5, <1>10, <2>1, TheyDiffer
<1>16. \A a \in Account : lines[a] \in Int
  <2> SUFFICES ASSUME NEW a \in Account PROVE lines[a] \in Int
    OBVIOUS
  <2>1. CASE a \in Pending
    BY <1>2, <1>4, <1>7, <2>1
  <2>2. CASE a \in Available
    BY <1>2, <1>4, <1>8, <2>2
  <2>3. CASE a \in RiderBalance
    BY <1>14, <2>3
  <2>4. CASE a \in {FeeIncome, DeliveryIncome, Payable, RedoPayable}
    BY <1>1, <1>2, <1>9, <1>11, <1>12, <1>13, <2>4
  <2>5. CASE a \in {Promo, ProviderFees, Wallet, Clearing}
    BY <1>2, <1>15, <2>5
  <2> QED BY <2>1, <2>2, <2>3, <2>4, <2>5 DEF Account
<1>17. lines \in [Account -> Int]
  BY <1>3, <1>16
<1>18. /\ lines[Payable] = IF released THEN 0 ELSE -z
       /\ lines[DeliveryIncome] = IF released THEN -z ELSE 0
  BY <1>11, <1>12, TheyDiffer DEF holder
<1>19. \A a \in RiderBalance \cup {RedoPayable, Clearing} : lines[a] = 0
  BY <1>13, <1>14, <1>15
<1> QED BY <1>1, <1>7, <1>8, <1>9, <1>15, <1>17, <1>18, <1>19 DEF lines, x, y, z, total

\* What a refund does to the books.
LEMMA RefundPostedIs ==
  ASSUME NEW l \in Ledger, NEW give, GiveTyped(give), NEW fee \in [Vendor -> Int], released \in BOOLEAN
  PROVE  LET m == Post(l, RefundLines(give, fee)) IN
         /\ m \in Ledger /\ m.taken = l.taken /\ m.earner = l.earner /\ m.waiver = l.waiver
         /\ \A v \in Vendor :
              /\ PendingOf(m, v) = PendingOf(l, v) - (IF released THEN 0 ELSE give.base[v])
              /\ AvailableOf(m, v) = AvailableOf(l, v) + (IF released THEN fee[v] - give.base[v] ELSE 0)
         /\ m.books[FeeIncome] = l.books[FeeIncome] - (IF released THEN SumFunction(fee) ELSE 0)
         /\ m.books[Payable] = l.books[Payable] - (IF released THEN 0 ELSE give.delivery)
         /\ m.books[DeliveryIncome] = l.books[DeliveryIncome] - (IF released THEN give.delivery ELSE 0)
         /\ m.books[RedoPayable] = l.books[RedoPayable]
         /\ \A r \in Rider : BalanceOf(m, r) = BalanceOf(l, r)
<1> DEFINE lines == RefundLines(give, fee)
           m == Post(l, lines)
           total == SumFunction(fee)
           z == give.delivery
<1>1. total \in Int /\ lines \in [Account -> Int]
  BY RefundLinesAre
<1>2. z \in Int /\ give.base \in [Vendor -> Int]
  BY DEF GiveTyped
<1>3. /\ \A a \in Pending : lines[a] = IF released THEN 0 ELSE -give.base[a[2]]
      /\ \A a \in Available : lines[a] = IF released THEN fee[a[2]] - give.base[a[2]] ELSE 0
      /\ lines[FeeIncome] = IF released THEN -total ELSE 0
      /\ lines[Payable] = IF released THEN 0 ELSE -z
      /\ lines[DeliveryIncome] = IF released THEN -z ELSE 0
      /\ \A a \in RiderBalance \cup {RedoPayable} : lines[a] = 0
  BY RefundLinesAre
<1> HIDE DEF lines, z, total
<1>4. /\ m \in Ledger /\ m.taken = l.taken /\ m.earner = l.earner /\ m.waiver = l.waiver
       /\ \A a \in Account : m.books[a] = l.books[a] + lines[a]
  BY <1>1, PostIs
<1>5. \A a \in Account : l.books[a] \in Int
  BY DEF Ledger
<1> HIDE DEF m
<1>6. \A v \in Vendor :
         /\ PendingOf(m, v) = PendingOf(l, v) - (IF released THEN 0 ELSE give.base[v])
         /\ AvailableOf(m, v) = AvailableOf(l, v) + (IF released THEN fee[v] - give.base[v] ELSE 0)
  <2> TAKE v \in Vendor
  <2> DEFINE p == <<"vendor_pending", v>>
             a == <<"vendor_available", v>>
  <2>1. p \in Pending /\ p[2] = v /\ p \in Account /\ a \in Available /\ a[2] = v /\ a \in Account
    BY TheAccounts
  <2>2. give.base[v] \in Int /\ fee[v] \in Int
    BY <1>2
  <2> HIDE DEF p, a
  <2>3. m.books[p] = l.books[p] + (IF released THEN 0 ELSE -give.base[v])
    BY <1>3, <1>4, <2>1
  <2>4. m.books[a] = l.books[a] + (IF released THEN fee[v] - give.base[v] ELSE 0)
    BY <1>3, <1>4, <2>1
  <2>5. l.books[p] \in Int /\ l.books[a] \in Int
    BY <1>5, <2>1
  <2> QED BY <2>2, <2>3, <2>4, <2>5 DEF PendingOf, AvailableOf, p, a
<1>7. \A r \in Rider : BalanceOf(m, r) = BalanceOf(l, r)
  <2> TAKE r \in Rider
  <2> DEFINE a == <<"rider_balance", r>>
  <2>1. a \in RiderBalance /\ a \in Account
    BY TheAccounts
  <2> HIDE DEF a
  <2>2. m.books[a] = l.books[a] + 0 /\ l.books[a] \in Int
    BY <1>3, <1>4, <1>5, <2>1
  <2> QED BY <2>2 DEF BalanceOf, a
<1>8. /\ m.books[FeeIncome] = l.books[FeeIncome] - (IF released THEN total ELSE 0)
       /\ m.books[RedoPayable] = l.books[RedoPayable]
  BY <1>1, <1>3, <1>4, <1>5, TheAccounts
<1>9. /\ m.books[Payable] = l.books[Payable] - (IF released THEN 0 ELSE z)
       /\ m.books[DeliveryIncome] = l.books[DeliveryIncome] - (IF released THEN z ELSE 0)
  <2>1. Payable \in Account /\ DeliveryIncome \in Account /\ Payable # DeliveryIncome
    BY TheAccounts, TheyDiffer
  <2> QED BY <1>2, <1>3, <1>4, <1>5, <2>1
<1> QED BY <1>4, <1>6, <1>7, <1>8, <1>9 DEF m, lines, total, z

\* A refund keeps the books in order, as long as what is held for the delivery covers its part.
LEMMA RefundKeepsDelivery ==
  ASSUME NEW l, NEW d \in Int, DeliverySound(l, d), NEW give, GiveTyped(give), NEW fee \in [Vendor -> Int],
         released \in BOOLEAN,
         released => give.delivery = 0,
         Post(l, RefundLines(give, fee)).books[Payable] >= 0
  PROVE  DeliverySound(Post(l, RefundLines(give, fee)), d + give.delivery)
<1> DEFINE m == Post(l, RefundLines(give, fee))
<1>1. /\ m \in Ledger /\ m.taken = l.taken /\ m.earner = l.earner /\ m.waiver = l.waiver
      /\ m.books[Payable] = l.books[Payable] - (IF released THEN 0 ELSE give.delivery)
      /\ m.books[DeliveryIncome] = l.books[DeliveryIncome] - (IF released THEN give.delivery ELSE 0)
      /\ \A r \in Rider : BalanceOf(m, r) = BalanceOf(l, r)
  BY RefundPostedIs DEF DeliverySound
<1>2. m.books[Payable] >= 0
  OBVIOUS
<1> HIDE DEF m
<1>3. l.books[Payable] \in Nat /\ give.delivery \in Int /\ l.books[DeliveryIncome] \in Int
  BY TheAccounts DEF DeliverySound, GiveTyped, Ledger
<1>4. m.books[Payable] = l.books[Payable] - give.delivery /\ m.books[Payable] \in Nat
  BY <1>1, <1>2, <1>3
<1>5. m.books[DeliveryIncome] = l.books[DeliveryIncome]
  BY <1>1, <1>3
<1>6. FeeTakenIn(m) = FeeTakenIn(l) /\ GivenBack(m) = GivenBack(l) /\ FeeTakenIn(l) \in Nat
  BY <1>1 DEF FeeTakenIn, GivenBack, DeliverySound
<1>7. m.books[Payable] = DeliveryFee - (d + give.delivery) - FeeTakenIn(m)
  <2>1. l.books[Payable] = DeliveryFee - d - FeeTakenIn(l) /\ DeliveryFee \in Nat
    BY TheAmounts DEF DeliverySound
  <2> QED BY <1>3, <1>4, <1>6, <2>1
<1> QED BY <1>1, <1>4, <1>5, <1>6, <1>7 DEF DeliverySound, m

\* A refund takes the items from the vendors, and their fee with them.
LEMMA RefundKeepsShops ==
  ASSUME NEW l \in Ledger, NEW give, GiveTyped(give), NEW fee \in [Vendor -> Int],
         released \in BOOLEAN, back.base \in [Vendor -> Int], back.fee \in [Vendor -> Int],
         ShopsSound(l, back.base, back.fee, released)
  PROVE  ShopsSound(Post(l, RefundLines(give, fee)), Given(give, fee).base, Given(give, fee).fee, released)
<1> DEFINE m == Post(l, RefundLines(give, fee))
           base == Given(give, fee).base
           fees == Given(give, fee).fee
           given == back.base
           taken == back.fee
           b == give.base
<1>1. /\ m.waiver = l.waiver
      /\ \A v \in Vendor :
              /\ PendingOf(m, v) = PendingOf(l, v) - (IF released THEN 0 ELSE b[v])
              /\ AvailableOf(m, v) = AvailableOf(l, v) + (IF released THEN fee[v] - b[v] ELSE 0)
      /\ m.books[FeeIncome] = l.books[FeeIncome] - (IF released THEN SumFunction(fee) ELSE 0)
  BY RefundPostedIs
<1>2. /\ base = [v \in Vendor |-> given[v] + b[v]] /\ fees = [v \in Vendor |-> taken[v] + fee[v]]
  BY DEF Given
<1>3. given \in [Vendor -> Int] /\ taken \in [Vendor -> Int] /\ b \in [Vendor -> Int]
  BY DEF GiveTyped
<1>4. SumFunction(fees) = SumFunction(taken) + SumFunction(fee) /\ SumFunction(taken) \in Int /\ SumFunction(fee) \in Int
  <2>1. \A x \in Vendor : taken[x] \in Int /\ fee[x] \in Int /\ fees[x] = taken[x] + fee[x]
    BY <1>2, <1>3
  <2>2. IsFiniteSet(Vendor) /\ DOMAIN fees = Vendor /\ DOMAIN taken = Vendor /\ DOMAIN fee = Vendor
    BY <1>2, <1>3, VendorFinite
  <2> HIDE DEF fees, taken
  <2>3. SumFunctionOnSet(fees, Vendor) = SumFunctionOnSet(taken, Vendor) + SumFunctionOnSet(fee, Vendor)
    BY <2>1, <2>2, SumPlus
  <2>4. SumFunctionOnSet(taken, Vendor) \in Int /\ SumFunctionOnSet(fee, Vendor) \in Int
    BY <2>1, <2>2, SumRemoved
  <2> QED BY <2>2, <2>3, <2>4 DEF SumFunction
<1>5. /\ \A v \in Vendor : PendingOf(l, v) = IF released THEN 0 ELSE Base - given[v]
      /\ \A v \in Vendor :
           AvailableOf(l, v) = (IF released THEN (Base - given[v]) - (Fee - taken[v]) ELSE 0) - Promised(l, v)
      /\ l.books[FeeIncome] = IF released THEN Vendors * Fee - SumFunction(taken) ELSE 0
  BY DEF ShopsSound
<1>6. Base \in Int /\ Fee \in Int /\ Vendors * Fee \in Int
  BY TheAmounts
<1>7. \A v \in Vendor : Promised(m, v) = Promised(l, v) /\ Promised(l, v) \in Int
  BY <1>1, TheAmounts DEF Promised, Charged
<1> HIDE DEF m, base, fees, given, taken, b
<1>8. \A v \in Vendor : PendingOf(m, v) = IF released THEN 0 ELSE Base - base[v]
  BY <1>1, <1>2, <1>3, <1>5, <1>6
<1>9. \A v \in Vendor :
         AvailableOf(m, v) = (IF released THEN (Base - base[v]) - (Fee - fees[v]) ELSE 0) - Promised(m, v)
  BY <1>1, <1>2, <1>3, <1>5, <1>6, <1>7
<1>10. m.books[FeeIncome] = IF released THEN Vendors * Fee - SumFunction(fees) ELSE 0
  <2> DEFINE n == Vendors * Fee
  <2>1. n \in Int /\ l.books[FeeIncome] = IF released THEN n - SumFunction(taken) ELSE 0
    BY <1>5, <1>6
  <2> HIDE DEF n
  <2>2. m.books[FeeIncome] = IF released THEN n - SumFunction(fees) ELSE 0
    BY <1>1, <1>4, <2>1
  <2> QED BY <2>2 DEF n
<1>11. ShopsSound(m, base, fees, released)
  BY <1>8, <1>9, <1>10 DEF ShopsSound
<1> QED BY <1>11 DEF m, base, fees

\* The lines of a release, account by account.
LEMMA ReleaseLinesAre ==
  ASSUME back.base \in [Vendor -> Int], back.fee \in [Vendor -> Int]
  PROVE  /\ ReleaseLines \in [Account -> Int] /\ SumFunction(back.fee) \in Int
         /\ \A v \in Vendor : Room[v] \in Int /\ Room[v] = Base - back.base[v]
         /\ \A a \in Pending : ReleaseLines[a] = -Room[a[2]]
         /\ \A a \in Available : ReleaseLines[a] = Room[a[2]] - (Fee - back.fee[a[2]])
         /\ ReleaseLines[FeeIncome] = Vendors * Fee - SumFunction(back.fee)
         /\ \A a \in {DeliveryIncome, Payable, Promo, ProviderFees, Wallet, RedoPayable, Clearing}
                      \cup RiderBalance : ReleaseLines[a] = 0
<1> DEFINE lines == ReleaseLines
           due == [v \in Vendor |-> Room[v] - (Fee - back.fee[v])]
           fees == back.fee
           total == Vendors * Fee - SumFunction(fees)
           room == Room
<1>1. /\ total \in Int /\ room \in [Vendor -> Int] /\ due \in [Vendor -> Int]
      /\ \A v \in Vendor : room[v] = Base - back.base[v] /\ due[v] = (Base - back.base[v]) - (Fee - fees[v])
  <2>1. \A q \in Vendor : fees[q] \in Int
    OBVIOUS
  <2>2. SumFunctionOnSet(fees, Vendor) \in Int
    BY <2>1, VendorFinite, SumRemoved
  <2>3. DOMAIN fees = Vendor
    OBVIOUS
  <2>4. total \in Int
    BY <2>2, <2>3, TheAmounts DEF SumFunction
  <2>5. Base \in Int /\ Fee \in Int
    BY TheAmounts
  <2> QED BY <2>4, <2>5 DEF Room
<1>2. lines = [a \in Account |->
         CASE a \in Pending   -> -room[a[2]]
           [] a \in Available -> due[a[2]]
           [] a = FeeIncome   -> total
           [] OTHER           -> 0]
  BY DEF ReleaseLines
<1> HIDE DEF lines, room, due, total
<1>3. \A a \in Pending \cup Available : a[2] \in Vendor
  BY DEF Pending, Available
<1>4. /\ Pending \cap Available = {}
      /\ \A a \in {FeeIncome, DeliveryIncome, Payable, Promo, ProviderFees, Wallet, RedoPayable, Clearing} \cup RiderBalance :
           a \notin Pending \cup Available /\ a \in Account
  <2>1. Pending \cap Available = {}
    BY DEF Pending, Available
  <2>2. \A a \in RiderBalance : a \notin Pending \cup Available /\ a \in Account
    BY TheAccounts DEF RiderBalance
  <2> QED BY <2>1, <2>2, TheAccounts DEF Kinds
<1>5. \A a \in Pending : lines[a] = -room[a[2]]
  BY <1>2, <1>4 DEF Account
<1>6. \A a \in Available : lines[a] = due[a[2]]
  BY <1>2, <1>4 DEF Account
<1>7. lines[FeeIncome] = total
  BY <1>2, <1>4
<1>8. \A a \in {DeliveryIncome, Payable, Promo, ProviderFees, Wallet, RedoPayable, Clearing} \cup RiderBalance : lines[a] = 0
  <2> TAKE a \in {DeliveryIncome, Payable, Promo, ProviderFees, Wallet, RedoPayable, Clearing} \cup RiderBalance
  <2>1. a # FeeIncome
    BY TheAccounts, TheyDiffer DEF Kinds
  <2> QED BY <1>2, <1>4, <2>1
<1>9. lines \in [Account -> Int]
  <2>1. \A a \in Account : lines[a] \in Int
    <3> SUFFICES ASSUME NEW a \in Account PROVE lines[a] \in Int
      OBVIOUS
    <3>1. CASE a \in Pending
      BY <1>1, <1>3, <1>5, <3>1
    <3>2. CASE a \in Available
      BY <1>1, <1>3, <1>6, <3>2
    <3>3. CASE a \notin Pending \cup Available
      BY <1>1, <1>7, <1>8, <3>3 DEF Account
    <3> QED BY <3>1, <3>2, <3>3
  <2> QED BY <1>2, <2>1
<1>10. \A v \in Vendor : due[v] = room[v] - (Fee - fees[v])
  BY <1>1
<1>11. SumFunction(fees) \in Int
  <2>1. \A q \in Vendor : fees[q] \in Int
    OBVIOUS
  <2>2. SumFunctionOnSet(fees, Vendor) \in Int
    BY <2>1, VendorFinite, SumRemoved
  <2> QED BY <2>2 DEF SumFunction
<1> QED BY <1>1, <1>3, <1>5, <1>6, <1>7, <1>8, <1>9, <1>10, <1>11 DEF lines, room, total

\* A release turns what is held for the vendors into what is theirs.
LEMMA ReleaseKeeps ==
  ASSUME NEW l, NEW d \in Int, DeliverySound(l, d),
         back.base \in [Vendor -> Int], back.fee \in [Vendor -> Int],
         ShopsSound(l, back.base, back.fee, FALSE)
  PROVE  LET m == Post(l, ReleaseLines) IN
         /\ DeliverySound(m, d) /\ ShopsSound(m, back.base, back.fee, TRUE)
         /\ m.taken = l.taken /\ m.earner = l.earner /\ m.waiver = l.waiver
         /\ m.books[Payable] = l.books[Payable] /\ m.books[RedoPayable] = l.books[RedoPayable]
<1> DEFINE lines == ReleaseLines
           m == Post(l, lines)
           fees == back.fee
           total == Vendors * Fee - SumFunction(fees)
           room == Room
<1>1. /\ total \in Int /\ lines \in [Account -> Int] /\ room \in [Vendor -> Int]
      /\ \A v \in Vendor : room[v] = Base - back.base[v]
  BY ReleaseLinesAre, TheAmounts DEF Room
<1>2. /\ \A a \in Pending : lines[a] = -room[a[2]]
      /\ \A a \in Available : lines[a] = room[a[2]] - (Fee - fees[a[2]])
      /\ lines[FeeIncome] = total
      /\ \A a \in {DeliveryIncome, Payable, RedoPayable} \cup RiderBalance : lines[a] = 0 /\ a \in Account
  BY ReleaseLinesAre, TheAccounts DEF Account
<1> HIDE DEF lines, room, total
<1>3. /\ m \in Ledger /\ m.taken = l.taken /\ m.earner = l.earner /\ m.waiver = l.waiver
       /\ \A a \in Account : m.books[a] = l.books[a] + lines[a]
  BY <1>1, PostIs DEF DeliverySound
<1>4. \A a \in Account : l.books[a] \in Int
  BY DEF DeliverySound, Ledger
<1> HIDE DEF m
<1>5. \A a \in {DeliveryIncome, Payable, RedoPayable} \cup RiderBalance : m.books[a] = l.books[a]
  BY <1>2, <1>3, <1>4
<1>6. \A r \in Rider : BalanceOf(m, r) = BalanceOf(l, r)
  BY <1>5, TheAccounts DEF BalanceOf
<1>7. DeliverySound(m, d)
  <2>1. FeeTakenIn(m) = FeeTakenIn(l) /\ GivenBack(m) = GivenBack(l)
    BY <1>3 DEF FeeTakenIn, GivenBack
  <2> QED BY <1>3, <1>5, <1>6, <2>1 DEF DeliverySound
<1>8. \A v \in Vendor : PendingOf(m, v) = 0
  <2> TAKE v \in Vendor
  <2> DEFINE a == <<"vendor_pending", v>>
  <2>1. a \in Pending /\ a[2] = v /\ a \in Account
    BY TheAccounts
  <2>2. l.books[a] = Base - back.base[v]
    BY DEF ShopsSound, PendingOf
  <2>3. Base \in Int /\ back.base[v] \in Int
    BY TheAmounts
  <2> HIDE DEF a
  <2>4. m.books[a] = l.books[a] - room[v] /\ room[v] = Base - back.base[v]
    BY <1>1, <1>2, <1>3, <1>4, <2>1
  <2> QED BY <2>2, <2>3, <2>4 DEF PendingOf, a
<1>9. \A v \in Vendor : AvailableOf(m, v) = ((Base - back.base[v]) - (Fee - fees[v])) - Promised(m, v)
  <2> TAKE v \in Vendor
  <2> DEFINE a == <<"vendor_available", v>>
  <2>1. a \in Available /\ a[2] = v /\ a \in Account
    BY TheAccounts
  <2>2. l.books[a] = 0 - Promised(l, v)
    BY DEF ShopsSound, AvailableOf
  <2>3. Promised(m, v) = Promised(l, v) /\ Promised(l, v) \in Int
    BY <1>3, TheAmounts DEF Promised, Charged
  <2> HIDE DEF a
  <2>4. m.books[a] = l.books[a] + (room[v] - (Fee - fees[v]))
    BY <1>2, <1>3, <2>1
  <2>5. room[v] \in Int /\ Fee - fees[v] \in Int
    BY <1>1, TheAmounts
  <2>6. m.books[a] = (room[v] - (Fee - fees[v])) - Promised(m, v)
    BY <2>2, <2>3, <2>4, <2>5
  <2> QED BY <1>1, <2>6 DEF AvailableOf, a
<1>10. m.books[FeeIncome] = total
  <2>1. l.books[FeeIncome] = 0
    BY DEF ShopsSound
  <2> QED BY <1>1, <1>2, <1>3, <2>1, TheAccounts
<1>11. ShopsSound(m, back.base, fees, TRUE)
  BY <1>8, <1>9, <1>10 DEF ShopsSound, total
<1> QED BY <1>3, <1>5, <1>7, <1>11 DEF m, lines

-----------------------------------------------------------------------------
(* What was given back.                                                    *)

Refunds == [base : [Vendor -> 0..Base], fee : [Vendor -> 0..Fee], customer : 0..Paid,
            delivery : 0..DeliveryFee, subsidy : 0..Discount, processing : 0..Processing]

\* What was given back is of the order, and made up of the customer's part and the coupon's;
\* the delivery fee still held is covered by what the customer has not got back.
BackSound(b) ==
  /\ b \in Refunds
  /\ \A v \in Vendor : b.fee[v] = FeeShare(Fee, Base, b.base[v])
  /\ SumFunction(b.base) + b.delivery = b.customer + b.subsidy
  /\ Paid - b.customer >= DeliveryFee - b.delivery

\* Nothing is left of the items.
Emptied == \A v \in Vendor : back.base[v] = Base

GiveSound(give) ==
  /\ give.base \in [Vendor -> Nat] /\ \A v \in Vendor : give.base[v] <= Room[v]
  /\ give.customer \in Nat /\ give.delivery \in 0..FeeHeld /\ give.subsidyOwed \in 0..LeftSubsidy
  /\ give.subsidy \in Int /\ give.processing \in 0..LeftProcessing
  /\ SumFunction(give.base) + give.delivery = give.customer + give.subsidyOwed
  /\ PaidLeft - give.customer >= FeeHeld - give.delivery

\* An order costs something.
LEMMA PaidIs == Paid \in Nat \ {0} /\ Paid = Items - Discount + DeliveryFee /\ Items \in Nat
<1>1. Items \in Nat /\ Discount \in Nat /\ Discount < Items /\ DeliveryFee \in Nat
  BY TheAmounts DEF Items
<1>2. Paid = Items - Discount + DeliveryFee
  BY DEF Paid, Items
<1> QED BY <1>1, <1>2

\* What is left of an order, in the terms refunds are computed in.
LEMMA BackIs ==
  ASSUME BackSound(back)
  PROVE  /\ BackTyped /\ back.base \in [Vendor -> Int] /\ back.fee \in [Vendor -> Int]
         /\ back.customer \in Nat /\ back.delivery \in Nat /\ back.subsidy \in Nat /\ back.processing \in Nat
         /\ PaidLeft \in Nat /\ FeeHeld \in Nat /\ PaidLeft >= FeeHeld /\ FeeHeld <= DeliveryFee
         /\ LeftSubsidy \in Nat /\ LeftProcessing \in Nat
         /\ PaidLeft = Paid - back.customer /\ FeeHeld = DeliveryFee - back.delivery
         /\ SumFunction(back.base) \in Nat
         /\ SumFunction(back.base) + back.delivery = back.customer + back.subsidy
         /\ SumFunction(Room) = Items - SumFunction(back.base) /\ SumFunction(Room) \in Nat
<1>1. /\ back.base \in [Vendor -> 0..Base] /\ back.fee \in [Vendor -> 0..Fee] /\ back.customer \in 0..Paid
      /\ back.delivery \in 0..DeliveryFee /\ back.subsidy \in 0..Discount /\ back.processing \in 0..Processing
      /\ SumFunction(back.base) + back.delivery = back.customer + back.subsidy
      /\ Paid - back.customer >= DeliveryFee - back.delivery
  BY DEF BackSound, Refunds
<1>2. Paid \in Nat /\ DeliveryFee \in Nat /\ Discount \in Nat /\ Processing \in Nat
  BY PaidIs, TheAmounts
<1>3. back.base \in [Vendor -> Int] /\ back.fee \in [Vendor -> Int] /\ BackTyped
  BY <1>1 DEF BackTyped
<1>4. /\ PaidLeft \in Nat /\ FeeHeld \in Nat /\ PaidLeft >= FeeHeld /\ FeeHeld <= DeliveryFee
      /\ LeftSubsidy \in Nat /\ LeftProcessing \in Nat
  BY <1>1, <1>2 DEF PaidLeft, FeeHeld, LeftSubsidy, LeftProcessing
<1>5. SumFunction(back.base) \in Nat /\ SumFunction(Room) = Items - SumFunction(back.base) /\ SumFunction(Room) \in Nat
  BY <1>3, RoomIs
<1> QED BY <1>1, <1>2, <1>3, <1>4, <1>5 DEF PaidLeft, FeeHeld

\* A sound refund leaves what was given back sound.
LEMMA GivenIs ==
  ASSUME BackSound(back), NEW give, GiveSound(give)
  PROVE  /\ BackSound(Given(give, FeeOf(give)))
         /\ FeeOf(give) \in [Vendor -> Int] /\ GiveTyped(give)
<1> DEFINE g == Given(give, FeeOf(give))
           fee == FeeOf(give)
           given == back.base
           b == give.base
<1>1. \A v \in Vendor : /\ given[v] + b[v] \in 0..Base
                        /\ b[v] \in Nat /\ given[v] \in Nat /\ back.fee[v] \in Int
                        /\ FeeShare(Fee, Base, given[v] + b[v]) \in 0..Fee
  <2> SUFFICES ASSUME NEW v \in Vendor
               PROVE  /\ given[v] + b[v] \in 0..Base
                      /\ b[v] \in Nat /\ given[v] \in Nat /\ back.fee[v] \in Int
                      /\ FeeShare(Fee, Base, given[v] + b[v]) \in 0..Fee
    OBVIOUS
  <2>1. b[v] \in Nat /\ b[v] <= Room[v] /\ Room[v] = Base - given[v] /\ given[v] \in 0..Base /\ back.fee[v] \in Int
    BY BackIs, RoomIs DEF GiveSound, BackTyped
  <2>2. given[v] + b[v] \in 0..Base
    BY <2>1, TheAmounts
  <2> QED BY <2>1, <2>2, TheAmounts, ShareType
<1>2. fee = [v \in Vendor |-> FeeShare(Fee, Base, given[v] + b[v]) - back.fee[v]]
  BY DEF FeeOf
<1>3. fee \in [Vendor -> Int] /\ \A v \in Vendor : back.fee[v] + fee[v] = FeeShare(Fee, Base, given[v] + b[v])
  BY <1>1, <1>2
<1>4. GiveTyped(give)
  BY BackIs DEF GiveSound, GiveTyped
<1> DEFINE base == [v \in Vendor |-> given[v] + b[v]]
           fees == [v \in Vendor |-> back.fee[v] + fee[v]]
<1>5. base \in [Vendor -> 0..Base] /\ fees \in [Vendor -> 0..Fee]
  BY <1>1, <1>3
<1>6. \A v \in Vendor : fees[v] = FeeShare(Fee, Base, base[v])
  BY <1>3
<1>7. SumFunction(base) = SumFunction(given) + SumFunction(b) /\ SumFunction(b) \in Int
  <2>1. \A x \in Vendor : given[x] \in Int /\ b[x] \in Int /\ base[x] = given[x] + b[x]
    BY <1>1
  <2>2. IsFiniteSet(Vendor) /\ DOMAIN base = Vendor /\ DOMAIN given = Vendor /\ DOMAIN b = Vendor
    BY VendorFinite, BackIs DEF GiveSound
  <2> HIDE DEF base, given, b
  <2>3. SumFunctionOnSet(base, Vendor) = SumFunctionOnSet(given, Vendor) + SumFunctionOnSet(b, Vendor)
    BY <2>1, <2>2, SumPlus
  <2>4. SumFunctionOnSet(b, Vendor) \in Int
    BY <2>1, <2>2, SumRemoved
  <2> QED BY <2>2, <2>3, <2>4 DEF SumFunction
<1>8. g = [base |-> base, fee |-> fees,
           customer |-> back.customer + give.customer, delivery |-> back.delivery + give.delivery,
           subsidy |-> back.subsidy + give.subsidyOwed, processing |-> back.processing + give.processing]
  BY DEF Given
<1> DEFINE cu == back.customer + give.customer
           de == back.delivery + give.delivery
           su == back.subsidy + give.subsidyOwed
           pr == back.processing + give.processing
<1>9. /\ cu \in 0..Paid /\ de \in 0..DeliveryFee /\ su \in 0..Discount /\ pr \in 0..Processing
      /\ Paid - cu >= DeliveryFee - de
      /\ SumFunction(base) + de = cu + su
  <2>1. /\ back.customer \in Nat /\ back.delivery \in Nat /\ back.subsidy \in Nat /\ back.processing \in Nat
        /\ PaidLeft = Paid - back.customer /\ FeeHeld = DeliveryFee - back.delivery /\ FeeHeld \in Nat
        /\ LeftSubsidy = Discount - back.subsidy /\ LeftProcessing = Processing - back.processing
        /\ SumFunction(given) \in Nat /\ SumFunction(given) + back.delivery = back.customer + back.subsidy
    BY BackIs DEF LeftSubsidy, LeftProcessing
  <2>2. /\ give.customer \in Nat /\ give.delivery \in 0..FeeHeld /\ give.subsidyOwed \in 0..LeftSubsidy
        /\ give.processing \in 0..LeftProcessing
        /\ SumFunction(b) + give.delivery = give.customer + give.subsidyOwed
        /\ PaidLeft - give.customer >= FeeHeld - give.delivery
    BY DEF GiveSound
  <2>3. Paid \in Nat /\ DeliveryFee \in Nat /\ Discount \in Nat /\ Processing \in Nat
    BY PaidIs, TheAmounts
  <2> HIDE DEF base, given, b
  <2> QED BY <1>7, <2>1, <2>2, <2>3
<1> HIDE DEF base, fees, cu, de, su, pr, g, fee
<1>10. g \in Refunds
  BY <1>5, <1>8, <1>9 DEF Refunds, cu, de, su, pr
<1>11. g.base = base /\ g.fee = fees /\ g.customer = cu /\ g.delivery = de /\ g.subsidy = su
  BY <1>8 DEF cu, de, su
<1>12. BackSound(g)
  BY <1>6, <1>9, <1>10, <1>11 DEF BackSound
<1> QED BY <1>3, <1>4, <1>12 DEF g, fee

\* A partial refund.
LEMMA PartGiveIs ==
  ASSUME BackSound(back), NEW j, NEW scope \in 0..Vendors, NEW amount \in Int, NEW charge \in BOOLEAN,
         PartAllowed(j, scope, amount)
  PROVE  /\ GiveSound(PartGive(scope, amount, charge))
         /\ PartGive(scope, amount, charge).delivery = 0
         /\ ~Emptied
<1> DEFINE give == PartGive(scope, amount, charge)
<1>1. amount \in Nat \ {0} /\ amount <= RoomOf(scope) /\ amount <= PaidLeft - FeeHeld
  <2>1. amount > 0 /\ amount <= RoomOf(scope) /\ amount <= LeftPartial
    BY DEF PartAllowed
  <2>2. PaidLeft - FeeHeld >= 0 /\ PaidLeft - FeeHeld \in Int
    BY BackIs
  <2>3. LeftPartial = PaidLeft - FeeHeld
    BY <2>2 DEF LeftPartial, OrZero
  <2> QED BY <2>1, <2>2, <2>3
<1>2. /\ give.base \in [Vendor -> Nat] /\ \A v \in Vendor : give.base[v] <= Room[v]
      /\ SumFunction(give.base) = amount
  BY <1>1, BackIs, PartIs
<1>3. /\ give.customer = amount /\ give.delivery = 0 /\ give.subsidyOwed = 0 /\ give.subsidy = 0
      /\ give.processing = IF charge THEN ChargeShare(Processing, LeftProcessing, amount, Paid) ELSE 0
  BY DEF PartGive
<1> HIDE DEF give
<1>4. give.processing \in 0..LeftProcessing
  <2> DEFINE p == Processing * amount
             h == HalfUp(p, Paid)
  <2>1. p \in Nat /\ Paid \in Nat \ {0}
    BY <1>1, TheAmounts, PaidIs
  <2>2. h \in Nat
    <3> HIDE DEF p
    <3> QED BY <2>1, HalfUpNear
  <2>3. LeftProcessing \in Nat
    BY BackIs
  <2>4. ChargeShare(Processing, LeftProcessing, amount, Paid) = AtMost(LeftProcessing, h)
    BY <2>1 DEF ChargeShare
  <2> HIDE DEF h
  <2> QED BY <1>3, <2>2, <2>3, <2>4 DEF AtMost
<1>5. GiveSound(give)
  <2>1. PaidLeft \in Nat /\ FeeHeld \in Nat /\ LeftSubsidy \in Nat
    BY BackIs
  <2> QED BY <1>1, <1>2, <1>3, <1>4, <2>1 DEF GiveSound
<1>6. ~Emptied
  <2> SUFFICES ASSUME Emptied PROVE FALSE
    OBVIOUS
  <2>1. RoomOf(scope) = 0
    BY BackIs, RoomAllGone DEF Emptied
  <2> QED BY <1>1, <2>1
<1> QED BY <1>3, <1>5, <1>6 DEF give

\* A whole refund, the delivery fee kept back or not.
LEMMA WholeGiveIs ==
  ASSUME BackSound(back), NEW j, NEW charge \in BOOLEAN,
         ~Earned(j) \/ back.delivery = 0 \/ (Emptied /\ PaidLeft = FeeHeld)
  PROVE  LET give == WholeGive(j, charge)
             b == Given(give, FeeOf(give)) IN
         /\ GiveSound(give)
         /\ Earned(j) => give.delivery = 0
         /\ \A v \in Vendor : b.base[v] = Base
         /\ Paid - b.customer = DeliveryFee - b.delivery
<1> DEFINE give == WholeGive(j, charge)
           b == Given(give, FeeOf(give))
           rest == SumFunction(Room)
           sold == SumFunction(back.base)
<1>1. /\ give.base = Room /\ give.customer = LeftCustomer(j) /\ give.delivery = LeftDelivery(j)
      /\ give.subsidyOwed = LeftSubsidy /\ give.subsidy = LeftSubsidy - Shortfall(j)
      /\ give.processing = IF charge THEN LeftProcessing ELSE 0
  BY DEF WholeGive
<1>2. /\ \A v \in Vendor : b.base[v] = back.base[v] + give.base[v]
      /\ b.customer = back.customer + give.customer /\ b.delivery = back.delivery + give.delivery
  BY DEF Given
<1> HIDE DEF give, b
<1>3. Room \in [Vendor -> Nat] /\ \A v \in Vendor : Room[v] <= Room[v] /\ back.base[v] + Room[v] = Base
  <2>1. \A v \in Vendor : Room[v] = Base - back.base[v] /\ back.base[v] \in Nat /\ back.base[v] <= Base /\ Base \in Nat
    BY RoomIs, BackIs, TheAmounts DEF BackTyped
  <2> QED BY <2>1 DEF Room
<1>4. /\ back.customer \in Nat /\ back.delivery \in Nat /\ back.subsidy \in Nat
      /\ PaidLeft \in Nat /\ FeeHeld \in Nat /\ PaidLeft >= FeeHeld /\ FeeHeld <= DeliveryFee
      /\ LeftSubsidy \in Nat /\ LeftProcessing \in Nat /\ LeftSubsidy = Discount - back.subsidy
      /\ PaidLeft = Paid - back.customer /\ FeeHeld = DeliveryFee - back.delivery
      /\ sold \in Nat /\ rest \in Nat
      /\ sold + back.delivery = back.customer + back.subsidy
      /\ rest = Items - sold
  BY BackIs DEF LeftSubsidy
<1>5. Paid = Items - Discount + DeliveryFee /\ Items \in Nat /\ Discount \in Nat /\ DeliveryFee \in Nat
  BY PaidIs, TheAmounts
<1> DEFINE kept == Kept(j)
<1>6. kept = IF Earned(j) THEN DeliveryFee ELSE 0
  BY DEF Kept
<1>7. /\ LeftCustomer(j) = (IF PaidLeft - kept > 0 THEN PaidLeft - kept ELSE 0)
      /\ LeftDelivery(j) = (IF FeeHeld - kept > 0 THEN FeeHeld - kept ELSE 0)
      /\ Shortfall(j) = (IF kept - PaidLeft > 0 THEN kept - PaidLeft ELSE 0)
  BY DEF LeftCustomer, LeftDelivery, Shortfall, OrZero
<1> HIDE DEF kept
<1>8. Emptied => rest = 0
  BY BackIs, RoomAllGone DEF Emptied
<1> HIDE DEF rest, sold
<1>9. /\ LeftCustomer(j) \in Nat /\ LeftDelivery(j) \in 0..FeeHeld /\ Shortfall(j) \in Nat
      /\ rest + LeftDelivery(j) = LeftCustomer(j) + LeftSubsidy
      /\ PaidLeft - LeftCustomer(j) = FeeHeld - LeftDelivery(j)
      /\ Earned(j) => LeftDelivery(j) = 0
  <2>1. CASE ~Earned(j)
    <3>1. LeftCustomer(j) = PaidLeft /\ LeftDelivery(j) = FeeHeld /\ Shortfall(j) = 0
      BY <1>4, <1>6, <1>7, <2>1
    <3>2. rest + FeeHeld = PaidLeft + LeftSubsidy
      <4> DEFINE c == back.customer
                 d == back.delivery
                 u == back.subsidy
      <4>1. rest = Items - sold /\ FeeHeld = DeliveryFee - d
            /\ PaidLeft = Items - Discount + DeliveryFee - c
            /\ LeftSubsidy = Discount - u /\ sold + d = c + u
            /\ Items \in Int /\ sold \in Int /\ DeliveryFee \in Int /\ d \in Int
            /\ Discount \in Int /\ c \in Int /\ u \in Int
        BY <1>4, <1>5
      <4> HIDE DEF c, d, u
      <4>2. sold = c + u - d
        BY <4>1
      <4> QED BY <4>1, <4>2
    <3> QED BY <1>4, <2>1, <3>1, <3>2
  <2>2. CASE Earned(j) /\ back.delivery = 0
    BY <1>4, <1>5, <1>6, <1>7, <2>2
  <2>3. CASE Earned(j) /\ Emptied /\ PaidLeft = FeeHeld
    BY <1>4, <1>5, <1>6, <1>7, <1>8, <2>3
  <2> QED BY <2>1, <2>2, <2>3
<1>10. GiveSound(give)
  <2>1. give.processing \in 0..LeftProcessing /\ give.subsidy \in Int
    BY <1>1, <1>4, <1>9
  <2> QED BY <1>1, <1>3, <1>4, <1>9, <2>1 DEF GiveSound, rest
<1>11. \A v \in Vendor : b.base[v] = Base
  BY <1>1, <1>2, <1>3
<1>12. Paid - b.customer = DeliveryFee - b.delivery
  BY <1>1, <1>2, <1>4, <1>5, <1>9
<1> QED BY <1>1, <1>9, <1>10, <1>11, <1>12 DEF b, give

-----------------------------------------------------------------------------
(* The inductive invariant.                                                *)

Books ==
  /\ BackSound(back)
  /\ DeliverySound(ledger, back.delivery)
  /\ ShopsSound(ledger, back.base, back.fee, released)
  /\ RedoFeeHeld

\* The customer has all but the delivery fee taken, and nothing is held.
Finished == Emptied /\ PaidLeft = FeeHeld /\ ledger.books[Payable] = 0
Untouched == ledger.taken = 0 /\ ledger.earner = "none" /\ Owed(ledger) = Waived

StageInv ==
  /\ released => Delivered(job) /\ order = "paid" /\ ledger.books[Payable] = 0
  /\ refunded /\ order = "paid" => Delivered(job)
  /\ order = "cancelled" \/ refunded => Finished
  /\ ~refunded => back.delivery = 0
  /\ order = "paid" /\ ~released => Untouched \/ (Emptied /\ ledger.books[Payable] = 0)

IInv ==
  /\ JobSound /\ released \in BOOLEAN
  /\ Books
  /\ StageInv
  /\ DelivererIsPaid
  /\ FirstRiderIsPaid

-----------------------------------------------------------------------------
(* Refunds.                                                                *)

\* What every refund does, `j` being the job it looks at.
Orderly(j) ==
  /\ Books'
  /\ refunded' \in BOOLEAN /\ (refunded => refunded')
  /\ redo' \in {"none", "waiting", "paid", "assigned", "completed", "refunded", "cancelled"}
  /\ ~refunded' => back'.delivery = 0
  /\ released => /\ ledger'.books[Payable] = 0
                 /\ ledger'.taken = ledger.taken /\ ledger'.earner = ledger.earner
  /\ \/ ledger'.earner = ledger.earner
     \/ /\ ledger.earner = "none" /\ ~released
        /\ ledger'.earner = FeePayee(j, FALSE) /\ ledger'.earner \in ThirdParty
  /\ refunded' /\ ~refunded /\ firstLeg \in ThirdParty /\ DeliveryFee > 0 => ledger'.earner # "none"

\* The ledger a refund starts from: the promo may be reversed already.
Start(l) ==
  /\ DeliverySound(l, back.delivery) /\ ShopsSound(l, back.base, back.fee, released)
  /\ l.books = ledger.books /\ l.taken = ledger.taken /\ l.earner = ledger.earner

\* What giving a promo back leaves alone.
LEMMA ReturnedIs ==
  ASSUME NEW l \in Ledger
  PROVE  /\ PromoReturned(l) \in Ledger
         /\ PromoReturned(l).taken = l.taken /\ PromoReturned(l).earner = l.earner
         /\ PromoReturned(l).books[Payable] = l.books[Payable]
         /\ PromoReturned(l).books[RedoPayable] = l.books[RedoPayable]
<1>1. \A a \in {Payable, RedoPayable} : a \in Account /\ a # Funder /\ a # DeliveryIncome /\ l.books[a] \in Int
  BY TheAccounts, TheyDiffer, FunderIs DEF Kinds, Ledger
<1> QED BY <1>1, PromoReturnedIs

\* A second trip closed is in one of its states.
LEMMA ClosedType ==
  ASSUME NEW j, JobTypeOK
  PROVE  RedoClosed(j) \in {"none", "waiting", "paid", "assigned", "completed", "refunded", "cancelled"}
<1>1. CASE redo = "waiting"
  BY <1>1 DEF RedoClosed
<1>2. CASE redo = "paid" \/ (redo = "assigned" /\ ~PickupMade(j))
  BY <1>2 DEF RedoClosed
<1>3. CASE redo = "assigned" /\ PickupMade(j)
  BY <1>3 DEF RedoClosed
<1>4. CASE redo \notin {"waiting", "paid", "assigned"}
  BY <1>4 DEF RedoClosed, JobTypeOK
<1> QED BY <1>1, <1>2, <1>3, <1>4

\* The delivery settled at a refund, if it has to be: an earned fee is then taken, and whoever
\* it is for has it.
AtRefund(j, l) == IF ~released /\ Earned(j) THEN DeliverySettled(l, FeePayee(j, FALSE)) ELSE l

\* The delivery as a refund finds it settled: in order, and an earned fee somebody's.
LEMMA AtRefundIs ==
  ASSUME IInv, NEW j, NEW l, Start(l), released => Delivered(j)
  PROVE  LET m == AtRefund(j, l) IN
         /\ DeliverySound(m, back.delivery) /\ ShopsSound(m, back.base, back.fee, released)
         /\ m.books[RedoPayable] = ledger.books[RedoPayable]
         /\ Earned(j) => m.books[Payable] = 0
         /\ ~Earned(j) => ~released /\ m = l
         /\ released => m.taken = ledger.taken /\ m.earner = ledger.earner
         /\ ledger.books[Payable] = 0 => m.books[Payable] = 0
         /\ \/ m.earner = ledger.earner
            \/ /\ ledger.earner = "none" /\ ~released
               /\ m.earner = FeePayee(j, FALSE) /\ m.earner \in ThirdParty
         /\ Earned(j) /\ ~refunded /\ firstLeg \in ThirdParty /\ DeliveryFee > 0 => m.earner # "none"
<1> DEFINE m == AtRefund(j, l)
           payee == FeePayee(j, FALSE)
<1>1. /\ back.delivery \in Nat /\ back.base \in [Vendor -> Int] /\ back.fee \in [Vendor -> Int]
      /\ released \in BOOLEAN /\ l \in Ledger
  BY BackIs DEF IInv, Books, Start, DeliverySound
<1>2. released => Earned(j)
  BY DEF Earned
<1>3. CASE ~released /\ Earned(j)
  <2>1. m = DeliverySettled(l, payee)
    BY <1>3 DEF AtRefund
  <2> HIDE DEF m, payee
  <2>2. /\ DeliverySound(m, back.delivery) /\ m.books[Payable] = 0
        /\ m.books[RedoPayable] = l.books[RedoPayable]
    BY <1>1, <2>1, SettledKeepsDelivery DEF Start
  <2>3. ShopsSound(m, back.base, back.fee, released)
    BY <1>1, <2>1, SettledKeepsShops DEF Start
  <2>4. m.earner = (IF Credit(l, payee) > 0 THEN payee ELSE l.earner)
    BY <1>1, <2>1, SettledIs
  <2>5. /\ Credit(l, payee) > 0 => payee \in ThirdParty /\ l.earner = "none"
        /\ payee \in ThirdParty /\ l.earner = "none" /\ Takings(l) > 0 => Credit(l, payee) > 0
    BY DEF Credit
  <2>6. ASSUME ~refunded, firstLeg \in ThirdParty, DeliveryFee > 0 PROVE m.earner # "none"
    <3>1. "none" \notin ThirdParty
      BY TheAmounts
    <3>2. payee = firstLeg /\ payee \in ThirdParty
      BY <2>6, <3>1 DEF FeePayee, payee
    <3>3. Takings(l) > 0
      <4>1. back.delivery = 0
        BY <2>6 DEF IInv, StageInv
      <4>2. l.books[Payable] = DeliveryFee - 0 - l.taken /\ l.taken \in Nat
        BY <2>6, <4>1 DEF Start, DeliverySound, FeeTakenIn
      <4>3. Owed(l) \in Nat
        BY TheAmounts DEF Owed
      <4>4. Takings(l) = l.taken + l.books[Payable] + Owed(l) /\ DeliveryFee \in Nat
        BY TheAmounts DEF Takings
      <4> QED BY <2>6, <4>2, <4>3, <4>4
    <3> QED BY <2>4, <2>5, <3>1, <3>2, <3>3
  <2> QED BY <1>3, <2>2, <2>3, <2>4, <2>5, <2>6 DEF Start, m, payee
<1>4. CASE ~(~released /\ Earned(j))
  <2>1. m = l
    BY <1>4 DEF AtRefund
  <2>2. released => ledger.books[Payable] = 0
    BY DEF IInv, StageInv
  <2>3. ASSUME Earned(j), ~refunded, firstLeg \in ThirdParty, DeliveryFee > 0 PROVE m.earner # "none"
    <3>1. "none" \notin ThirdParty /\ released
      BY <1>4, <2>3, TheAmounts
    <3>2. ledger.earner = firstLeg
      BY <2>3, <3>1 DEF IInv, FirstRiderIsPaid
    <3> QED BY <2>1, <2>3, <3>1, <3>2 DEF Start
  <2> QED BY <1>2, <1>4, <2>1, <2>2, <2>3 DEF Start
<1> QED BY <1>3, <1>4

\* A refund with nothing left to give.
LEMMA RefundNothingIs ==
  ASSUME IInv, NEW j, NEW l, Start(l), released => Delivered(j), NEW charge \in BOOLEAN,
         NothingLeft(j, charge), RefundNothing(j, l), released' = released
  PROVE  Orderly(j) /\ Finished'
<1> DEFINE settled == AtRefund(j, l)
           done == IF Earned(j) THEN settled ELSE PromoReturned(settled)
           d == back.delivery
<1>1. ledger' = RedoClosedIn(done, j) /\ redo' = RedoClosed(j) /\ back' = back /\ refunded' = refunded
  <2>1. ~Earned(j) => settled = l
    BY DEF AtRefund
  <2>2. ledger' = RedoClosedIn(IF ~Earned(j) THEN PromoReturned(l)
                               ELSE IF ~released THEN DeliverySettled(l, FeePayee(j, FALSE)) ELSE l, j)
        /\ redo' = RedoClosed(j) /\ back' = back /\ refunded' = refunded
    BY DEF RefundNothing
  <2>3. (IF ~Earned(j) THEN PromoReturned(l)
         ELSE IF ~released THEN DeliverySettled(l, FeePayee(j, FALSE)) ELSE l) = done
    BY <2>1 DEF AtRefund
  <2> QED BY <2>2, <2>3
<1>2. /\ DeliverySound(settled, d) /\ ShopsSound(settled, back.base, back.fee, released)
      /\ settled.books[RedoPayable] = ledger.books[RedoPayable]
      /\ Earned(j) => settled.books[Payable] = 0
      /\ ~Earned(j) => ~released /\ settled = l
      /\ released => settled.taken = ledger.taken /\ settled.earner = ledger.earner
      /\ ledger.books[Payable] = 0 => settled.books[Payable] = 0
      /\ \/ settled.earner = ledger.earner
         \/ /\ ledger.earner = "none" /\ ~released
            /\ settled.earner = FeePayee(j, FALSE) /\ settled.earner \in ThirdParty
  BY AtRefundIs
<1>3. BackSound(back) /\ d \in Nat /\ back.base \in [Vendor -> Int] /\ back.fee \in [Vendor -> Int] /\ released \in BOOLEAN
  BY BackIs DEF IInv, Books
<1> HIDE DEF settled, d
<1>4. /\ DeliverySound(done, d) /\ ShopsSound(done, back.base, back.fee, released)
      /\ done.taken = settled.taken /\ done.earner = settled.earner
      /\ done.books[Payable] = settled.books[Payable]
      /\ done.books[RedoPayable] = settled.books[RedoPayable]
  <2>1. CASE Earned(j)
    BY <1>2, <2>1
  <2>2. CASE ~Earned(j)
    <3>1. settled \in Ledger /\ done = PromoReturned(settled)
      BY <1>2, <2>2 DEF DeliverySound
    <3>2. DeliverySound(PromoReturned(settled), d)
      BY <1>2, <1>3, ReturnedKeepsDelivery
    <3>3. ShopsSound(PromoReturned(settled), back.base, back.fee, released)
      BY <1>2, <1>3, <3>1, ReturnedKeepsShops
    <3> QED BY <3>1, <3>2, <3>3, ReturnedIs
  <2> QED BY <2>1, <2>2
<1> HIDE DEF done
<1>5. RedoMoved(done, ledger', -RedoHeld) /\ redo' \notin {"paid", "assigned"}
  BY <1>1, <1>4, RedoClosedOut DEF DeliverySound
<1>6. DeliverySound(ledger', d) /\ ShopsSound(ledger', back.base, back.fee, released)
  <2>1. DeliverySound(ledger', d)
    BY <1>3, <1>4, <1>5, RedoKeepsDelivery
  <2>2. ShopsSound(ledger', back.base, back.fee, released)
    BY <1>4, <1>5, RedoKeepsShops
  <2> QED BY <2>1, <2>2
<1>7. /\ ledger'.taken = settled.taken /\ ledger'.earner = settled.earner
      /\ ledger'.books[Payable] = settled.books[Payable]
      /\ ledger'.books[RedoPayable] = ledger.books[RedoPayable] - RedoHeld
  <2>1. settled.books[RedoPayable] \in Int /\ RedoHeld \in Int
    BY <1>2, TheAccounts, TheAmounts DEF DeliverySound, Ledger, RedoHeld
  <2> QED BY <1>2, <1>4, <1>5, <2>1 DEF RedoMoved
<1>8. RedoFeeHeld'
  <2>1. ledger.books[RedoPayable] = RedoHeld /\ RedoHeld \in Int
    BY TheAmounts DEF IInv, Books, RedoFeeHeld, RedoHeld
  <2> QED BY <1>5, <1>7, <2>1 DEF RedoFeeHeld
<1>9. Books'
  <2>1. BackSound(back')
    BY <1>1, <1>3
  <2>2. DeliverySound(ledger', back'.delivery)
    BY <1>1, <1>6 DEF d
  <2>3. ShopsSound(ledger', back'.base, back'.fee, released')
    BY <1>1, <1>6
  <2> QED BY <1>8, <2>1, <2>2, <2>3 DEF Books
<1>10. SumFunction(Room) = 0 /\ LeftCustomer(j) = 0 /\ LeftDelivery(j) = 0
  BY DEF NothingLeft
<1>11. Emptied
  BY <1>3, <1>10, BackIs, RoomGone DEF Emptied
<1>12. PaidLeft = FeeHeld /\ ledger'.books[Payable] = 0
  <2>1. PaidLeft \in Nat /\ FeeHeld \in Nat /\ PaidLeft >= FeeHeld /\ FeeHeld <= DeliveryFee /\ FeeHeld = DeliveryFee - d
    BY <1>3, BackIs DEF d
  <2>2. /\ Kept(j) = (IF Earned(j) THEN DeliveryFee ELSE 0)
        /\ ~(PaidLeft - Kept(j) > 0) /\ DeliveryFee \in Nat
    <3>1. 0 = IF PaidLeft - Kept(j) > 0 THEN PaidLeft - Kept(j) ELSE 0
      BY <1>10 DEF LeftCustomer, OrZero
    <3>2. Kept(j) = (IF Earned(j) THEN DeliveryFee ELSE 0) /\ DeliveryFee \in Nat
      BY TheAmounts DEF Kept
    <3> QED BY <2>1, <3>1, <3>2
  <2>3. CASE ~Earned(j)
    <3>1. PaidLeft = 0 /\ FeeHeld = 0
      BY <2>1, <2>2, <2>3
    <3>2. /\ settled.books[Payable] \in Nat /\ settled.books[Payable] = DeliveryFee - d - FeeTakenIn(settled)
          /\ FeeTakenIn(settled) \in Nat
      BY <1>2 DEF DeliverySound, FeeTakenIn
    <3> QED BY <1>3, <1>7, <2>1, <2>2, <3>1, <3>2
  <2>4. CASE Earned(j) /\ ~refunded
    <3>1. d = 0
      BY <2>4 DEF IInv, StageInv, d
    <3> QED BY <1>2, <1>7, <2>1, <2>2, <2>4, <3>1
  <2>5. CASE refunded
    BY <1>2, <1>7, <2>5 DEF IInv, StageInv, Finished
  <2> QED BY <2>3, <2>4, <2>5
<1>13. Finished'
  BY <1>1, <1>11, <1>12 DEF Finished, Emptied, PaidLeft, FeeHeld
<1>14. Orderly(j)
  <2>1. JobTypeOK
    BY DEF IInv, JobSound
  <2>2. redo' \in {"none", "waiting", "paid", "assigned", "completed", "refunded", "cancelled"} /\ refunded' \in BOOLEAN
    BY <1>1, <2>1, ClosedType DEF JobTypeOK
  <2>3. ~refunded' => back'.delivery = 0
    BY <1>1 DEF IInv, StageInv
  <2> QED BY <1>1, <1>2, <1>7, <1>9, <1>12, <2>2, <2>3 DEF Orderly
<1> QED BY <1>13, <1>14

\* A whole refund leaves nothing behind.
LEMMA RefundWholeIs ==
  ASSUME IInv, NEW j, NEW l, Start(l), released => Delivered(j), NEW charge \in BOOLEAN,
         RefundWhole(j, l, charge), ledger'.books[Payable] >= 0, released' = released
  PROVE  Orderly(j) /\ Finished' /\ refunded'
<1> DEFINE give == WholeGive(j, charge)
           fee == FeeOf(give)
           settled == AtRefund(j, l)
           posted == Post(settled, RefundLines(give, fee))
           closed == RedoClosedIn(posted, j)
           d == back.delivery
           after == Given(give, fee)
<1>1. /\ ledger' = (IF Earned(j) THEN closed ELSE PromoReturned(closed))
      /\ back' = after /\ redo' = RedoClosed(j) /\ refunded' = TRUE
  BY DEF RefundWhole, AtRefund
<1>2. /\ DeliverySound(settled, d) /\ ShopsSound(settled, back.base, back.fee, released)
      /\ settled.books[RedoPayable] = ledger.books[RedoPayable]
      /\ Earned(j) => settled.books[Payable] = 0
      /\ ~Earned(j) => ~released /\ settled = l
      /\ released => settled.taken = ledger.taken /\ settled.earner = ledger.earner
      /\ \/ settled.earner = ledger.earner
         \/ /\ ledger.earner = "none" /\ ~released
            /\ settled.earner = FeePayee(j, FALSE) /\ settled.earner \in ThirdParty
      /\ Earned(j) /\ ~refunded /\ firstLeg \in ThirdParty /\ DeliveryFee > 0 => settled.earner # "none"
  BY AtRefundIs
<1>3. BackSound(back) /\ d \in Nat /\ back.base \in [Vendor -> Int] /\ back.fee \in [Vendor -> Int] /\ released \in BOOLEAN
  BY BackIs DEF IInv, Books
<1>4. /\ GiveSound(give) /\ (Earned(j) => give.delivery = 0)
      /\ \A v \in Vendor : after.base[v] = Base
      /\ Paid - after.customer = DeliveryFee - after.delivery
  <2>1. ~Earned(j) \/ d = 0 \/ (Emptied /\ PaidLeft = FeeHeld)
    BY DEF IInv, StageInv, Finished
  <2> QED BY <1>3, <2>1, WholeGiveIs
<1>5. BackSound(after) /\ fee \in [Vendor -> Int] /\ GiveTyped(give)
  BY <1>3, <1>4, GivenIs
<1>6. after.delivery = d + give.delivery
  BY DEF Given
<1>7. give.delivery \in Int /\ (released => give.delivery = 0)
  BY <1>2, <1>4, <1>5 DEF GiveTyped
<1> HIDE DEF settled, give, fee, after
<1>8. /\ posted \in Ledger /\ posted.taken = settled.taken /\ posted.earner = settled.earner
      /\ posted.waiver = settled.waiver
      /\ posted.books[Payable] = settled.books[Payable] - (IF released THEN 0 ELSE give.delivery)
      /\ posted.books[RedoPayable] = settled.books[RedoPayable]
  BY <1>2, <1>3, <1>5, RefundPostedIs DEF DeliverySound
<1> HIDE DEF posted
<1>9. RedoMoved(posted, closed, -RedoHeld) /\ redo' \notin {"paid", "assigned"}
  BY <1>1, <1>8, RedoClosedOut
<1> HIDE DEF closed
<1>10. closed \in Ledger /\ closed.taken = posted.taken /\ closed.earner = posted.earner
       /\ closed.books[Payable] = posted.books[Payable]
       /\ closed.books[RedoPayable] = posted.books[RedoPayable] - RedoHeld
  <2>1. posted.books[RedoPayable] \in Int /\ RedoHeld \in Int
    BY <1>8, TheAccounts, TheAmounts DEF Ledger, RedoHeld
  <2> QED BY <1>9, <2>1, TheAccounts DEF RedoMoved
<1>11. /\ ledger'.taken = settled.taken /\ ledger'.earner = settled.earner
       /\ ledger'.books[Payable] = posted.books[Payable]
       /\ ledger'.books[RedoPayable] = ledger.books[RedoPayable] - RedoHeld
  BY <1>1, <1>2, <1>8, <1>10, ReturnedIs
<1>12. posted.books[Payable] >= 0
  BY <1>11
<1>13. DeliverySound(posted, after.delivery) /\ ShopsSound(posted, after.base, after.fee, released)
  <2>1. DeliverySound(posted, d + give.delivery)
    BY <1>2, <1>3, <1>5, <1>7, <1>12, RefundKeepsDelivery DEF posted
  <2>2. ShopsSound(posted, after.base, after.fee, released)
    BY <1>2, <1>3, <1>5, RefundKeepsShops DEF posted, after, DeliverySound
  <2> QED BY <1>6, <2>1, <2>2
<1>14. /\ after.delivery \in Nat /\ after.base \in [Vendor -> Int] /\ after.fee \in [Vendor -> Int]
  BY <1>5, TheAmounts DEF BackSound, Refunds
<1>15. DeliverySound(closed, after.delivery) /\ ShopsSound(closed, after.base, after.fee, released)
  BY <1>9, <1>13, <1>14, RedoKeepsDelivery, RedoKeepsShops
<1>16. DeliverySound(ledger', after.delivery) /\ ShopsSound(ledger', after.base, after.fee, released)
  <2>1. CASE Earned(j)
    BY <1>1, <1>15, <2>1
  <2>2. CASE ~Earned(j)
    <3>1. DeliverySound(PromoReturned(closed), after.delivery)
      BY <1>14, <1>15, ReturnedKeepsDelivery
    <3>2. ShopsSound(PromoReturned(closed), after.base, after.fee, released)
      BY <1>3, <1>10, <1>14, <1>15, ReturnedKeepsShops
    <3> QED BY <1>1, <2>2, <3>1, <3>2
  <2> QED BY <2>1, <2>2
<1>17. RedoFeeHeld'
  <2>1. ledger.books[RedoPayable] = RedoHeld /\ RedoHeld \in Int
    BY TheAmounts DEF IInv, Books, RedoFeeHeld, RedoHeld
  <2> QED BY <1>9, <1>11, <2>1 DEF RedoFeeHeld
<1>18. Books'
  BY <1>1, <1>5, <1>16, <1>17 DEF Books
<1>19. ledger'.books[Payable] = 0
  <2>1. settled.books[Payable] \in Nat /\ settled.books[Payable] = DeliveryFee - d - FeeTakenIn(settled)
        /\ FeeTakenIn(settled) \in Nat
    BY <1>2 DEF DeliverySound, FeeTakenIn
  <2>2. CASE Earned(j)
    BY <1>2, <1>4, <1>8, <1>11, <2>2
  <2>3. CASE ~Earned(j)
    <3>1. posted.books[Payable] \in Nat /\ posted.books[Payable] = DeliveryFee - after.delivery - FeeTakenIn(posted)
          /\ FeeTakenIn(posted) = FeeTakenIn(settled)
      BY <1>8, <1>13 DEF DeliverySound, FeeTakenIn
    <3>2. give.delivery = LeftDelivery(j) /\ LeftDelivery(j) = OrZero(FeeHeld - 0)
      BY <2>3 DEF give, WholeGive, LeftDelivery, Kept
    <3>3. FeeHeld \in Nat /\ FeeHeld = DeliveryFee - d
      BY <1>3, BackIs DEF d
    <3>4. give.delivery = FeeHeld
      BY <3>2, <3>3 DEF OrZero
    <3>5. after.delivery = DeliveryFee /\ DeliveryFee \in Nat
      BY <1>3, <1>6, <3>3, <3>4, TheAmounts
    <3> QED BY <1>11, <2>1, <3>1, <3>5
  <2> QED BY <2>2, <2>3
<1>20. Finished'
  BY <1>1, <1>4, <1>19 DEF Finished, Emptied, PaidLeft, FeeHeld
<1>21. Orderly(j)
  <2>1. JobTypeOK
    BY DEF IInv, JobSound
  <2>2. redo' \in {"none", "waiting", "paid", "assigned", "completed", "refunded", "cancelled"}
    BY <1>1, <2>1, ClosedType
  <2>3. firstLeg \in ThirdParty => Earned(j)
    BY TheAmounts DEF Earned
  <2> QED BY <1>1, <1>2, <1>11, <1>18, <1>19, <2>2, <2>3 DEF Orderly
<1> QED BY <1>1, <1>20, <1>21

\* A partial refund leaves the delivery's money alone but for a promo of an order it empties.
LEMMA RefundPartIs ==
  ASSUME IInv, NEW j, NEW scope \in 0..Vendors, NEW amount \in Int, NEW charge \in BOOLEAN,
         PartAllowed(j, scope, amount), RefundPart(j, ledger, scope, amount, charge), released' = released,
         released => Delivered(j)
  PROVE  /\ Orderly(j)
         /\ ~Emptied /\ redo' = redo /\ refunded' = refunded
         /\ ledger'.taken = ledger.taken /\ ledger'.earner = ledger.earner
         /\ ledger'.books[Payable] = ledger.books[Payable]
         /\ ledger'.waiver = ledger.waiver \/ (Emptied' /\ ~released)
<1> DEFINE give == PartGive(scope, amount, charge)
           fee == FeeOf(give)
           posted == Post(ledger, RefundLines(give, fee))
           after == Given(give, fee)
           empties == \A v \in Vendor : give.base[v] >= Room[v]
           d == back.delivery
           over == ~Earned(j) /\ empties /\ ~Delivered(j)
<1>1. /\ ledger' = (IF over THEN PromoReturned(posted) ELSE posted)
      /\ back' = after /\ redo' = redo /\ refunded' = refunded
  BY DEF RefundPart
<1>2. /\ BackSound(back) /\ d \in Nat /\ back.base \in [Vendor -> Int] /\ back.fee \in [Vendor -> Int]
      /\ released \in BOOLEAN
      /\ DeliverySound(ledger, d) /\ ShopsSound(ledger, back.base, back.fee, released)
      /\ ledger \in Ledger /\ ledger.books[Payable] \in Nat
  BY BackIs DEF IInv, Books, DeliverySound
<1>3. GiveSound(give) /\ give.delivery = 0 /\ ~Emptied
  BY <1>2, PartGiveIs
<1>4. BackSound(after) /\ fee \in [Vendor -> Int] /\ GiveTyped(give)
  BY <1>2, <1>3, GivenIs
<1>5. after.delivery = d + give.delivery /\ \A v \in Vendor : after.base[v] = back.base[v] + give.base[v]
  BY DEF Given
<1>6. over => Emptied' /\ ~released
  <2> SUFFICES ASSUME over PROVE Emptied' /\ ~released
    OBVIOUS
  <2>1. \A v \in Vendor : give.base[v] = Room[v] /\ Room[v] = Base - back.base[v] /\ back.base[v] \in Int
    <3>1. \A v \in Vendor : give.base[v] >= Room[v]
      OBVIOUS
    <3>2. \A v \in Vendor : give.base[v] <= Room[v] /\ give.base[v] \in Nat /\ Room[v] \in Int
                            /\ Room[v] = Base - back.base[v] /\ back.base[v] \in Int
      BY <1>2, <1>3, BackIs, RoomIs DEF GiveSound
    <3> HIDE DEF give
    <3> QED BY <3>1, <3>2
  <2>2. \A v \in Vendor : after.base[v] = Base
    <3> HIDE DEF give, after
    <3> QED BY <1>5, <2>1, TheAmounts
  <2>3. Emptied'
    <3> HIDE DEF after
    <3> QED BY <1>1, <2>2 DEF Emptied
  <2> QED BY <2>3
<1> HIDE DEF give, fee, after, over
<1>7. /\ posted \in Ledger /\ posted.taken = ledger.taken /\ posted.earner = ledger.earner
      /\ posted.waiver = ledger.waiver
      /\ posted.books[Payable] = ledger.books[Payable] - (IF released THEN 0 ELSE give.delivery)
      /\ posted.books[RedoPayable] = ledger.books[RedoPayable]
  BY <1>2, <1>4, RefundPostedIs
<1> HIDE DEF posted
<1>8. posted.books[Payable] = ledger.books[Payable] /\ posted.books[Payable] >= 0
  BY <1>2, <1>3, <1>7
<1>9. DeliverySound(posted, after.delivery) /\ ShopsSound(posted, after.base, after.fee, released)
  <2>1. DeliverySound(posted, d + give.delivery)
    BY <1>2, <1>3, <1>4, <1>8, RefundKeepsDelivery DEF posted
  <2>2. ShopsSound(posted, after.base, after.fee, released)
    BY <1>2, <1>4, RefundKeepsShops DEF posted, after
  <2> QED BY <1>5, <2>1, <2>2
<1>10. /\ after.delivery \in Nat /\ after.base \in [Vendor -> Int] /\ after.fee \in [Vendor -> Int]
  BY <1>4, TheAmounts DEF BackSound, Refunds
<1>11. /\ DeliverySound(ledger', after.delivery) /\ ShopsSound(ledger', after.base, after.fee, released)
       /\ ledger'.taken = ledger.taken /\ ledger'.earner = ledger.earner
       /\ ledger'.books[Payable] = ledger.books[Payable]
       /\ ledger'.books[RedoPayable] = ledger.books[RedoPayable]
  <2>1. CASE ~over
    BY <1>1, <1>7, <1>8, <1>9, <2>1
  <2>2. CASE over
    <3>1. DeliverySound(PromoReturned(posted), after.delivery)
      BY <1>9, <1>10, ReturnedKeepsDelivery
    <3>2. ShopsSound(PromoReturned(posted), after.base, after.fee, released)
      BY <1>2, <1>7, <1>9, <1>10, ReturnedKeepsShops
    <3> QED BY <1>1, <1>7, <1>8, <2>2, <3>1, <3>2, ReturnedIs
  <2> QED BY <2>1, <2>2
<1>12. RedoFeeHeld'
  BY <1>1, <1>11 DEF IInv, Books, RedoFeeHeld
<1>13. Books'
  BY <1>1, <1>4, <1>11, <1>12 DEF Books
<1>14. ledger'.waiver = ledger.waiver \/ (Emptied' /\ ~released)
  BY <1>1, <1>6, <1>7
<1>15. Orderly(j)
  <2>1. JobTypeOK /\ StageInv
    BY DEF IInv, JobSound
  <2>2. released => ledger'.books[Payable] = 0
    BY <1>11, <2>1 DEF StageInv
  <2>3. ~refunded' => back'.delivery = 0
    BY <1>1, <1>2, <1>3, <1>5, <2>1 DEF StageInv, d
  <2> QED BY <1>1, <1>11, <1>13, <2>1, <2>2, <2>3 DEF Orderly, JobTypeOK
<1> QED BY <1>1, <1>3, <1>11, <1>14, <1>15

-----------------------------------------------------------------------------
(* The invariant, step by step.                                            *)

\* The lines of the payment, account by account.
LEMMA PaymentLinesAre ==
  /\ PaymentLines \in [Account -> Int]
  /\ \A a \in Pending : PaymentLines[a] = Base
  /\ PaymentLines[Payable] = DeliveryFee /\ PaymentLines[Clearing] = -Paid /\ PaymentLines[Promo] = -Discount
  /\ \A a \in Available \cup RiderBalance \cup {FeeIncome, DeliveryIncome, RedoPayable, Wallet, ProviderFees} :
       PaymentLines[a] = 0 /\ a \in Account
<1> DEFINE lines == PaymentLines
<1>1. lines = [a \in Account |->
     CASE a \in Pending -> Base
       [] a = Clearing  -> -Paid
       [] a = Promo     -> -Discount
       [] a = Payable   -> DeliveryFee
       [] OTHER         -> 0]
  BY DEF PaymentLines
<1> HIDE DEF lines
<1>2. \A a \in Pending : lines[a] = Base
  BY <1>1, TheAccounts DEF Account, Kinds
<1>3. lines[Payable] = DeliveryFee /\ lines[Clearing] = -Paid /\ lines[Promo] = -Discount
  BY <1>1, TheAccounts, TheyDiffer DEF Kinds
<1>4. \A a \in Available \cup RiderBalance \cup {FeeIncome, DeliveryIncome, RedoPayable, Wallet, ProviderFees} :
         lines[a] = 0 /\ a \in Account
  <2> TAKE a \in Available \cup RiderBalance \cup {FeeIncome, DeliveryIncome, RedoPayable, Wallet, ProviderFees}
  <2>1. a \in Account
    BY DEF Account
  <2>2. a \notin Pending
    <3>1. CASE a \in Available \cup RiderBalance
      BY <3>1 DEF Available, RiderBalance, Pending
    <3>2. CASE a \notin Available \cup RiderBalance
      BY <3>2, TheAccounts DEF Kinds
    <3> QED BY <3>1, <3>2
  <2>3. a # Clearing /\ a # Promo /\ a # Payable
    BY TheAccounts, TheyDiffer DEF Kinds
  <2> QED BY <1>1, <2>1, <2>2, <2>3
<1>5. lines \in [Account -> Int]
  <2>1. \A a \in Account : lines[a] \in Int
    BY <1>2, <1>3, <1>4, TheAmounts, PaidIs DEF Account
  <2> QED BY <1>1, <2>1
<1> QED BY <1>2, <1>3, <1>4, <1>5 DEF lines

\* A paid order is in order.
LEMMA Begins == Init => IInv
<1> SUFFICES ASSUME Init PROVE IInv
  OBVIOUS
<1> DEFINE zero == [a \in Account |-> 0]
           l0 == [books |-> zero, taken |-> 0, earner |-> "none", waiver |-> IF Waived > 0 THEN "owed" ELSE "none"]
           none == [v \in Vendor |-> 0]
<1>1. /\ ledger = Post(l0, PaymentLines) /\ released = FALSE
      /\ back = [base |-> none, fee |-> none, customer |-> 0, delivery |-> 0, subsidy |-> 0, processing |-> 0]
      /\ JobInit
  BY DEF Init
<1>2. JobSound
  <2>1. 0 \in 0..MaxTrips /\ 0 \in 0..Vendors
    BY JobAssumption
  <2>2. 0 \in {All} \cup 0..Paid
    BY PaidIs
  <2>3. JobTypeOK
    BY <1>1, <2>1 DEF JobInit, JobTypeOK, NoJob
  <2>4. CaseTypeOK /\ Riding
    BY <1>1, <2>1, <2>2 DEF JobInit, CaseTypeOK, Riding, NoJob, NoCase
  <2> QED BY <2>3, <2>4 DEF JobSound
<1>3. SumFunction(none) = 0
  <2>1. \A v \in Vendor : none[v] = 0
    OBVIOUS
  <2>2. DOMAIN none = Vendor
    OBVIOUS
  <2> HIDE DEF none
  <2> QED BY <2>1, <2>2, VendorFinite, SumZero DEF SumFunction
<1>4. /\ back.base = none /\ back.fee = none /\ back.customer = 0 /\ back.delivery = 0 /\ back.subsidy = 0
      /\ back.processing = 0
  BY <1>1
<1>5. BackSound(back)
  <2>1. back \in Refunds
    BY <1>1, TheAmounts, PaidIs DEF Refunds
  <2>2. \A v \in Vendor : FeeShare(Fee, Base, 0) = 0
    BY TheAmounts, ShareOfNothing
  <2>3. Paid - 0 >= DeliveryFee - 0
    BY PaidIs, TheAmounts DEF Items
  <2> QED BY <1>3, <1>4, <2>1, <2>2, <2>3 DEF BackSound
<1>6. l0 \in Ledger /\ \A a \in Account : l0.books[a] = 0
  BY DEF Ledger, Stages, Earners
<1> DEFINE lines == PaymentLines
<1>7. /\ lines \in [Account -> Int]
      /\ \A a \in Pending : lines[a] = Base
      /\ lines[Payable] = DeliveryFee
      /\ \A a \in Available \cup RiderBalance \cup {FeeIncome, DeliveryIncome, RedoPayable} :
           lines[a] = 0 /\ a \in Account
  BY PaymentLinesAre
<1> HIDE DEF lines, l0
<1>8. /\ ledger \in Ledger /\ ledger.taken = l0.taken /\ ledger.earner = l0.earner /\ ledger.waiver = l0.waiver
       /\ \A a \in Account : ledger.books[a] = l0.books[a] + lines[a]
  BY <1>1, <1>6, <1>7, PostIs DEF lines
<1>9. /\ l0.taken = 0 /\ l0.earner = "none" /\ l0.waiver = IF Waived > 0 THEN "owed" ELSE "none"
  BY DEF l0
<1>10. \A a \in Account : ledger.books[a] = lines[a]
  BY <1>6, <1>7, <1>8
<1>11. DeliverySound(ledger, 0)
  <2>1. ledger.books[Payable] = DeliveryFee /\ ledger.books[DeliveryIncome] = 0
    BY <1>7, <1>10, TheAccounts
  <2>2. \A r \in Rider : BalanceOf(ledger, r) = 0
    BY <1>7, <1>10, TheAccounts DEF BalanceOf
  <2>3. FeeTakenIn(ledger) = 0 /\ GivenBack(ledger) = 0
    BY <1>8, <1>9 DEF FeeTakenIn, GivenBack
  <2> QED BY <1>8, <1>9, <2>1, <2>2, <2>3, TheAmounts DEF DeliverySound
<1>12. ShopsSound(ledger, none, none, FALSE)
  <2>1. \A v \in Vendor : PendingOf(ledger, v) = Base /\ AvailableOf(ledger, v) = 0
    BY <1>7, <1>10, TheAccounts DEF PendingOf, AvailableOf
  <2>2. ledger.books[FeeIncome] = 0
    BY <1>7, <1>10, TheAccounts
  <2>3. \A v \in Vendor : Promised(ledger, v) = 0
    BY <1>8, <1>9 DEF Promised, Charged
  <2>4. \A v \in Vendor : Base - none[v] = Base
    BY TheAmounts
  <2> HIDE DEF none
  <2> QED BY <2>1, <2>2, <2>3, <2>4 DEF ShopsSound
<1>13. RedoFeeHeld
  BY <1>1, <1>7, <1>10 DEF RedoFeeHeld, JobInit
<1>14. Books
  BY <1>1, <1>4, <1>5, <1>11, <1>12, <1>13 DEF Books
<1>15. order = "paid" /\ refunded = FALSE /\ firstLeg = "none"
  BY <1>1 DEF JobInit
<1>16. StageInv
  <2>1. Untouched
    BY <1>8, <1>9, TheAmounts DEF Untouched, Owed
  <2> QED BY <1>1, <1>4, <1>15, <2>1 DEF StageInv
<1>17. DelivererIsPaid /\ FirstRiderIsPaid
  BY <1>1, <1>15 DEF DelivererIsPaid, FirstRiderIsPaid
<1> QED BY <1>1, <1>2, <1>14, <1>16, <1>17 DEF IInv

\* A step that moves no money but a second trip's.
LEMMA DeliveryKeeps ==
  ASSUME IInv, JobSound', order' = order, refunded' = refunded,
         Delivered(job) => job' = job,
         firstLeg' # firstLeg => ~refunded /\ ~Delivered(job),
         released' = released, back' = back,
         NEW n, RedoMoved(ledger, ledger', n), RedoFeeHeld'
  PROVE  IInv' /\ ledger'.earner = ledger.earner
<1>1. /\ ledger'.taken = ledger.taken /\ ledger'.earner = ledger.earner /\ ledger'.waiver = ledger.waiver
      /\ ledger'.books[Payable] = ledger.books[Payable]
  BY DEF RedoMoved
<1>2. Books'
  <2>1. BackSound(back) /\ back.delivery \in Int
    BY BackIs DEF IInv, Books
  <2>2. DeliverySound(ledger', back.delivery)
    BY <2>1, RedoKeepsDelivery DEF IInv, Books
  <2>3. ShopsSound(ledger', back.base, back.fee, released)
    BY RedoKeepsShops DEF IInv, Books
  <2> QED BY <2>1, <2>2, <2>3 DEF Books
<1>3. StageInv'
  <2>1. Finished' <=> Finished
    BY <1>1 DEF Finished, Emptied, PaidLeft, FeeHeld
  <2>2. Untouched' <=> Untouched
    BY <1>1 DEF Untouched, Owed
  <2>3. Emptied' <=> Emptied
    BY DEF Emptied
  <2>4. Delivered(job) => Delivered(job')
    OBVIOUS
  <2> QED BY <1>1, <2>1, <2>2, <2>3, <2>4 DEF IInv, StageInv
<1>4. DelivererIsPaid'
  <2> SUFFICES ASSUME released PROVE DelivererIsPaid'
    BY DEF DelivererIsPaid
  <2>1. job' = job /\ firstLeg' = firstLeg
    BY DEF IInv, StageInv
  <2>2. FeePayee(job, TRUE)' = FeePayee(job, TRUE)
    BY <2>1 DEF FeePayee, PickupMade, CollectedByRider
  <2> QED BY <1>1, <2>2 DEF IInv, DelivererIsPaid
<1>5. FirstRiderIsPaid'
  BY <1>1 DEF IInv, StageInv, FirstRiderIsPaid
<1>6. JobSound' /\ (released \in BOOLEAN)'
  BY DEF IInv
<1> QED BY <1>1, <1>2, <1>3, <1>4, <1>5, <1>6 DEF IInv

\* A step that moves no money.
LEMMA RedoStays == ledger \in Ledger => RedoMoved(ledger, ledger, 0)
BY TheAccounts DEF RedoMoved, Ledger, Account

\* Steps of the delivery alone.
LEMMA JobStepKeeps ==
  ASSUME IInv, JobStep, MoneyStays
  PROVE  IInv' /\ ledger'.earner = ledger.earner
<1>1. JobOnly
  BY JobStepIs DEF IInv
<1>2. ledger' = ledger /\ released' = released /\ back' = back
  BY DEF MoneyStays, money
<1>3. RedoMoved(ledger, ledger', 0)
  BY <1>2, RedoStays DEF IInv, Books, DeliverySound
<1>4. RedoFeeHeld'
  BY <1>1, <1>2 DEF IInv, Books, RedoFeeHeld, JobOnly
<1> QED BY <1>1, <1>2, <1>3, <1>4, DeliveryKeeps DEF JobOnly

\* A step that changes only the cases.
LEMMA CaseStepKeeps ==
  ASSUME IInv, CaseTypeOK', UNCHANGED <<order, refunded, assignment, redelivery, money>>
  PROVE  IInv' /\ ledger'.earner = ledger.earner
<1>1. /\ order' = order /\ refunded' = refunded /\ job' = job /\ moving' = moving /\ picked' = picked
      /\ redo' = redo /\ firstLeg' = firstLeg /\ trips' = trips
      /\ ledger' = ledger /\ released' = released /\ back' = back
  BY DEF assignment, redelivery, money
<1>2. JobSound'
  BY <1>1 DEF IInv, JobSound, JobTypeOK, Riding
<1>3. RedoMoved(ledger, ledger', 0)
  BY <1>1, RedoStays DEF IInv, Books, DeliverySound
<1>4. RedoFeeHeld'
  BY <1>1 DEF IInv, Books, RedoFeeHeld
<1> QED BY <1>1, <1>2, <1>3, <1>4, DeliveryKeeps

\* The trip ends, and an assigned second trip with it.
LEMMA TripEndKeeps ==
  ASSUME IInv, RedoEarned, RedoDone, job.status = "picked_up",
         NEW status \in {"delivered", "failed"}, NEW reason \in {"none", "away", "other", "all_skipped", "order_cancelled"},
         job' = [job EXCEPT !.status = status, !.reason = reason],
         moving' \in {"processing", "out", "delivered"}, CaseTypeOK',
         UNCHANGED <<order, refunded, picked, firstLeg, trips>>
  PROVE  IInv' /\ ledger'.earner = ledger.earner
<1>1. JobSound'
  <2>1. JobTypeOK'
    BY DEF IInv, JobSound, JobTypeOK, RedoDone
  <2>2. Riding'
    BY DEF IInv, JobSound, JobTypeOK, Riding
  <2> QED BY <2>1, <2>2 DEF JobSound
<1>2. ledger \in Ledger /\ ledger.books[RedoPayable] = (IF redo \in {"paid", "assigned"} THEN RedoFee ELSE 0) /\ RedoFee \in Nat
  BY TheAmounts DEF IInv, Books, DeliverySound, RedoFeeHeld
<1>3. released' = released /\ back' = back
  BY DEF RedoEarned
<1>4. ~Delivered(job)
  BY DEF Delivered
<1>5. CASE redo = "assigned"
  <2>1. RedoMoved(ledger, ledger', -RedoFee)
    BY <1>2, <1>5, RedoSettledOut DEF RedoEarned
  <2>2. RedoFeeHeld'
    BY <1>2, <1>5, <2>1 DEF RedoMoved, RedoFeeHeld, RedoDone
  <2> QED BY <1>1, <1>3, <1>4, <2>1, <2>2, DeliveryKeeps
<1>6. CASE redo # "assigned"
  <2>1. ledger' = ledger /\ redo' = redo
    BY <1>6 DEF RedoEarned, RedoDone
  <2>2. RedoMoved(ledger, ledger', 0)
    BY <1>2, <2>1, RedoStays
  <2>3. RedoFeeHeld'
    BY <1>2, <2>1 DEF RedoFeeHeld
  <2> QED BY <1>1, <1>3, <1>4, <2>2, <2>3, DeliveryKeeps
<1> QED BY <1>5, <1>6

\* A delivery made.
LEMMA DeliverKeeps ==
  ASSUME IInv, DeliverGoods
  PROVE  IInv' /\ ledger'.earner = ledger.earner
<1>1. job.reason \in {"none", "away", "other", "all_skipped", "order_cancelled"}
  BY DEF IInv, JobSound, JobTypeOK
<1>2. job' = [job EXCEPT !.status = "delivered", !.reason = job.reason]
  BY DEF DeliverGoods, Deliver, IInv, JobSound, JobTypeOK
<1>3. CaseTypeOK'
  BY DEF DeliverGoods, Deliver, IInv, JobSound, CaseTypeOK
<1> QED BY <1>1, <1>2, <1>3, TripEndKeeps DEF DeliverGoods, Deliver

\* A delivery failed.
LEMMA FailKeeps ==
  ASSUME IInv, FailDelivery
  PROVE  IInv' /\ ledger'.earner = ledger.earner
<1>1. PICK reason \in {"away", "other"} : CantDeliver(reason)
  BY DEF FailDelivery
<1>2. CaseTypeOK'
  <2>1. CASE UNCHANGED case
    BY <2>1 DEF IInv, JobSound, CaseTypeOK
  <2>2. CASE NewCase(0)
    BY <2>2, NewCaseType, TheAmounts DEF IInv, JobSound
  <2> QED BY <1>1, <2>1, <2>2 DEF CantDeliver, CaseOfFailure
<1>3. moving' \in {"processing", "out", "delivered"}
  BY <1>1 DEF CantDeliver, IInv, JobSound, JobTypeOK
<1> QED BY <1>1, <1>2, <1>3, TripEndKeeps DEF FailDelivery, CantDeliver

\* A second trip paid for.
LEMMA PaysKeeps ==
  ASSUME IInv, CustomerPaysRedo
  PROVE  IInv' /\ ledger'.earner = ledger.earner
<1>1. /\ order' = order /\ refunded' = refunded /\ job' = job /\ moving' = moving /\ picked' = picked
      /\ firstLeg' = firstLeg /\ trips' = trips /\ case' = case
      /\ redo = "waiting" /\ redo' = "paid"
      /\ released' = released /\ back' = back
      /\ ledger' = Transfer(ledger, Clearing, RedoPayable, RedoFee)
  BY DEF CustomerPaysRedo, PayRedo, assignment
<1>2. JobSound'
  BY <1>1 DEF IInv, JobSound, JobTypeOK, Riding, CaseTypeOK
<1>3. RedoMoved(ledger, ledger', RedoFee)
  BY <1>1, RedoPaidIn DEF IInv, Books, DeliverySound
<1>4. RedoFeeHeld'
  BY <1>1, <1>3, TheAmounts DEF IInv, Books, RedoFeeHeld, RedoMoved
<1> QED BY <1>1, <1>2, <1>3, <1>4, DeliveryKeeps

\* A second trip called off.
LEMMA CancelRedoKeeps ==
  ASSUME IInv, StaffCancelsRedo
  PROVE  IInv' /\ ledger'.earner = ledger.earner
<1>1. /\ order' = order /\ refunded' = refunded /\ job' = job /\ moving' = moving /\ picked' = picked
      /\ firstLeg' = firstLeg /\ trips' = trips /\ case' = case
      /\ redo \in {"waiting", "paid"} /\ redo' \in {"cancelled", "refunded"}
      /\ released' = released /\ back' = back
      /\ ledger' = IF redo = "paid" THEN RedoReturned(ledger) ELSE ledger
  BY DEF StaffCancelsRedo, CancelRedo, assignment
<1>2. JobSound'
  BY <1>1 DEF IInv, JobSound, JobTypeOK, Riding, CaseTypeOK
<1>3. ledger \in Ledger /\ ledger.books[RedoPayable] = (IF redo \in {"paid", "assigned"} THEN RedoFee ELSE 0) /\ RedoFee \in Nat
  BY TheAmounts DEF IInv, Books, DeliverySound, RedoFeeHeld
<1>4. CASE redo = "paid"
  <2>1. RedoMoved(ledger, ledger', -RedoFee)
    BY <1>1, <1>3, <1>4, RedoReturnedOut
  <2>2. RedoFeeHeld'
    BY <1>1, <1>3, <1>4, <2>1 DEF RedoFeeHeld, RedoMoved
  <2> QED BY <1>1, <1>2, <2>1, <2>2, DeliveryKeeps
<1>5. CASE redo = "waiting"
  <2>1. RedoMoved(ledger, ledger', 0)
    BY <1>1, <1>3, <1>5, RedoStays
  <2>2. RedoFeeHeld'
    BY <1>1, <1>3, <1>5 DEF RedoFeeHeld
  <2> QED BY <1>1, <1>2, <2>1, <2>2, DeliveryKeeps
<1> QED BY <1>1, <1>4, <1>5

OwnTrip ==
  ledger'.earner # ledger.earner =>
       /\ ledger.earner = "none"
       /\ firstLeg # "none" => ledger'.earner = firstLeg
       /\ \/ ledger'.earner \in {firstLeg, job.pickedBy}
          \/ \E v \in Vendor : job.stop[v] = ledger'.earner
          \/ Delivered(job)

\* What a refund pays a rider is for a pickup of that rider's, or the first rider's.
LEMMA PayeeIs ==
  ASSUME NEW j, FeePayee(j, FALSE) \in ThirdParty,
         PickupMade(j) => j.rider = job.rider /\ j.stop = job.stop /\ j.pickedBy = job.pickedBy
  PROVE  /\ firstLeg # "none" => FeePayee(j, FALSE) = firstLeg
         /\ \/ FeePayee(j, FALSE) \in {firstLeg, job.pickedBy}
            \/ \E v \in Vendor : job.stop[v] = FeePayee(j, FALSE)
<1>1. CASE firstLeg # "none"
  BY <1>1 DEF FeePayee
<1>2. CASE firstLeg = "none"
  <2>1. PickupMade(j) /\ FeePayee(j, FALSE) = j.rider
    BY <1>2, TheAmounts DEF FeePayee
  <2>2. CASE CollectedByRider(j)
    BY <1>2, <2>1, <2>2 DEF CollectedByRider
  <2>3. CASE j.pickedBy = j.rider
    BY <1>2, <2>1, <2>3
  <2> QED BY <2>1, <2>2, <2>3 DEF PickupMade
<1> QED BY <1>1, <1>2

\* The conditions on the riders' pay after a refund.
LEMMA PayAfterRefund ==
  ASSUME IInv, NEW j, Orderly(j), released' = released, firstLeg' = firstLeg,
         released => job' = job
  PROVE  DelivererIsPaid' /\ FirstRiderIsPaid'
<1>1. DelivererIsPaid'
  <2> SUFFICES ASSUME released PROVE DelivererIsPaid'
    BY DEF DelivererIsPaid
  <2>1. FeePayee(job, TRUE)' = FeePayee(job, TRUE)
    BY DEF FeePayee, PickupMade, CollectedByRider
  <2> QED BY <2>1 DEF IInv, DelivererIsPaid, Orderly
<1>2. FirstRiderIsPaid'
  <2>1. "none" \notin ThirdParty
    BY TheAmounts
  <2> QED BY <2>1 DEF IInv, FirstRiderIsPaid, Orderly
<1> QED BY <1>1, <1>2

\* A refund of any scope and amount, and the cancellation it may end in.
LEMMA RefundKeeps ==
  ASSUME IInv, NEW scope \in 0..Vendors, NEW amount \in Int, NEW charge \in BOOLEAN,
         Refund(scope, amount, charge), CaseTypeOK'
  PROVE  IInv' /\ OwnTrip
<1>1. /\ job' = job /\ moving' = moving /\ picked' = picked /\ firstLeg' = firstLeg /\ trips' = trips
      /\ released' = released
      /\ order' = IF refunded' /\ ~refunded /\ ~Delivered(job) THEN "cancelled" ELSE order
      /\ ledger'.books[Payable] >= 0
  BY DEF Refund, assignment, CancelIfNotHandedOver
<1>2. released => Delivered(job) /\ ledger.books[Payable] = 0
  BY DEF IInv, StageInv
<1>3. Start(ledger)
  BY DEF Start, IInv, Books
<1> DEFINE Whole == Orderly(job) /\ Finished'
           Part == /\ Orderly(job) /\ ~Emptied /\ refunded' = refunded
                   /\ ledger'.taken = ledger.taken /\ ledger'.earner = ledger.earner
                   /\ ledger'.books[Payable] = ledger.books[Payable]
                   /\ ledger'.waiver = ledger.waiver \/ (Emptied' /\ ~released)
<1>4. Whole \/ Part
  <2>1. CASE ~IsWhole(job, scope, amount)
    <3>1. PartAllowed(job, scope, amount) /\ RefundPart(job, ledger, scope, amount, charge)
      BY <2>1 DEF Refund
    <3> QED BY <1>1, <1>2, <3>1, RefundPartIs
  <2>2. CASE IsWhole(job, scope, amount) /\ NothingLeft(job, charge)
    <3>1. RefundNothing(job, ledger)
      BY <2>2 DEF Refund
    <3> QED BY <1>1, <1>2, <1>3, <2>2, <3>1, RefundNothingIs
  <2>3. CASE IsWhole(job, scope, amount) /\ ~NothingLeft(job, charge)
    <3>1. RefundWhole(job, ledger, charge)
      BY <2>3 DEF Refund
    <3> QED BY <1>1, <1>2, <1>3, <3>1, RefundWholeIs
  <2> QED BY <2>1, <2>2, <2>3
<1>5. Orderly(job)
  BY <1>4
<1>6. JobSound'
  BY <1>1, <1>5 DEF IInv, JobSound, JobTypeOK, Riding, Orderly
<1>7. DelivererIsPaid' /\ FirstRiderIsPaid'
  BY <1>1, <1>5, PayAfterRefund
<1>8. StageInv'
  <2>1. released' => Delivered(job') /\ order' = "paid" /\ ledger'.books[Payable] = 0
    BY <1>1, <1>2, <1>5 DEF IInv, StageInv, Orderly
  <2>2. refunded' /\ order' = "paid" => Delivered(job')
    BY <1>1 DEF IInv, StageInv, JobSound, JobTypeOK
  <2>3. ~refunded' => back'.delivery = 0
    BY <1>5 DEF Orderly
  <2>4. CASE Whole
    BY <2>1, <2>2, <2>3, <2>4 DEF StageInv, Finished
  <2>5. CASE Part
    <3>1. order' = order /\ refunded' = refunded
      BY <1>1, <2>5 DEF IInv, JobSound, JobTypeOK
    <3>2. ~(order = "cancelled" \/ refunded)
      BY <2>5 DEF IInv, StageInv, Finished
    <3>3. ASSUME order = "paid", ~released PROVE Untouched' \/ (Emptied' /\ ledger'.books[Payable] = 0)
      <4>1. ledger.taken = 0 /\ ledger.earner = "none" /\ Owed(ledger) = Waived
        BY <2>5, <3>3 DEF IInv, StageInv, Untouched
      <4>2. CASE ledger'.waiver = ledger.waiver
        BY <2>5, <4>1, <4>2 DEF Untouched, Owed
      <4>3. CASE Emptied' /\ DeliveryFee > 0
        <5>1. Waived = 0
          BY <4>3, TheAmounts
        <5> QED BY <2>5, <4>1, <5>1 DEF Untouched, Owed
      <4>4. CASE Emptied' /\ ~(DeliveryFee > 0)
        <5>1. back.delivery \in Nat /\ DeliveryFee = 0
          BY <4>4, BackIs, TheAmounts DEF IInv, Books
        <5>2. ledger.books[Payable] \in Nat /\ ledger.books[Payable] = 0 - back.delivery - 0
          BY <4>4, <5>1 DEF IInv, Books, DeliverySound, FeeTakenIn
        <5>3. ledger.books[Payable] = 0
          BY <5>1, <5>2
        <5> QED BY <2>5, <4>4, <5>3
      <4> QED BY <2>5, <4>2, <4>3, <4>4
    <3> QED BY <1>1, <2>1, <2>2, <2>3, <3>1, <3>2, <3>3 DEF StageInv
  <2> QED BY <1>4, <2>4, <2>5
<1>9. IInv'
  BY <1>1, <1>5, <1>6, <1>7, <1>8 DEF IInv, Orderly
<1>10. OwnTrip
  <2> SUFFICES ASSUME ledger'.earner # ledger.earner PROVE OwnTrip
    BY DEF OwnTrip
  <2>1. ledger.earner = "none" /\ ledger'.earner = FeePayee(job, FALSE) /\ ledger'.earner \in ThirdParty
    BY <1>5 DEF Orderly
  <2> QED BY <2>1, PayeeIs DEF OwnTrip
<1> QED BY <1>9, <1>10

\* Support's cancellation.
LEMMA SupportCancelKeeps ==
  ASSUME IInv, SupportCancel
  PROVE  IInv' /\ OwnTrip
<1> DEFINE j == JobWithdrawn
           l == Reversed(ledger)
<1>1. /\ order = "paid" /\ LooksUncollected /\ job' = j /\ order' = "cancelled"
      /\ IF NothingLeft(j, FALSE) THEN RefundNothing(j, l) ELSE RefundWhole(j, l, FALSE)
      /\ ledger'.books[Payable] >= 0
      /\ moving' = moving /\ picked' = picked /\ firstLeg' = firstLeg /\ trips' = trips /\ case' = case
      /\ released' = released
  BY DEF SupportCancel, Reversed
<1>2. ~Delivered(job) /\ ~released
  BY <1>1 DEF IInv, StageInv, LooksUncollected, Delivered
<1>3. Start(l)
  BY ReversedKeeps DEF Start, IInv, Books
<1>4. j = IF PickupMade(job) THEN [job EXCEPT !.status = "failed", !.reason = "order_cancelled"] ELSE NoJob
  BY DEF JobWithdrawn
<1>5. PickupMade(j) => j.rider = job.rider /\ j.stop = job.stop /\ j.pickedBy = job.pickedBy
  <2>1. ~PickupMade(NoJob)
    BY DEF PickupMade, NoJob
  <2> QED BY <1>4, <2>1 DEF IInv, JobSound, JobTypeOK
<1>6. /\ j \in [status : {"none", "assigned", "accepted", "picked_up", "delivered", "failed"},
              rider : Rider \cup {"none"},
              stop : [Vendor -> Rider \cup {"open", "skipped"}],
              pickedBy : Rider \cup {"none"},
              reason : {"none", "away", "other", "all_skipped", "order_cancelled"}]
      /\ j.status # "none" => j.rider \in Rider
  <2>1. job.status # "none" => job.rider \in Rider
    BY DEF IInv, JobSound, Riding
  <2>2. PickupMade(job) => job.status # "none"
    BY DEF PickupMade
  <2>3. NoJob.status = "none"
    BY DEF NoJob
  <2>4. CASE PickupMade(job)
    BY <1>4, <2>1, <2>2, <2>4 DEF IInv, JobSound, JobTypeOK
  <2>5. CASE ~PickupMade(job)
    BY <1>4, <2>3, <2>5 DEF NoJob
  <2> QED BY <2>4, <2>5
<1> HIDE DEF j, l
<1>7. Orderly(j) /\ Finished'
  <2>1. CASE NothingLeft(j, FALSE)
    <3>1. RefundNothing(j, l)
      BY <1>1, <2>1
    <3> QED BY <1>1, <1>2, <1>3, <2>1, <3>1, RefundNothingIs
  <2>2. CASE ~NothingLeft(j, FALSE)
    <3>1. RefundWhole(j, l, FALSE)
      BY <1>1, <2>2
    <3> QED BY <1>1, <1>2, <1>3, <3>1, RefundWholeIs
  <2> QED BY <2>1, <2>2
<1>8. JobSound'
  <2>1. JobTypeOK'
    BY <1>1, <1>6, <1>7 DEF IInv, JobSound, JobTypeOK, Orderly
  <2>2. CaseTypeOK' /\ Riding'
    BY <1>1, <1>6 DEF IInv, JobSound, CaseTypeOK, Riding
  <2> QED BY <2>1, <2>2 DEF JobSound
<1>9. DelivererIsPaid' /\ FirstRiderIsPaid'
  BY <1>1, <1>2, <1>7, PayAfterRefund
<1>10. StageInv'
  BY <1>1, <1>2, <1>7 DEF StageInv, Orderly
<1>11. IInv'
  BY <1>1, <1>7, <1>8, <1>9, <1>10 DEF IInv, Orderly
<1>12. OwnTrip
  <2> SUFFICES ASSUME ledger'.earner # ledger.earner PROVE OwnTrip
    BY DEF OwnTrip
  <2>1. ledger.earner = "none" /\ ledger'.earner = FeePayee(j, FALSE) /\ ledger'.earner \in ThirdParty
    BY <1>7 DEF Orderly
  <2> QED BY <1>5, <2>1, PayeeIs DEF OwnTrip
<1> QED BY <1>11, <1>12

\* A release.
LEMMA ReleaseStepKeeps ==
  ASSUME IInv, Release
  PROVE  IInv' /\ OwnTrip
<1> DEFINE m == Post(ledger, ReleaseLines)
           payee == FeePayee(job, TRUE)
           d == back.delivery
<1>1. /\ order = "paid" /\ Delivered(job) /\ ~released
      /\ SumFunction(Room) > 0 \/ ledger.books[Payable] > 0
      /\ ledger' = DeliverySettled(m, payee) /\ released' = TRUE
      /\ job' = job /\ firstLeg' = firstLeg /\ order' = order /\ refunded' = refunded /\ back' = back
      /\ redo' = redo /\ UNCHANGED jobVars
  BY DEF Release, Verifiable, jobVars, assignment, redelivery
<1>2. BackSound(back) /\ d \in Nat /\ back.base \in [Vendor -> Int] /\ back.fee \in [Vendor -> Int]
      /\ DeliverySound(ledger, d) /\ ShopsSound(ledger, back.base, back.fee, FALSE)
      /\ ledger.books[Payable] \in Nat /\ BackTyped
  BY <1>1, BackIs DEF IInv, Books, DeliverySound
<1>3. /\ DeliverySound(m, d) /\ ShopsSound(m, back.base, back.fee, TRUE)
      /\ m.taken = ledger.taken /\ m.earner = ledger.earner /\ m.waiver = ledger.waiver
      /\ m.books[Payable] = ledger.books[Payable] /\ m.books[RedoPayable] = ledger.books[RedoPayable]
  <2>1. d \in Int
    BY <1>2
  <2> HIDE DEF d
  <2> QED BY <1>2, <2>1, ReleaseKeeps
<1> HIDE DEF m, payee
<1>4. m \in Ledger
  BY <1>3 DEF DeliverySound
<1>5. /\ DeliverySound(ledger', d) /\ ledger'.books[Payable] = 0
      /\ ledger'.books[RedoPayable] = ledger.books[RedoPayable]
  BY <1>1, <1>2, <1>3, SettledKeepsDelivery
<1>6. ShopsSound(ledger', back.base, back.fee, TRUE)
  BY <1>1, <1>2, <1>3, <1>4, SettledKeepsShops
<1>7. Books'
  <2>1. RedoFeeHeld'
    BY <1>1, <1>5 DEF IInv, Books, RedoFeeHeld
  <2> QED BY <1>1, <1>2, <1>5, <1>6, <2>1 DEF Books, d
<1>8. /\ ledger'.taken = Takings(m)
      /\ ledger'.earner = IF Credit(m, payee) > 0 THEN payee ELSE m.earner
  BY <1>1, <1>4, SettledIs
<1>9. ~(Emptied /\ ledger.books[Payable] = 0)
  <2> SUFFICES ASSUME Emptied, ledger.books[Payable] = 0 PROVE FALSE
    OBVIOUS
  <2>1. SumFunction(Room) = 0
    BY <1>2, RoomAllGone DEF Emptied
  <2> QED BY <1>1, <2>1
<1>10. ~refunded /\ Untouched
  BY <1>1, <1>9 DEF IInv, StageInv, Finished
<1>11. Takings(m) = DeliveryFee + Waived
  <2>1. d = 0
    BY <1>10 DEF IInv, StageInv, d
  <2>2. ledger.books[Payable] = DeliveryFee - 0 - 0
    <3>1. FeeTakenIn(ledger) = 0
      BY <1>10 DEF Untouched, FeeTakenIn
    <3> QED BY <1>2, <2>1, <3>1 DEF DeliverySound
  <2>3. Owed(m) = Waived
    BY <1>3, <1>10 DEF Untouched, Owed
  <2> QED BY <1>3, <1>10, <2>2, <2>3, TheAmounts DEF Takings, Untouched
<1>12. payee \in ThirdParty /\ DeliveryFee + Waived > 0 => ledger'.earner = payee
  <2>1. m.earner = "none"
    BY <1>3, <1>10 DEF Untouched
  <2> QED BY <1>8, <1>11, <2>1 DEF Credit
<1>13. DelivererIsPaid'
  <2>1. FeePayee(job, TRUE)' = payee
    BY <1>1 DEF payee, FeePayee, PickupMade, CollectedByRider
  <2> QED BY <1>8, <1>11, <1>12, <2>1 DEF DelivererIsPaid
<1>14. FirstRiderIsPaid'
  <2>1. firstLeg \in ThirdParty /\ DeliveryFee > 0 => payee = firstLeg /\ DeliveryFee + Waived > 0 /\ firstLeg # "none"
    BY TheAmounts DEF payee, FeePayee
  <2> QED BY <1>1, <1>12, <2>1 DEF FirstRiderIsPaid
<1>15. JobSound'
  BY <1>1 DEF IInv, JobSound, JobTypeOK, CaseTypeOK, Riding, jobVars, assignment, redelivery
<1>16. StageInv'
  BY <1>1, <1>5, <1>10 DEF IInv, StageInv
<1>17. OwnTrip
  <2> SUFFICES ASSUME ledger'.earner # ledger.earner PROVE OwnTrip
    BY DEF OwnTrip
  <2>1. ledger.earner = "none" /\ ledger'.earner = payee
    BY <1>3, <1>8, <1>10 DEF Untouched
  <2>2. firstLeg # "none" => payee = firstLeg
    BY DEF payee, FeePayee
  <2> QED BY <1>1, <2>1, <2>2 DEF OwnTrip
<1> QED BY <1>1, <1>7, <1>13, <1>14, <1>15, <1>16, <1>17 DEF IInv

-----------------------------------------------------------------------------
(* Every account's lines together: nothing is made or lost.                *)

Total(l) == SumFunction(l.books)
Singles == {Clearing, Wallet, Promo, FeeIncome, DeliveryIncome, ProviderFees, Payable, RedoPayable}

\* The ledger has finitely many accounts.
LEMMA AccountFinite == IsFiniteSet(Account) /\ IsFiniteSet(Pending) /\ IsFiniteSet(Available)
<1>1. IsFiniteSet(Rider) /\ IsFiniteSet(Vendor)
  BY JobAssumption, VendorFinite
<1>2. IsFiniteSet({"vendor_pending"}) /\ IsFiniteSet({"vendor_available"}) /\ IsFiniteSet({"rider_balance"})
  BY FS_Singleton
<1>3. IsFiniteSet(Pending)
  BY <1>1, <1>2, FS_Product DEF Pending
<1>4. IsFiniteSet(Available)
  BY <1>1, <1>2, FS_Product DEF Available
<1>5. IsFiniteSet(RiderBalance)
  BY <1>1, <1>2, FS_Product DEF RiderBalance
<1>6. IsFiniteSet(Singles)
  <2>1. /\ IsFiniteSet({Clearing}) /\ IsFiniteSet({Wallet}) /\ IsFiniteSet({Promo}) /\ IsFiniteSet({FeeIncome})
        /\ IsFiniteSet({DeliveryIncome}) /\ IsFiniteSet({ProviderFees}) /\ IsFiniteSet({Payable}) /\ IsFiniteSet({RedoPayable})
    BY FS_Singleton
  <2>2. IsFiniteSet({Clearing} \cup {Wallet}) /\ IsFiniteSet({Promo} \cup {FeeIncome})
        /\ IsFiniteSet({DeliveryIncome} \cup {ProviderFees}) /\ IsFiniteSet({Payable} \cup {RedoPayable})
    BY <2>1, FS_Union
  <2>3. IsFiniteSet(({Clearing} \cup {Wallet}) \cup ({Promo} \cup {FeeIncome}))
        /\ IsFiniteSet(({DeliveryIncome} \cup {ProviderFees}) \cup ({Payable} \cup {RedoPayable}))
    BY <2>2, FS_Union
  <2>4. IsFiniteSet((({Clearing} \cup {Wallet}) \cup ({Promo} \cup {FeeIncome}))
                    \cup (({DeliveryIncome} \cup {ProviderFees}) \cup ({Payable} \cup {RedoPayable})))
    BY <2>3, FS_Union
  <2>5. Singles = (({Clearing} \cup {Wallet}) \cup ({Promo} \cup {FeeIncome}))
                    \cup (({DeliveryIncome} \cup {ProviderFees}) \cup ({Payable} \cup {RedoPayable}))
    BY DEF Singles
  <2> QED BY <2>4, <2>5
<1>7. IsFiniteSet(Pending \cup Available)
  BY <1>3, <1>4, FS_Union
<1>8. IsFiniteSet((Pending \cup Available) \cup RiderBalance)
  BY <1>5, <1>7, FS_Union
<1>9. IsFiniteSet(((Pending \cup Available) \cup RiderBalance) \cup Singles)
  BY <1>6, <1>8, FS_Union
<1>10. Account = ((Pending \cup Available) \cup RiderBalance) \cup Singles
  BY DEF Account, Singles
<1> QED BY <1>3, <1>4, <1>9, <1>10

\* The accounts of one kind, and one of them.
OfKind(kind, owners) == {kind} \X owners
Of(kind, v) == <<kind, v>>

\* The accounts of one kind, summed over their owners.
LEMMA SumOfKind ==
  ASSUME NEW f, NEW g, NEW kind, \A v \in Vendor : f[Of(kind, v)] \in Int /\ f[Of(kind, v)] = g[v]
  PROVE  SumFunctionOnSet(f, OfKind(kind, Vendor)) = SumFunctionOnSet(g, Vendor)
<1> DEFINE U == {T \in SUBSET Vendor : SumFunctionOnSet(f, OfKind(kind, T)) = SumFunctionOnSet(g, T)}
<1>1. {} \in U
  <2>1. OfKind(kind, {}) = {}
    BY DEF OfKind
  <2> QED BY <2>1, SumEmpty
<1>2. \A T \in SUBSET Vendor : \A x \in Vendor \ T : T \in U => T \cup {x} \in U
  <2> SUFFICES ASSUME NEW T \in SUBSET Vendor, NEW x \in Vendor \ T, T \in U PROVE T \cup {x} \in U
    OBVIOUS
  <2> DEFINE S == OfKind(kind, T)
             a == Of(kind, x)
  <2>1. IsFiniteSet(T)
    BY VendorFinite, FS_Subset
  <2>2. IsFiniteSet({kind})
    BY FS_Singleton
  <2>3. IsFiniteSet(S)
    BY <2>1, <2>2, FS_Product DEF OfKind
  <2>4. OfKind(kind, T \cup {x}) = S \cup {a} /\ a \notin S
    BY DEF OfKind, Of
  <2>5. \A y \in S \cup {a} : f[y] \in Int
    <3>1. \A y \in S \cup {a} : \E v \in Vendor : y = Of(kind, v)
      BY DEF OfKind, Of
    <3> QED BY <3>1
  <2>6. \A y \in T \cup {x} : g[y] \in Int
    OBVIOUS
  <2>7. f[a] = g[x] /\ f[a] \in Int
    OBVIOUS
  <2>8. SumFunctionOnSet(f, S) = SumFunctionOnSet(g, T)
    OBVIOUS
  <2> HIDE DEF S, a, U
  <2>9. SumFunctionOnSet(f, S \cup {a}) = f[a] + SumFunctionOnSet(f, S)
    BY <2>3, <2>4, <2>5, SumAdd
  <2>10. SumFunctionOnSet(g, T \cup {x}) = g[x] + SumFunctionOnSet(g, T)
    BY <2>1, <2>6, SumAdd
  <2>11. SumFunctionOnSet(f, OfKind(kind, T \cup {x})) = SumFunctionOnSet(g, T \cup {x})
    BY <2>4, <2>7, <2>8, <2>9, <2>10
  <2> QED BY <2>11 DEF U
<1> HIDE DEF U
<1>3. Vendor \in U
  BY <1>1, <1>2, VendorFinite, SubsetInduction
<1> QED BY <1>3 DEF U

\* A journal whose lines make up zero keeps the total.
LEMMA PostTotal ==
  ASSUME NEW l \in Ledger, NEW lines \in [Account -> Int], SumFunction(lines) = 0
  PROVE  Total(Post(l, lines)) = Total(l)
<1> DEFINE m == Post(l, lines)
           b == l.books
           c == m.books
<1>1. /\ m \in Ledger /\ \A a \in Account : m.books[a] = l.books[a] + lines[a]
  BY PostIs
<1> HIDE DEF m
<1>2. \A x \in Account : b[x] \in Int /\ lines[x] \in Int /\ c[x] = b[x] + lines[x]
  BY <1>1 DEF Ledger
<1>3. DOMAIN b = Account /\ DOMAIN c = Account /\ DOMAIN lines = Account
  BY <1>1 DEF Ledger
<1> HIDE DEF b, c
<1>4. SumFunctionOnSet(c, Account) = SumFunctionOnSet(b, Account) + SumFunctionOnSet(lines, Account)
  BY <1>2, AccountFinite, SumPlus
<1>5. SumFunctionOnSet(b, Account) \in Int
  BY <1>2, AccountFinite, SumRemoved
<1> QED BY <1>3, <1>4, <1>5 DEF SumFunction, Total, b, c, m

\* A transfer does.
LEMMA TransferTotal ==
  ASSUME NEW l \in Ledger, NEW from \in Account, NEW to \in Account, from # to, NEW n \in Int
  PROVE  Total(Transfer(l, from, to, n)) = Total(l)
<1> DEFINE lines == TransferLines(from, to, n)
<1>1. lines \in [Account -> Int] /\ \A a \in Account : lines[a] = IF a = from THEN -n ELSE IF a = to THEN n ELSE 0
  BY DEF TransferLines
<1>2. Transfer(l, from, to, n) = Post(l, lines)
  BY DEF Transfer
<1> HIDE DEF lines
<1>3. SumFunctionOnSet(lines, Account) = SumFunctionOnSet(lines, {from} \cup {to})
  <2>1. (\A x \in {from} \cup {to} : lines[x] \in Int) /\ (\A x \in Account \ ({from} \cup {to}) : lines[x] = 0)
    BY <1>1
  <2>2. {from} \cup {to} \in SUBSET Account
    OBVIOUS
  <2> QED BY <2>1, <2>2, AccountFinite, SumWhere
<1>4. SumFunctionOnSet(lines, {from} \cup {to}) = lines[to] + SumFunctionOnSet(lines, {from})
  <2>1. IsFiniteSet({from}) /\ to \notin {from} /\ \A x \in {from} \cup {to} : lines[x] \in Int
    BY <1>1, FS_Singleton
  <2> QED BY <2>1, SumAdd
<1>5. SumFunctionOnSet(lines, {from}) = lines[from]
  BY <1>1, SumOne
<1>6. lines[to] + lines[from] = 0
  BY <1>1
<1>7. SumFunction(lines) = 0
  BY <1>1, <1>3, <1>4, <1>5, <1>6 DEF SumFunction
<1> QED BY <1>1, <1>2, <1>7, PostTotal

\* Lines that touch no rider balance.
LEMMA LinesTotal ==
  ASSUME NEW f \in [Account -> Int], \A a \in RiderBalance : f[a] = 0,
         NEW p \in [Vendor -> Int], NEW q \in [Vendor -> Int],
         \A a \in Pending : f[a] = p[a[2]], \A a \in Available : f[a] = q[a[2]]
  PROVE  SumFunction(f) = SumFunctionOnSet(p, Vendor) + SumFunctionOnSet(q, Vendor)
           + (f[Clearing] + f[Wallet] + f[Promo] + f[FeeIncome] + f[DeliveryIncome] + f[ProviderFees]
              + f[Payable] + f[RedoPayable])
<1> DEFINE shops == Pending \cup Available
           s1 == shops \cup {Clearing}
           s2 == s1 \cup {Wallet}
           s3 == s2 \cup {Promo}
           s4 == s3 \cup {FeeIncome}
           s5 == s4 \cup {DeliveryIncome}
           s6 == s5 \cup {ProviderFees}
           s7 == s6 \cup {Payable}
           s8 == s7 \cup {RedoPayable}
<1>1. /\ Clearing \notin shops /\ Wallet \notin s1 /\ Promo \notin s2 /\ FeeIncome \notin s3
      /\ DeliveryIncome \notin s4 /\ ProviderFees \notin s5 /\ Payable \notin s6 /\ RedoPayable \notin s7
  BY TheAccounts, TheyDiffer DEF Kinds
<1>2. s8 \subseteq Account /\ Account \ s8 \subseteq RiderBalance
  BY DEF Account
<1>3. s1 \subseteq s8 /\ s2 \subseteq s8 /\ s3 \subseteq s8 /\ s4 \subseteq s8 /\ s5 \subseteq s8 /\ s6 \subseteq s8 /\ s7 \subseteq s8
      /\ shops \subseteq s8
  OBVIOUS
<1> HIDE DEF shops
<1>4. /\ IsFiniteSet(shops) /\ IsFiniteSet(s1) /\ IsFiniteSet(s2) /\ IsFiniteSet(s3) /\ IsFiniteSet(s4)
      /\ IsFiniteSet(s5) /\ IsFiniteSet(s6) /\ IsFiniteSet(s7) /\ IsFiniteSet(s8)
  <2> HIDE DEF s1, s2, s3, s4, s5, s6, s7, s8
  <2>1. \A s \in SUBSET Account : IsFiniteSet(s)
    BY AccountFinite, FS_Subset
  <2> QED BY <1>2, <1>3, <2>1
<1>5. \A x \in s8 : f[x] \in Int
  BY <1>2
<1>6. SumFunctionOnSet(f, s1) = f[Clearing] + SumFunctionOnSet(f, shops)
  <2> HIDE DEF s2, s3, s4, s5, s6, s7, s8
  <2> QED BY <1>1, <1>3, <1>4, <1>5, SumAdd
<1>7. SumFunctionOnSet(f, s2) = f[Wallet] + SumFunctionOnSet(f, s1)
  <2> HIDE DEF s1, s3, s4, s5, s6, s7, s8
  <2> QED BY <1>1, <1>3, <1>4, <1>5, SumAdd
<1>8. SumFunctionOnSet(f, s3) = f[Promo] + SumFunctionOnSet(f, s2)
  <2> HIDE DEF s1, s2, s4, s5, s6, s7, s8
  <2> QED BY <1>1, <1>3, <1>4, <1>5, SumAdd
<1>9. SumFunctionOnSet(f, s4) = f[FeeIncome] + SumFunctionOnSet(f, s3)
  <2> HIDE DEF s1, s2, s3, s5, s6, s7, s8
  <2> QED BY <1>1, <1>3, <1>4, <1>5, SumAdd
<1>10. SumFunctionOnSet(f, s5) = f[DeliveryIncome] + SumFunctionOnSet(f, s4)
  <2> HIDE DEF s1, s2, s3, s4, s6, s7, s8
  <2> QED BY <1>1, <1>3, <1>4, <1>5, SumAdd
<1>11. SumFunctionOnSet(f, s6) = f[ProviderFees] + SumFunctionOnSet(f, s5)
  <2> HIDE DEF s1, s2, s3, s4, s5, s7, s8
  <2> QED BY <1>1, <1>3, <1>4, <1>5, SumAdd
<1>12. SumFunctionOnSet(f, s7) = f[Payable] + SumFunctionOnSet(f, s6)
  <2> HIDE DEF s1, s2, s3, s4, s5, s6, s8
  <2> QED BY <1>1, <1>3, <1>4, <1>5, SumAdd
<1>13. SumFunctionOnSet(f, s8) = f[RedoPayable] + SumFunctionOnSet(f, s7)
  <2> HIDE DEF s1, s2, s3, s4, s5, s6, s7
  <2>1. \A x \in s7 \cup {RedoPayable} : f[x] \in Int
    BY <1>5
  <2> QED BY <1>1, <1>4, <2>1, SumAdd
<1>14. SumFunctionOnSet(f, Account) = SumFunctionOnSet(f, s8)
  <2>1. \A x \in Account \ s8 : f[x] = 0
    BY <1>2
  <2> HIDE DEF s8
  <2> QED BY <1>2, <1>5, <2>1, AccountFinite, SumWhere
<1> HIDE DEF s1, s2, s3, s4, s5, s6, s7, s8
<1>15. SumFunctionOnSet(f, shops) = SumFunctionOnSet(f, Pending) + SumFunctionOnSet(f, Available)
  <2>1. Pending \cap Available = {}
    BY DEF Pending, Available
  <2>2. \A x \in Pending \cup Available : f[x] \in Int
    BY <1>3, <1>5 DEF shops
  <2> QED BY <2>1, <2>2, AccountFinite, SumDisjoint DEF shops
<1>16. SumFunctionOnSet(f, Pending) = SumFunctionOnSet(p, Vendor)
  <2> DEFINE kind == "vendor_pending"
  <2>1. \A v \in Vendor : f[Of(kind, v)] \in Int /\ f[Of(kind, v)] = p[v]
    BY TheAccounts DEF Of
  <2>2. Pending = OfKind(kind, Vendor)
    BY DEF Pending, OfKind
  <2> HIDE DEF kind
  <2>3. SumFunctionOnSet(f, OfKind(kind, Vendor)) = SumFunctionOnSet(p, Vendor)
    BY <2>1, SumOfKind
  <2> QED BY <2>2, <2>3
<1>17. SumFunctionOnSet(f, Available) = SumFunctionOnSet(q, Vendor)
  <2> DEFINE kind == "vendor_available"
  <2>1. \A v \in Vendor : f[Of(kind, v)] \in Int /\ f[Of(kind, v)] = q[v]
    BY TheAccounts DEF Of
  <2>2. Available = OfKind(kind, Vendor)
    BY DEF Available, OfKind
  <2> HIDE DEF kind
  <2>3. SumFunctionOnSet(f, OfKind(kind, Vendor)) = SumFunctionOnSet(q, Vendor)
    BY <2>1, SumOfKind
  <2> QED BY <2>2, <2>3
<1>18. DOMAIN f = Account
  OBVIOUS
<1>19. /\ f[Clearing] \in Int /\ f[Wallet] \in Int /\ f[Promo] \in Int /\ f[FeeIncome] \in Int /\ f[DeliveryIncome] \in Int
       /\ f[ProviderFees] \in Int /\ f[Payable] \in Int /\ f[RedoPayable] \in Int
  BY TheAccounts
<1>20. SumFunctionOnSet(p, Vendor) \in Int /\ SumFunctionOnSet(q, Vendor) \in Int
  <2>1. (\A v \in Vendor : p[v] \in Int) /\ (\A v \in Vendor : q[v] \in Int)
    BY TheAccounts
  <2> QED BY <2>1, VendorFinite, SumRemoved
<1> QED BY <1>6, <1>7, <1>8, <1>9, <1>10, <1>11, <1>12, <1>13, <1>14, <1>15, <1>16, <1>17, <1>18,
           <1>19, <1>20 DEF SumFunction

-----------------------------------------------------------------------------
(* What each part of a step leaves the books at.                           *)

\* The fee taken.
LEMMA FeeTakenTotal ==
  ASSUME NEW l \in Ledger
  PROVE  Total(FeeTaken(l)) = Total(l)
<1> DEFINE held == l.books[Payable]
           m == Transfer(l, Payable, DeliveryIncome, held)
<1>1. held \in Int /\ Payable \in Account /\ DeliveryIncome \in Account /\ Payable # DeliveryIncome
  BY TheAccounts, TheyDiffer DEF Ledger
<1>2. FeeTaken(l) = [m EXCEPT !.taken = m.taken + held]
  BY DEF FeeTaken
<1> HIDE DEF held
<1>3. m \in Ledger /\ Total(m) = Total(l)
  BY <1>1, TransferIs, TransferTotal
<1> HIDE DEF m
<1>4. FeeTaken(l).books = m.books
  BY <1>2, <1>3 DEF Ledger
<1> QED BY <1>3, <1>4 DEF Total

\* The promo charged.
LEMMA PromoChargedTotal ==
  ASSUME NEW l \in Ledger
  PROVE  Total(PromoCharged(l)) = Total(l)
<1> DEFINE m == Transfer(l, Funder, DeliveryIncome, Waived)
<1>1. Waived \in Int /\ DeliveryIncome \in Account
  BY TheAmounts, TheAccounts
<1>2. PromoCharged(l) = IF l.waiver # "owed" THEN l
                        ELSE [m EXCEPT !.taken = m.taken + Waived, !.waiver = "charged"]
  BY DEF PromoCharged
<1>3. m \in Ledger /\ Total(m) = Total(l)
  BY <1>1, FunderIs, TransferIs, TransferTotal
<1> HIDE DEF m
<1>4. PromoCharged(l).books = IF l.waiver # "owed" THEN l.books ELSE m.books
  BY <1>2, <1>3 DEF Ledger
<1> QED BY <1>3, <1>4 DEF Total

\* The promo given back.
LEMMA PromoReturnedTotal ==
  ASSUME NEW l \in Ledger
  PROVE  Total(PromoReturned(l)) = Total(l)
<1> DEFINE m == Transfer(l, DeliveryIncome, Funder, Waived)
<1>1. Waived \in Int /\ DeliveryIncome \in Account
  BY TheAmounts, TheAccounts
<1>2. PromoReturned(l) = IF l.waiver = "owed" THEN [l EXCEPT !.waiver = "reversed"]
                         ELSE IF l.waiver = "charged" THEN [m EXCEPT !.waiver = "returned"] ELSE l
  BY DEF PromoReturned
<1>3. m \in Ledger /\ Total(m) = Total(l)
  BY <1>1, FunderIs, TransferIs, TransferTotal
<1> HIDE DEF m
<1>4. PromoReturned(l).books = IF l.waiver = "charged" THEN m.books ELSE l.books
  BY <1>2, <1>3 DEF Ledger
<1> QED BY <1>3, <1>4 DEF Total

\* The rider credited.
LEMMA RiderCreditedTotal ==
  ASSUME NEW l \in Ledger, NEW r
  PROVE  Total(RiderCredited(l, r)) = Total(l)
<1> DEFINE n == l.taken
           wallet == <<"rider_balance", r>>
           m == Transfer(l, DeliveryIncome, wallet, n)
<1>1. RiderCredited(l, r) = IF r \in ThirdParty /\ l.earner = "none" /\ l.taken > 0
                            THEN [m EXCEPT !.earner = r] ELSE l
  BY DEF RiderCredited
<1>2. CASE r \in ThirdParty
  <2>1. n \in Int /\ wallet \in Account /\ DeliveryIncome \in Account /\ DeliveryIncome # wallet
    BY <1>2, TheAmounts, TheAccounts DEF Ledger, Kinds
  <2> HIDE DEF n, wallet
  <2>2. m \in Ledger /\ Total(m) = Total(l)
    BY <2>1, TransferIs, TransferTotal
  <2> HIDE DEF m
  <2>3. [m EXCEPT !.earner = r].books = m.books
    BY <2>2 DEF Ledger
  <2> QED BY <1>1, <2>2, <2>3 DEF Total
<1>3. CASE r \notin ThirdParty
  BY <1>1, <1>3
<1> QED BY <1>2, <1>3

\* The delivery settled.
LEMMA SettledTotal ==
  ASSUME NEW l \in Ledger, NEW r
  PROVE  Total(DeliverySettled(l, r)) = Total(l)
<1>1. FeeTaken(l) \in Ledger /\ Total(FeeTaken(l)) = Total(l)
  BY FeeTakenIs, FeeTakenTotal
<1> DEFINE l1 == FeeTaken(l)
           l2 == PromoCharged(l1)
<1> HIDE DEF l1
<1>2. l2 \in Ledger /\ Total(l2) = Total(l)
  BY <1>1, PromoChargedIs, PromoChargedTotal DEF l1
<1> HIDE DEF l2
<1>3. Total(RiderCredited(l2, r)) = Total(l)
  BY <1>2, RiderCreditedTotal
<1> QED BY <1>3 DEF DeliverySettled, l1, l2

\* The second trip's fee, paid out.
LEMMA RedoSettledTotal ==
  ASSUME NEW l \in Ledger, NEW r
  PROVE  Total(RedoSettled(l, r)) = Total(l)
<1> DEFINE to == IF r \in ThirdParty THEN <<"rider_balance", r>> ELSE DeliveryIncome
<1>1. RedoFee \in Int /\ RedoPayable \in Account /\ to \in Account /\ RedoPayable # to
  BY TheAmounts, TheAccounts, TheyDiffer DEF Kinds
<1>2. RedoSettled(l, r) = Transfer(l, RedoPayable, to, RedoFee)
  BY DEF RedoSettled
<1> HIDE DEF to
<1> QED BY <1>1, <1>2, TransferTotal

\* Given back.
LEMMA RedoReturnedTotal ==
  ASSUME NEW l \in Ledger
  PROVE  Total(RedoReturned(l)) = Total(l)
<1>1. RedoFee \in Int /\ RedoPayable \in Account /\ Wallet \in Account /\ RedoPayable # Wallet
  BY TheAmounts, TheAccounts, TheyDiffer
<1> QED BY <1>1, TransferTotal DEF RedoReturned

\* Closed by a refund.
LEMMA RedoClosedTotal ==
  ASSUME NEW l \in Ledger, NEW j
  PROVE  Total(RedoClosedIn(l, j)) = Total(l)
<1>1. RedoClosedIn(l, j) \in {l, RedoSettled(l, j.rider), RedoReturned(l)}
  <2>1. CASE redo = "assigned" /\ RedoClosed(j) = "completed"
    BY <2>1 DEF RedoClosedIn
  <2>2. CASE redo \in {"paid", "assigned"} /\ RedoClosed(j) = "refunded"
    BY <2>2 DEF RedoClosedIn
  <2>3. CASE /\ ~(redo = "assigned" /\ RedoClosed(j) = "completed")
             /\ ~(redo \in {"paid", "assigned"} /\ RedoClosed(j) = "refunded")
    BY <2>3 DEF RedoClosedIn
  <2> QED BY <2>1, <2>2, <2>3
<1> QED BY <1>1, RedoSettledTotal, RedoReturnedTotal

-----------------------------------------------------------------------------
(* The lines of a journal make up zero.                                    *)

\* A sum over the vendors is a number.
LEMMA SumOfVendors ==
  ASSUME NEW f \in [Vendor -> Int]
  PROVE  SumFunction(f) = SumFunctionOnSet(f, Vendor) /\ SumFunctionOnSet(f, Vendor) \in Int
<1>1. \A v \in Vendor : f[v] \in Int
  OBVIOUS
<1>2. SumFunctionOnSet(f, Vendor) \in Int
  BY <1>1, VendorFinite, SumRemoved
<1> QED BY <1>2 DEF SumFunction

\* The sum of what is taken.
LEMMA SumNegated ==
  ASSUME NEW f, NEW g, \A v \in Vendor : f[v] \in Int /\ g[v] = -f[v]
  PROVE  SumFunctionOnSet(g, Vendor) = -SumFunctionOnSet(f, Vendor)
<1> DEFINE c == -1
<1>1. c \in Int /\ \A v \in Vendor : f[v] \in Int /\ g[v] = c * f[v]
  OBVIOUS
<1>2. SumFunctionOnSet(g, Vendor) = c * SumFunctionOnSet(f, Vendor)
  <2> HIDE DEF c
  <2> QED BY <1>1, VendorFinite, SumTimes
<1>3. SumFunctionOnSet(f, Vendor) \in Int
  BY VendorFinite, SumRemoved
<1> QED BY <1>2, <1>3

\* The sum of differences.
LEMMA SumOfDifference ==
  ASSUME NEW p, NEW q, NEW d,
         \A v \in Vendor : p[v] \in Int /\ q[v] \in Int /\ d[v] = p[v] - q[v]
  PROVE  SumFunctionOnSet(d, Vendor) = SumFunctionOnSet(p, Vendor) - SumFunctionOnSet(q, Vendor)
<1> DEFINE n == [v \in Vendor |-> -q[v]]
<1>1. \A v \in Vendor : q[v] \in Int /\ n[v] = -q[v]
  OBVIOUS
<1>2. \A v \in Vendor : p[v] \in Int /\ n[v] \in Int /\ d[v] = p[v] + n[v]
  OBVIOUS
<1> HIDE DEF n
<1>3. SumFunctionOnSet(n, Vendor) = -SumFunctionOnSet(q, Vendor)
  BY <1>1, SumNegated
<1>4. SumFunctionOnSet(d, Vendor) = SumFunctionOnSet(p, Vendor) + SumFunctionOnSet(n, Vendor)
  <2>1. IsFiniteSet(Vendor)
    BY VendorFinite
  <2> DEFINE S == Vendor
  <2>2. IsFiniteSet(S) /\ \A x \in S : p[x] \in Int /\ n[x] \in Int /\ d[x] = p[x] + n[x]
    BY <1>2, <2>1
  <2> HIDE DEF S
  <2>3. SumFunctionOnSet(d, S) = SumFunctionOnSet(p, S) + SumFunctionOnSet(n, S)
    BY ONLY <2>2, SumPlus
  <2> QED BY <2>3 DEF S
<1>5. SumFunctionOnSet(p, Vendor) \in Int /\ SumFunctionOnSet(q, Vendor) \in Int
  BY <1>1, <1>2, VendorFinite, SumRemoved
<1> QED BY <1>3, <1>4, <1>5

\* A refund gives the customer, with the payment charge, what the vendors, the delivery and
\* the coupon give.
LEMMA RefundLinesTotal ==
  ASSUME BackSound(back), NEW give, GiveSound(give), give.subsidy = give.subsidyOwed,
         NEW fee \in [Vendor -> Int], released \in BOOLEAN
  PROVE  SumFunction(RefundLines(give, fee)) = 0
<1> DEFINE lines == RefundLines(give, fee)
           base == give.base
           zero == [v \in Vendor |-> 0]
           taken == [v \in Vendor |-> -base[v]]
           net == [v \in Vendor |-> fee[v] - base[v]]
           p == IF released THEN zero ELSE taken
           q == IF released THEN net ELSE zero
           c == give.customer
           d == give.delivery
           s == give.subsidy
           n == give.processing
           items == SumFunctionOnSet(base, Vendor)
           fees == SumFunctionOnSet(fee, Vendor)
<1>1. base \in [Vendor -> Int] /\ c \in Int /\ d \in Int /\ s \in Int /\ n \in Int /\ GiveTyped(give)
  BY BackIs DEF GiveSound, GiveTyped
<1>2. items + d = c + s /\ items \in Int
  <2>1. SumFunction(base) + d = c + s
    BY DEF GiveSound
  <2> HIDE DEF base
  <2> QED BY <1>1, <2>1, SumOfVendors
<1>3. fees \in Int /\ SumFunction(fee) = fees
  BY SumOfVendors
<1>4. /\ lines \in [Account -> Int]
      /\ \A a \in Pending : lines[a] = IF released THEN 0 ELSE -base[a[2]]
      /\ \A a \in Available : lines[a] = IF released THEN fee[a[2]] - base[a[2]] ELSE 0
      /\ lines[FeeIncome] = IF released THEN -fees ELSE 0
      /\ lines[Payable] = IF released THEN 0 ELSE -d
      /\ lines[DeliveryIncome] = IF released THEN -d ELSE 0
      /\ \A a \in RiderBalance \cup {RedoPayable, Clearing} : lines[a] = 0
      /\ lines[Promo] = s /\ lines[ProviderFees] = -n
      /\ lines[Wallet] = c + n
  BY <1>1, <1>3, RefundLinesAre
<1>5. \A a \in Pending \cup Available : a[2] \in Vendor
  BY DEF Pending, Available
<1> HIDE DEF lines, base, c, d, s, n
<1>6. zero \in [Vendor -> Int] /\ taken \in [Vendor -> Int] /\ net \in [Vendor -> Int]
  BY <1>1
<1>7. p \in [Vendor -> Int] /\ q \in [Vendor -> Int]
  <2> HIDE DEF zero, taken, net
  <2> QED BY <1>6
<1>8. (\A a \in Pending : lines[a] = p[a[2]]) /\ (\A a \in Available : lines[a] = q[a[2]])
  BY <1>4, <1>5
<1>9. /\ SumFunctionOnSet(zero, Vendor) = 0
      /\ SumFunctionOnSet(taken, Vendor) = -items
      /\ SumFunctionOnSet(net, Vendor) = fees - items
  <2>1. SumFunctionOnSet(zero, Vendor) = 0
    BY VendorFinite, SumZero
  <2>2. SumFunctionOnSet(taken, Vendor) = -items
    <3>1. \A v \in Vendor : base[v] \in Int /\ taken[v] = -base[v]
      BY <1>1
    <3> HIDE DEF taken
    <3> QED BY <3>1, SumNegated
  <2>3. SumFunctionOnSet(net, Vendor) = fees - items
    <3>1. \A v \in Vendor : fee[v] \in Int /\ base[v] \in Int /\ net[v] = fee[v] - base[v]
      BY <1>1
    <3> HIDE DEF net
    <3> QED BY <3>1, SumOfDifference
  <2> QED BY <2>1, <2>2, <2>3
<1> HIDE DEF zero, taken, net
<1>10. /\ SumFunctionOnSet(p, Vendor) = IF released THEN 0 ELSE -items
       /\ SumFunctionOnSet(q, Vendor) = IF released THEN fees - items ELSE 0
  BY <1>9
<1> HIDE DEF p, q, items, fees
<1>11. SumFunction(lines) = SumFunctionOnSet(p, Vendor) + SumFunctionOnSet(q, Vendor)
           + (lines[Clearing] + lines[Wallet] + lines[Promo] + lines[FeeIncome] + lines[DeliveryIncome]
              + lines[ProviderFees] + lines[Payable] + lines[RedoPayable])
  BY <1>4, <1>7, <1>8, LinesTotal
<1>12. CASE released
  <2>1. SumFunction(lines) = 0 + (fees - items) + (0 + (c + n) + s + (-fees) + (-d) + (-n) + 0 + 0)
    BY <1>4, <1>10, <1>11, <1>12
  <2> QED BY <1>1, <1>2, <1>3, <2>1 DEF lines
<1>13. CASE ~released
  <2>1. SumFunction(lines) = (-items) + 0 + (0 + (c + n) + s + 0 + 0 + (-n) + (-d) + 0)
    BY <1>4, <1>10, <1>11, <1>13
  <2> QED BY <1>1, <1>2, <2>1 DEF lines
<1> QED BY <1>12, <1>13

\* A release moves what is held to the vendors and to the fee.
LEMMA ReleaseLinesTotal ==
  ASSUME BackSound(back)
  PROVE  SumFunction(ReleaseLines) = 0
<1> DEFINE lines == ReleaseLines
           room == Room
           fees == back.fee
           rest == [v \in Vendor |-> Fee - fees[v]]
           all == [v \in Vendor |-> Fee]
           p == [v \in Vendor |-> -room[v]]
           q == [v \in Vendor |-> room[v] - rest[v]]
           r == SumFunctionOnSet(room, Vendor)
           x == SumFunctionOnSet(rest, Vendor)
           y == SumFunctionOnSet(fees, Vendor)
           z == Vendors * Fee
<1>1. back.base \in [Vendor -> Int] /\ fees \in [Vendor -> Int] /\ Fee \in Nat /\ z \in Int /\ Base \in Int
  BY BackIs, TheAmounts
<1>2. room \in [Vendor -> Int]
  BY <1>1 DEF Room
<1>3. y \in Int /\ SumFunction(fees) = y
  <2> HIDE DEF fees
  <2> QED BY <1>1, SumOfVendors
<1>4. /\ lines \in [Account -> Int]
      /\ \A a \in Pending : lines[a] = -room[a[2]]
      /\ \A a \in Available : lines[a] = room[a[2]] - (Fee - fees[a[2]])
      /\ lines[FeeIncome] = z - y
      /\ \A a \in {DeliveryIncome, Payable, Promo, ProviderFees, Wallet, RedoPayable, Clearing}
                   \cup RiderBalance : lines[a] = 0
  BY <1>1, <1>3, ReleaseLinesAre
<1>5. \A a \in Pending \cup Available : a[2] \in Vendor
  BY DEF Pending, Available
<1> HIDE DEF lines, room, fees, z
<1>6. rest \in [Vendor -> Int] /\ p \in [Vendor -> Int] /\ q \in [Vendor -> Int] /\ all \in [Vendor -> Int]
  BY <1>1, <1>2
<1>7. (\A a \in Pending : lines[a] = p[a[2]]) /\ (\A a \in Available : lines[a] = q[a[2]])
  BY <1>4, <1>5
<1>8. SumFunctionOnSet(p, Vendor) = -r
  <2>1. \A v \in Vendor : room[v] \in Int /\ p[v] = -room[v]
    BY <1>2
  <2> HIDE DEF p
  <2> QED BY <2>1, SumNegated
<1>9. SumFunctionOnSet(q, Vendor) = r - x
  <2>1. \A v \in Vendor : room[v] \in Int /\ rest[v] \in Int /\ q[v] = room[v] - rest[v]
    BY <1>2, <1>6
  <2> HIDE DEF q, rest
  <2> QED BY <2>1, SumOfDifference
<1>10. x = z - y
  <2>1. SumFunctionOnSet(all, Vendor) = z
    <3>1. \A v \in Vendor : all[v] = Fee
      OBVIOUS
    <3> HIDE DEF all
    <3> QED BY <1>1, <1>6, <3>1, SameForAll, SumOfVendors DEF z
  <2>2. \A v \in Vendor : all[v] \in Int /\ fees[v] \in Int /\ rest[v] = all[v] - fees[v]
    BY <1>1
  <2> HIDE DEF all, rest
  <2> QED BY <2>1, <2>2, SumOfDifference
<1>11. r \in Int
  BY <1>2, SumOfVendors
<1> HIDE DEF p, q, r, x, y, rest, all
<1>12. SumFunction(lines) = SumFunctionOnSet(p, Vendor) + SumFunctionOnSet(q, Vendor)
           + (lines[Clearing] + lines[Wallet] + lines[Promo] + lines[FeeIncome] + lines[DeliveryIncome]
              + lines[ProviderFees] + lines[Payable] + lines[RedoPayable])
  BY <1>4, <1>6, <1>7, LinesTotal
<1>13. SumFunction(lines) = (-r) + (r - x) + (0 + 0 + 0 + (z - y) + 0 + 0 + 0 + 0)
  BY <1>4, <1>8, <1>9, <1>12
<1> QED BY <1>1, <1>3, <1>10, <1>11, <1>13 DEF lines

\* A payment holds for the vendors and the delivery what the customer and the coupon pay.
LEMMA PaymentLinesTotal == SumFunction(PaymentLines) = 0
<1> DEFINE lines == PaymentLines
           p == [v \in Vendor |-> Base]
           q == [v \in Vendor |-> 0]
<1>1. /\ lines \in [Account -> Int]
      /\ \A a \in Pending : lines[a] = Base
      /\ lines[Payable] = DeliveryFee /\ lines[Clearing] = -Paid /\ lines[Promo] = -Discount
      /\ \A a \in Available \cup RiderBalance \cup {FeeIncome, DeliveryIncome, RedoPayable, Wallet, ProviderFees} :
           lines[a] = 0 /\ a \in Account
  BY PaymentLinesAre
<1>2. \A a \in Pending \cup Available : a[2] \in Vendor
  BY DEF Pending, Available
<1> HIDE DEF lines
<1>3. p \in [Vendor -> Int] /\ q \in [Vendor -> Int] /\ Base \in Nat
  BY TheAmounts
<1>4. (\A a \in Pending : lines[a] = p[a[2]]) /\ (\A a \in Available : lines[a] = q[a[2]])
  BY <1>1, <1>2
<1>5. SumFunctionOnSet(p, Vendor) = Items
  <2>1. \A v \in Vendor : p[v] = Base
    OBVIOUS
  <2> HIDE DEF p
  <2> QED BY <1>3, <2>1, SameForAll, SumOfVendors DEF Items
<1>6. SumFunctionOnSet(q, Vendor) = 0
  BY VendorFinite, SumZero
<1> HIDE DEF p, q
<1>7. SumFunction(lines) = SumFunctionOnSet(p, Vendor) + SumFunctionOnSet(q, Vendor)
           + (lines[Clearing] + lines[Wallet] + lines[Promo] + lines[FeeIncome] + lines[DeliveryIncome]
              + lines[ProviderFees] + lines[Payable] + lines[RedoPayable])
  BY <1>1, <1>3, <1>4, LinesTotal
<1>8. SumFunction(lines) = Items + 0 + ((-Paid) + 0 + (-Discount) + 0 + 0 + 0 + DeliveryFee + 0)
  BY <1>1, <1>5, <1>6, <1>7
<1>9. Paid = Items - Discount + DeliveryFee /\ Items \in Int /\ Discount \in Int /\ DeliveryFee \in Int /\ Paid \in Int
  BY PaidIs, TheAmounts
<1> QED BY <1>8, <1>9 DEF lines

-----------------------------------------------------------------------------
(* Every step leaves the books at zero.                                    *)

Balanced == Total(ledger) = 0

\* What there may be left for the customer.
LEMMA LeftIs ==
  ASSUME BackSound(back), NEW j
  PROVE  /\ Kept(j) \in Nat /\ (Earned(j) => Kept(j) = DeliveryFee) /\ (~Earned(j) => Kept(j) = 0)
         /\ LeftCustomer(j) \in 0..PaidLeft /\ PaidLeft <= Paid
         /\ (PaidLeft <= Kept(j) => LeftCustomer(j) = 0)
<1>1. Kept(j) \in Nat /\ (Earned(j) => Kept(j) = DeliveryFee) /\ (~Earned(j) => Kept(j) = 0)
  BY TheAmounts DEF Kept
<1>2. PaidLeft \in Nat /\ PaidLeft = Paid - back.customer /\ back.customer \in Nat /\ Paid \in Nat
  BY BackIs, PaidIs
<1>3. LeftCustomer(j) = IF PaidLeft - Kept(j) > 0 THEN PaidLeft - Kept(j) ELSE 0
  BY DEF LeftCustomer, OrZero
<1> QED BY <1>1, <1>2, <1>3

\* No coupon is short of the delivery fee that is kept, unless the order was refunded whole.
LEMMA NoShortfall ==
  ASSUME IInv, NEW j, ~Earned(j) \/ ~refunded
  PROVE  Shortfall(j) = 0
<1>1. BackSound(back)
  BY DEF IInv, Books
<1>2. Kept(j) \in Nat /\ (Earned(j) => Kept(j) = DeliveryFee) /\ (~Earned(j) => Kept(j) = 0)
  BY <1>1, LeftIs
<1>3. PaidLeft \in Nat /\ FeeHeld = DeliveryFee - back.delivery /\ PaidLeft >= FeeHeld /\ DeliveryFee \in Nat
  BY <1>1, BackIs, TheAmounts
<1>4. Earned(j) => back.delivery = 0
  BY DEF IInv, StageInv
<1>5. ~(Kept(j) - PaidLeft > 0)
  <2>1. CASE Earned(j)
    BY <1>2, <1>3, <1>4, <2>1
  <2>2. CASE ~Earned(j)
    BY <1>2, <1>3, <2>2
  <2> QED BY <2>1, <2>2
<1> QED BY <1>5 DEF Shortfall, OrZero

\* The settlement a refund starts with.
LEMMA AtRefundTotal ==
  ASSUME NEW j, NEW l \in Ledger
  PROVE  AtRefund(j, l) \in Ledger /\ Total(AtRefund(j, l)) = Total(l)
BY SettledIs, SettledTotal DEF AtRefund

\* A refund with nothing left to give.
LEMMA NothingTotal ==
  ASSUME NEW j, NEW l \in Ledger, RefundNothing(j, l)
  PROVE  Total(ledger') = Total(l)
<1> DEFINE done == IF ~Earned(j) THEN PromoReturned(l)
                   ELSE IF ~released THEN DeliverySettled(l, FeePayee(j, FALSE))
                   ELSE l
<1>1. done \in Ledger /\ Total(done) = Total(l)
  BY PromoReturnedIs, PromoReturnedTotal, SettledIs, SettledTotal
<1>2. ledger' = RedoClosedIn(done, j)
  BY DEF RefundNothing
<1> HIDE DEF done
<1> QED BY <1>1, <1>2, RedoClosedTotal

\* A whole refund of an order whose coupon is not short.
LEMMA WholeTotal ==
  ASSUME IInv, NEW j, NEW l \in Ledger, NEW charge \in BOOLEAN, RefundWhole(j, l, charge),
         ~Earned(j) \/ ~refunded
  PROVE  Total(ledger') = Total(l)
<1> DEFINE give == WholeGive(j, charge)
           fee == FeeOf(give)
           settled == AtRefund(j, l)
           lines == RefundLines(give, fee)
           posted == Post(settled, lines)
           closed == RedoClosedIn(posted, j)
<1>1. ledger' = IF Earned(j) THEN closed ELSE PromoReturned(closed)
  BY DEF RefundWhole, AtRefund
<1>2. BackSound(back) /\ released \in BOOLEAN
  BY DEF IInv, Books
<1>3. GiveSound(give)
  <2>1. ~Earned(j) \/ back.delivery = 0 \/ (Emptied /\ PaidLeft = FeeHeld)
    BY DEF IInv, StageInv
  <2> QED BY <1>2, <2>1, WholeGiveIs
<1>4. fee \in [Vendor -> Int] /\ GiveTyped(give)
  BY <1>2, <1>3, GivenIs
<1>5. give.subsidy = give.subsidyOwed
  <2>1. give.subsidy = LeftSubsidy - Shortfall(j) /\ give.subsidyOwed = LeftSubsidy
    BY DEF WholeGive
  <2>2. Shortfall(j) = 0 /\ LeftSubsidy \in Nat
    BY <1>2, NoShortfall, BackIs
  <2> QED BY <2>1, <2>2
<1> HIDE DEF give, fee
<1>6. SumFunction(lines) = 0 /\ lines \in [Account -> Int]
  BY <1>2, <1>3, <1>4, <1>5, RefundLinesTotal, RefundLinesAre
<1>7. settled \in Ledger /\ Total(settled) = Total(l)
  BY AtRefundTotal
<1> HIDE DEF settled, lines
<1>8. posted \in Ledger /\ Total(posted) = Total(l)
  BY <1>6, <1>7, PostIs, PostTotal
<1> HIDE DEF posted
<1>9. closed \in Ledger /\ Total(closed) = Total(l)
  BY <1>8, RedoClosedTotal, RedoClosedOut DEF RedoMoved
<1> HIDE DEF closed
<1> QED BY <1>1, <1>9, PromoReturnedTotal

\* A partial refund.
LEMMA PartTotal ==
  ASSUME IInv, NEW j, NEW scope \in 0..Vendors, NEW amount \in Int, NEW charge \in BOOLEAN,
         PartAllowed(j, scope, amount), RefundPart(j, ledger, scope, amount, charge)
  PROVE  Total(ledger') = Total(ledger)
<1> DEFINE give == PartGive(scope, amount, charge)
           fee == FeeOf(give)
           lines == RefundLines(give, fee)
           posted == Post(ledger, lines)
<1>1. ledger' \in {posted, PromoReturned(posted)}
  BY DEF RefundPart
<1>2. BackSound(back) /\ released \in BOOLEAN /\ ledger \in Ledger
  BY DEF IInv, Books, DeliverySound
<1>3. GiveSound(give)
  BY <1>2, PartGiveIs
<1>4. fee \in [Vendor -> Int] /\ GiveTyped(give)
  BY <1>2, <1>3, GivenIs
<1>5. give.subsidy = give.subsidyOwed
  BY DEF PartGive
<1> HIDE DEF give, fee
<1>6. SumFunction(lines) = 0 /\ lines \in [Account -> Int]
  BY <1>2, <1>3, <1>4, <1>5, RefundLinesTotal, RefundLinesAre
<1> HIDE DEF lines
<1>7. posted \in Ledger /\ Total(posted) = Total(ledger)
  BY <1>2, <1>6, PostIs, PostTotal
<1> HIDE DEF posted
<1> QED BY <1>1, <1>7, PromoReturnedTotal

\* The amounts a decision names: a whole refund is named only while there is something left,
\* or for an order that was never refunded whole.
LEMMA RefundBalanced ==
  ASSUME IInv, Balanced, NEW scope \in 0..Vendors, NEW amount \in Int, NEW charge \in BOOLEAN,
         amount # 0, amount = All => ~refunded, Refund(scope, amount, charge)
  PROVE  Balanced'
<1>1. ledger \in Ledger /\ BackSound(back)
  BY DEF IInv, Books, DeliverySound
<1>2. CASE ~IsWhole(job, scope, amount)
  <2>1. PartAllowed(job, scope, amount) /\ RefundPart(job, ledger, scope, amount, charge)
    BY <1>2 DEF Refund
  <2>2. Total(ledger') = Total(ledger)
    BY <2>1, PartTotal
  <2> QED BY <2>2 DEF Balanced, Total
<1>3. CASE IsWhole(job, scope, amount) /\ NothingLeft(job, charge)
  <2>1. RefundNothing(job, ledger)
    BY <1>3 DEF Refund
  <2>2. Total(ledger') = Total(ledger)
    BY <1>1, <2>1, NothingTotal
  <2> QED BY <2>2 DEF Balanced, Total
<1>4. CASE IsWhole(job, scope, amount) /\ ~NothingLeft(job, charge)
  <2>1. RefundWhole(job, ledger, charge)
    BY <1>4 DEF Refund
  <2>2. ~Earned(job) \/ ~refunded
    <3> SUFFICES ASSUME Earned(job), refunded PROVE FALSE
      OBVIOUS
    <3>1. PaidLeft = FeeHeld
      BY DEF IInv, StageInv, Finished
    <3>2. FeeHeld <= DeliveryFee /\ Kept(job) = DeliveryFee
      BY <1>1, BackIs, LeftIs
    <3>3. LeftCustomer(job) = 0
      BY <1>1, <3>1, <3>2, LeftIs
    <3> QED BY <1>4, <3>3 DEF IsWhole
  <2>3. Total(ledger') = Total(ledger)
    BY <1>1, <2>1, <2>2, WholeTotal
  <2> QED BY <2>3 DEF Balanced, Total
<1> QED BY <1>2, <1>3, <1>4

\* Support's cancellation.
LEMMA CancelBalanced ==
  ASSUME IInv, Balanced, SupportCancel
  PROVE  Balanced'
<1> DEFINE j == JobWithdrawn
           l == Reversed(ledger)
<1>1. /\ order = "paid" /\ LooksUncollected
      /\ IF NothingLeft(j, FALSE) THEN RefundNothing(j, l) ELSE RefundWhole(j, l, FALSE)
  BY DEF SupportCancel, Reversed
<1>2. ~refunded
  BY <1>1 DEF IInv, StageInv, LooksUncollected, Delivered
<1>3. l \in Ledger /\ l.books = ledger.books
  BY ReversedKeeps DEF IInv, Books, DeliverySound
<1>4. Total(l) = 0
  BY <1>3 DEF Balanced, Total
<1> HIDE DEF j, l
<1>5. Total(ledger') = 0
  <2>1. CASE NothingLeft(j, FALSE)
    BY <1>1, <1>3, <1>4, <2>1, NothingTotal
  <2>2. CASE ~NothingLeft(j, FALSE)
    BY <1>1, <1>2, <1>3, <1>4, <2>2, WholeTotal
  <2> QED BY <2>1, <2>2
<1> QED BY <1>5 DEF Balanced, Total

\* A release.
LEMMA ReleaseBalanced ==
  ASSUME IInv, Balanced, Release
  PROVE  Balanced'
<1> DEFINE lines == ReleaseLines
           m == Post(ledger, lines)
           payee == FeePayee(job, TRUE)
<1>1. ledger' = DeliverySettled(m, payee)
  BY DEF Release
<1>2. ledger \in Ledger /\ BackSound(back) /\ back.base \in [Vendor -> Int] /\ back.fee \in [Vendor -> Int]
  BY BackIs DEF IInv, Books, DeliverySound
<1>3. lines \in [Account -> Int] /\ SumFunction(lines) = 0
  BY <1>2, ReleaseLinesAre, ReleaseLinesTotal
<1> HIDE DEF lines, payee
<1>4. m \in Ledger /\ Total(m) = Total(ledger)
  BY <1>2, <1>3, PostIs, PostTotal
<1> HIDE DEF m
<1>5. Total(ledger') = Total(ledger)
  BY <1>1, <1>4, SettledTotal
<1> QED BY <1>5 DEF Balanced, Total

\* The end of a trip.
LEMMA TripEndBalanced ==
  ASSUME IInv, Balanced, RedoEarned
  PROVE  Balanced'
<1>1. ledger \in Ledger
  BY DEF IInv, Books, DeliverySound
<1>2. Total(ledger') = Total(ledger)
  BY <1>1, RedoSettledTotal DEF RedoEarned
<1> QED BY <1>2 DEF Balanced, Total

\* A second trip paid for or called off.
LEMMA RedoMoneyBalanced ==
  ASSUME IInv, Balanced, CustomerPaysRedo \/ StaffCancelsRedo
  PROVE  Balanced'
<1>1. ledger \in Ledger
  BY DEF IInv, Books, DeliverySound
<1>2. CASE CustomerPaysRedo
  <2>1. RedoFee \in Int /\ Clearing \in Account /\ RedoPayable \in Account /\ Clearing # RedoPayable
    BY TheAmounts, TheAccounts, TheyDiffer
  <2>2. ledger' = Transfer(ledger, Clearing, RedoPayable, RedoFee)
    BY <1>2 DEF CustomerPaysRedo
  <2>3. Total(ledger') = Total(ledger)
    BY <1>1, <2>1, <2>2, TransferTotal
  <2> QED BY <2>3 DEF Balanced, Total
<1>3. CASE StaffCancelsRedo
  <2>1. ledger' = IF redo = "paid" THEN RedoReturned(ledger) ELSE ledger
    BY <1>3 DEF StaffCancelsRedo
  <2>2. Total(ledger') = Total(ledger)
    BY <1>1, <2>1, RedoReturnedTotal
  <2> QED BY <2>2 DEF Balanced, Total
<1> QED BY <1>2, <1>3

\* The payment.
LEMMA BeginsBalanced == Init => Balanced
<1> SUFFICES ASSUME Init PROVE Balanced
  OBVIOUS
<1> DEFINE zero == [a \in Account |-> 0]
           l0 == [books |-> zero, taken |-> 0, earner |-> "none", waiver |-> IF Waived > 0 THEN "owed" ELSE "none"]
           lines == PaymentLines
<1>1. ledger = Post(l0, lines)
  BY DEF Init
<1>2. l0 \in Ledger /\ l0.books = zero
  BY DEF Ledger, Stages, Earners
<1>3. lines \in [Account -> Int] /\ SumFunction(lines) = 0
  BY PaymentLinesAre, PaymentLinesTotal
<1>4. SumFunctionOnSet(zero, Account) = 0 /\ DOMAIN zero = Account
  <2>1. (\A a \in Account : zero[a] = 0) /\ DOMAIN zero = Account
    OBVIOUS
  <2> HIDE DEF zero
  <2> QED BY <2>1, AccountFinite, SumZero
<1>5. Total(l0) = 0
  BY <1>2, <1>4 DEF Total, SumFunction
<1> HIDE DEF l0, lines
<1> QED BY <1>1, <1>2, <1>3, <1>5, PostTotal DEF Balanced

-----------------------------------------------------------------------------
(* Cases.                                                                  *)

Sound == IInv /\ Balanced

\* What a case may ask: never nothing, and all that is left only of an order not yet refunded whole.
LEMMA CaseIs ==
  ASSUME IInv, NEW c \in Case
  PROVE  /\ case[c].scope \in 0..Vendors /\ case[c].asks \in Int
         /\ \A amount \in Amounts(case[c].scope) :
              /\ amount \in Int /\ amount \in {All} \cup 0..Paid /\ amount # 0
              /\ amount = All => ~refunded
<1>1. case[c].scope \in 0..Vendors /\ case[c].asks \in {All} \cup 0..Paid
  BY DEF IInv, JobSound, CaseTypeOK
<1>2. case[c].asks \in Int
  BY <1>1, PaidIs DEF All
<1>3. LeftCustomer(job) \in Nat /\ LeftCustomer(job) <= Paid /\ Paid \in Nat
  BY LeftIs, BackIs, PaidIs DEF IInv, Books
<1>4. \A amount \in Amounts(case[c].scope) :
              /\ amount \in Int /\ amount \in {All} \cup 0..Paid /\ amount # 0
              /\ amount = All => ~refunded
  BY <1>3 DEF Amounts, WholeAtZero, All
<1> QED BY <1>1, <1>2, <1>4

\* A case keeps its type when its status is set and what it asks.
LEMMA CaseSet ==
  ASSUME IInv, NEW c \in Case, NEW status \in {"none", "open", "resolved", "rejected"},
         NEW asks \in {All} \cup 0..Paid,
         case' = [case EXCEPT ![c].status = status, ![c].asks = asks]
  PROVE  CaseTypeOK'
<1>1. case \in [Case -> [status : {"none", "open", "resolved", "rejected"}, scope : 0..Vendors,
                         asks : {All} \cup 0..Paid]]
  BY DEF IInv, JobSound, CaseTypeOK
<1>2. case' = [case EXCEPT ![c] = [case[c] EXCEPT !.status = status, !.asks = asks]]
  BY <1>1
<1>3. [case[c] EXCEPT !.status = status, !.asks = asks] \in
        [status : {"none", "open", "resolved", "rejected"}, scope : 0..Vendors, asks : {All} \cup 0..Paid]
  BY <1>1
<1> HIDE DEF All
<1>4. case' \in [Case -> [status : {"none", "open", "resolved", "rejected"}, scope : 0..Vendors,
                          asks : {All} \cup 0..Paid]]
  BY <1>1, <1>2, <1>3
<1> QED BY <1>4 DEF CaseTypeOK

\* With its status alone.
LEMMA StatusSet ==
  ASSUME IInv, NEW c \in Case, NEW status \in {"none", "open", "resolved", "rejected"},
         case' = [case EXCEPT ![c].status = status]
  PROVE  CaseTypeOK'
<1>1. case \in [Case -> [status : {"none", "open", "resolved", "rejected"}, scope : 0..Vendors,
                         asks : {All} \cup 0..Paid]]
  BY DEF IInv, JobSound, CaseTypeOK
<1>2. case' = [case EXCEPT ![c].status = status, ![c].asks = case[c].asks]
  BY <1>1
<1>3. case[c].asks \in {All} \cup 0..Paid
  BY <1>1
<1> QED BY <1>2, <1>3, CaseSet

\* And with what it asks alone.
LEMMA AsksNothing ==
  ASSUME IInv, NEW c \in Case, case' = [case EXCEPT ![c].asks = 0]
  PROVE  CaseTypeOK'
<1>1. case \in [Case -> [status : {"none", "open", "resolved", "rejected"}, scope : 0..Vendors,
                         asks : {All} \cup 0..Paid]]
  BY DEF IInv, JobSound, CaseTypeOK
<1>2. case' = [case EXCEPT ![c].status = case[c].status, ![c].asks = 0]
  BY <1>1
<1>3. case[c].status \in {"none", "open", "resolved", "rejected"} /\ 0 \in {All} \cup 0..Paid
  BY <1>1, PaidIs
<1> QED BY <1>2, <1>3, CaseSet

\* A refund a case or its approval gives.
LEMMA CaseRefundKeeps ==
  ASSUME Sound, NEW c \in Case, NEW amount \in Int, NEW charge \in {FALSE, Processing > 0},
         amount # 0, amount = All => ~refunded, Refund(case[c].scope, amount, charge), CaseTypeOK'
  PROVE  Sound' /\ OwnTrip
<1>1. case[c].scope \in 0..Vendors /\ charge \in BOOLEAN
  <2>1. case[c].scope \in 0..Vendors
    BY CaseIs DEF Sound
  <2>2. FALSE \in BOOLEAN /\ (Processing > 0) \in BOOLEAN
    OBVIOUS
  <2>3. charge \in BOOLEAN
    BY <2>2, Zenon
  <2> QED BY <2>1, <2>3
<1> DEFINE scope == case[c].scope
<1> HIDE DEF scope
<1>2. scope \in 0..Vendors /\ Refund(scope, amount, charge)
  BY <1>1 DEF scope
<1>3. IInv' /\ OwnTrip
  BY <1>1, <1>2, RefundKeeps DEF Sound
<1>4. Balanced'
  BY <1>1, <1>2, RefundBalanced DEF Sound
<1> QED BY <1>3, <1>4 DEF Sound

\* A step that leaves the money alone.
LEMMA NoMoneyKeeps ==
  ASSUME Sound, IInv' /\ ledger'.earner = ledger.earner, ledger' = ledger
  PROVE  Sound' /\ OwnTrip
BY DEF Sound, Balanced, Total, OwnTrip

\* The decisions that refund nothing.
LEMMA CaseKeeps ==
  ASSUME Sound, NEW c \in Case, CloseCase(c) \/ ReReview(c) \/ Decide(c) \/ DropRequest(c)
  PROVE  Sound' /\ OwnTrip
<1>1. UNCHANGED <<order, refunded, assignment, redelivery, money>>
  BY DEF CloseCase, ReReview, Decide, DropRequest
<1>2. IInv
  BY DEF Sound
<1>3. CaseTypeOK'
  <2>1. CASE CloseCase(c)
    <3>1. PICK end \in {"resolved", "rejected"} : case' = [case EXCEPT ![c].status = end]
      BY <2>1 DEF CloseCase
    <3> QED BY <1>2, <3>1, StatusSet
  <2>2. CASE ReReview(c)
    <3>1. case' = [case EXCEPT ![c].status = "open"]
      BY <2>2 DEF ReReview
    <3> QED BY <1>2, <3>1, StatusSet
  <2>3. CASE Decide(c)
    <3>1. PICK amount \in Amounts(case[c].scope) :
            case' = [case EXCEPT ![c].status = "resolved", ![c].asks = amount]
      BY <2>3 DEF Decide
    <3>2. amount \in {All} \cup 0..Paid
      BY <1>2, <3>1, CaseIs
    <3> QED BY <1>2, <3>1, <3>2, CaseSet
  <2>4. CASE DropRequest(c)
    <3>1. case' = [case EXCEPT ![c].asks = 0]
      BY <2>4 DEF DropRequest
    <3> QED BY <1>2, <3>1, AsksNothing
  <2> QED BY <2>1, <2>2, <2>3, <2>4
<1>4. IInv' /\ ledger'.earner = ledger.earner
  BY <1>1, <1>2, <1>3, CaseStepKeeps
<1>5. ledger' = ledger
  BY <1>1 DEF money
<1> QED BY <1>4, <1>5, NoMoneyKeeps

\* A case resolved with a refund.
LEMMA ResolveKeeps ==
  ASSUME Sound, NEW c \in Case, ResolveWithRefund(c)
  PROVE  Sound' /\ OwnTrip
<1>1. PICK amount \in Amounts(case[c].scope), charge \in {FALSE, Processing > 0} :
        Refund(case[c].scope, amount, charge)
  BY DEF ResolveWithRefund
<1>2. amount \in Int /\ amount # 0 /\ (amount = All => ~refunded)
  BY CaseIs DEF Sound
<1>3. case' = [case EXCEPT ![c].status = "resolved"]
  BY DEF ResolveWithRefund
<1>4. CaseTypeOK'
  BY <1>3, StatusSet DEF Sound
<1> QED BY <1>1, <1>2, <1>4, CaseRefundKeeps

\* A refund approved.
LEMMA ApproveKeeps ==
  ASSUME Sound, NEW c \in Case, Approve(c)
  PROVE  Sound' /\ OwnTrip
<1> DEFINE amount == case[c].asks
<1>1. PICK charge \in {FALSE, Processing > 0} : Refund(case[c].scope, case[c].asks, charge)
  BY DEF Approve
<1>2. amount \in Int /\ amount # 0 /\ (amount = All => ~refunded)
  BY CaseIs DEF Sound, Approve, Asking, WholeAtZero
<1>3. case' = [case EXCEPT ![c].asks = 0]
  BY DEF Approve
<1>4. CaseTypeOK'
  BY <1>3, AsksNothing DEF Sound
<1>5. Refund(case[c].scope, amount, charge)
  BY <1>1
<1> HIDE DEF amount
<1> QED BY <1>2, <1>4, <1>5, CaseRefundKeeps

-----------------------------------------------------------------------------
(* All steps.                                                              *)

\* Every step keeps the invariant, and pays a rider only for that rider's trip.
LEMMA NextKeeps ==
  ASSUME Sound, [Next]_vars
  PROVE  Sound' /\ OwnTrip
<1>1. CASE JobStep /\ MoneyStays
  <2>1. IInv' /\ ledger'.earner = ledger.earner
    BY <1>1, JobStepKeeps DEF Sound
  <2>2. ledger' = ledger
    BY <1>1 DEF MoneyStays, money
  <2> QED BY <2>1, <2>2, NoMoneyKeeps
<1>2. CASE DeliverGoods \/ FailDelivery
  <2>1. IInv' /\ ledger'.earner = ledger.earner
    BY <1>2, DeliverKeeps, FailKeeps DEF Sound
  <2>2. RedoEarned
    BY <1>2 DEF DeliverGoods, FailDelivery
  <2>3. Balanced'
    BY <2>2, TripEndBalanced DEF Sound
  <2> QED BY <2>1, <2>3 DEF Sound, OwnTrip
<1>3. CASE CustomerPaysRedo \/ StaffCancelsRedo
  <2>1. IInv' /\ ledger'.earner = ledger.earner
    BY <1>3, PaysKeeps, CancelRedoKeeps DEF Sound
  <2>2. Balanced'
    BY <1>3, RedoMoneyBalanced DEF Sound
  <2> QED BY <2>1, <2>2 DEF Sound, OwnTrip
<1>4. ASSUME NEW c \in Case,
             ResolveWithRefund(c) \/ CloseCase(c) \/ ReReview(c) \/ Decide(c) \/ Approve(c) \/ DropRequest(c)
      PROVE  Sound' /\ OwnTrip
  BY <1>4, ResolveKeeps, ApproveKeeps, CaseKeeps
<1>5. CASE Release
  BY <1>5, ReleaseStepKeeps, ReleaseBalanced DEF Sound
<1>6. CASE SupportCancel
  BY <1>6, SupportCancelKeeps, CancelBalanced DEF Sound
<1>7. CASE UNCHANGED vars
  <2>1. UNCHANGED <<order, refunded, assignment, redelivery, money>> /\ case' = case
    BY <1>7 DEF vars, jobVars, assignment, redelivery, money
  <2>2. CaseTypeOK'
    BY <2>1 DEF Sound, IInv, JobSound, CaseTypeOK
  <2>3. IInv' /\ ledger'.earner = ledger.earner
    BY <2>1, <2>2, CaseStepKeeps DEF Sound
  <2>4. ledger' = ledger
    BY <2>1 DEF money
  <2> QED BY <2>3, <2>4, NoMoneyKeeps
<1> QED BY <1>1, <1>2, <1>3, <1>4, <1>5, <1>6, <1>7 DEF Next

-----------------------------------------------------------------------------
(* What the run checks follows from the invariant.                         *)

\* The types follow.
LEMMA SoundTyped == Sound => TypeOK
<1> SUFFICES ASSUME Sound PROVE TypeOK
  OBVIOUS
<1>1. JobTypeOK /\ CaseTypeOK /\ released \in BOOLEAN
  BY DEF Sound, IInv, JobSound
<1>2. ledger \in Ledger /\ ledger.taken \in Nat
  BY DEF Sound, IInv, Books, DeliverySound
<1>3. ledger \in [books : [Account -> Int], taken : Nat, earner : ThirdParty \cup {"none"},
                  waiver : {"none", "owed", "charged", "reversed", "returned"}]
  BY <1>2 DEF Ledger, Earners, Stages
<1>4. back \in [base : [Vendor -> 0..Base], fee : [Vendor -> 0..Fee], customer : 0..Paid,
                delivery : 0..DeliveryFee, subsidy : 0..Discount, processing : 0..Processing]
  BY DEF Sound, IInv, Books, BackSound, Refunds
<1> QED BY <1>1, <1>3, <1>4 DEF TypeOK, CaseTypeOK

\* So does enough being held.
LEMMA SoundHeld == Sound => HeldIsEnough
<1> SUFFICES ASSUME Sound PROVE HeldIsEnough
  OBVIOUS
<1>1. /\ BackSound(back) /\ DeliverySound(ledger, back.delivery)
      /\ ShopsSound(ledger, back.base, back.fee, released) /\ RedoFeeHeld /\ released \in BOOLEAN
  BY DEF Sound, IInv, Books
<1>2. SumFunction(ledger.books) = 0
  BY DEF Sound, Balanced, Total
<1>3. \A a \in Pending : ledger.books[a] >= 0
  <2> SUFFICES ASSUME NEW v \in Vendor PROVE PendingOf(ledger, v) >= 0
    BY DEF Pending, PendingOf
  <2>1. back.base[v] \in 0..Base /\ Base \in Nat
    BY <1>1, TheAmounts DEF BackSound, Refunds
  <2> QED BY <1>1, <2>1 DEF ShopsSound
<1>4. \A a \in RiderBalance : ledger.books[a] >= 0
  <2> SUFFICES ASSUME NEW r \in Rider PROVE BalanceOf(ledger, r) >= 0
    BY DEF RiderBalance, BalanceOf
  <2> QED BY <1>1 DEF DeliverySound
<1>5. ledger.books[Payable] >= 0
  BY <1>1 DEF DeliverySound
<1>6. ledger.books[RedoPayable] >= 0
  BY <1>1, TheAmounts DEF RedoFeeHeld
<1>7. ledger.books[FeeIncome] >= 0
  <2> DEFINE all == [v \in Vendor |-> Fee]
             fees == back.fee
  <2>1. fees \in [Vendor -> 0..Fee] /\ Fee \in Nat
    BY <1>1, TheAmounts DEF BackSound, Refunds
  <2>2. fees \in [Vendor -> Int] /\ all \in [Vendor -> Int]
    BY <2>1
  <2> HIDE DEF fees
  <2>3. SumFunctionOnSet(all, Vendor) = Vendors * Fee
    <3>1. \A v \in Vendor : all[v] = Fee
      OBVIOUS
    <3> HIDE DEF all
    <3> QED BY <2>1, <2>2, <3>1, SameForAll, SumOfVendors
  <2>4. SumFunctionOnSet(fees, Vendor) <= SumFunctionOnSet(all, Vendor)
    <3>1. \A v \in Vendor : fees[v] \in Int /\ all[v] \in Int /\ fees[v] <= all[v]
      BY <2>1
    <3>2. IsFiniteSet(Vendor)
      BY VendorFinite
    <3> HIDE DEF all
    <3> QED BY <3>1, <3>2, SumMonotone
  <2>5. SumFunction(fees) = SumFunctionOnSet(fees, Vendor) /\ SumFunctionOnSet(fees, Vendor) \in Int
    BY <2>2, SumOfVendors
  <2>6. Vendors * Fee \in Int
    BY <2>1, TheAmounts
  <2>7. ledger.books[FeeIncome] = IF released THEN Vendors * Fee - SumFunction(fees) ELSE 0
    BY <1>1 DEF ShopsSound, fees
  <2> HIDE DEF all
  <2> QED BY <2>3, <2>4, <2>5, <2>6, <2>7
<1>8. ledger.books[DeliveryIncome] >= IF PaidTwice THEN -Waived ELSE 0
  <2>1. ledger.books[DeliveryIncome] \in Int /\ Waived \in Nat
    BY <1>1, TheAccounts, TheAmounts DEF DeliverySound, Ledger
  <2>2. /\ ledger.books[DeliveryIncome] + GivenBack(ledger) >= IF ledger.earner = "none" THEN ledger.taken ELSE 0
        /\ ledger.waiver = "returned" => ledger.taken >= Waived
        /\ ledger.taken \in Nat
    BY <1>1 DEF DeliverySound
  <2>3. CASE ledger.waiver = "returned"
    BY <2>1, <2>2, <2>3 DEF GivenBack, PaidTwice
  <2>4. CASE ledger.waiver # "returned"
    BY <2>1, <2>2, <2>4 DEF GivenBack, PaidTwice
  <2> QED BY <2>3, <2>4
<1> QED BY <1>2, <1>3, <1>4, <1>5, <1>6, <1>7, <1>8 DEF HeldIsEnough

\* And what the vendors have.
LEMMA SoundVendors == Sound => VendorPaidRight
<1> SUFFICES ASSUME Sound, NEW v \in Vendor
             PROVE  ledger.books[<<"vendor_available", v>>] =
                      (IF released THEN (Base - back.base[v]) - (Fee - FeeShare(Fee, Base, back.base[v])) ELSE 0)
                      - (IF BusinessFunds /\ v = 1 /\ ledger.waiver = "charged" THEN Waived ELSE 0)
  BY DEF VendorPaidRight
<1>1. AvailableOf(ledger, v) = (IF released THEN (Base - back.base[v]) - (Fee - back.fee[v]) ELSE 0) - Promised(ledger, v)
  BY DEF Sound, IInv, Books, ShopsSound
<1>2. back.fee[v] = FeeShare(Fee, Base, back.base[v])
  BY DEF Sound, IInv, Books, BackSound
<1>3. Promised(ledger, v) = IF BusinessFunds /\ v = 1 /\ ledger.waiver = "charged" THEN Waived ELSE 0
  BY DEF Promised, Charged
<1> QED BY <1>1, <1>2, <1>3 DEF AvailableOf

\* And what a customer refunded whole has.
LEMMA SoundWhole == Sound => WholeIsWhole
<1> SUFFICES ASSUME Sound PROVE WholeIsWhole
  OBVIOUS
<1>1. BackSound(back) /\ DeliverySound(ledger, back.delivery) /\ released \in BOOLEAN
      /\ ShopsSound(ledger, back.base, back.fee, released)
  BY DEF Sound, IInv, Books
<1>2. ASSUME order = "cancelled" \/ refunded
      PROVE  back.customer = Paid - (IF DeliveryFee > 0 THEN ledger.taken ELSE 0)
  <2>1. PaidLeft = FeeHeld /\ ledger.books[Payable] = 0
    BY <1>2 DEF Sound, IInv, StageInv, Finished
  <2>2. ledger.books[Payable] = DeliveryFee - back.delivery - FeeTakenIn(ledger)
    BY <1>1 DEF DeliverySound
  <2>3. PaidLeft = Paid - back.customer /\ FeeHeld = DeliveryFee - back.delivery
        /\ back.customer \in Nat /\ back.delivery \in Nat
    BY <1>1, BackIs
  <2>4. Paid \in Nat /\ DeliveryFee \in Nat /\ FeeTakenIn(ledger) \in Nat
    BY <1>1, PaidIs, TheAmounts DEF FeeTakenIn, DeliverySound
  <2>5. back.customer = Paid - FeeTakenIn(ledger)
    <3> DEFINE c == back.customer
               d == back.delivery
               t == FeeTakenIn(ledger)
               held == ledger.books[Payable]
    <3>1. /\ PaidLeft = FeeHeld /\ held = 0 /\ held = DeliveryFee - d - t
          /\ PaidLeft = Paid - c /\ FeeHeld = DeliveryFee - d
          /\ c \in Nat /\ d \in Nat /\ Paid \in Nat /\ DeliveryFee \in Nat /\ t \in Nat
      BY <2>1, <2>2, <2>3, <2>4
    <3> HIDE DEF c, d, t, held
    <3>2. Paid - c = DeliveryFee - d /\ 0 = DeliveryFee - d - t
      BY <3>1
    <3> DEFINE p == Paid
               e == DeliveryFee
    <3>3. p - c = e - d /\ 0 = e - d - t /\ p \in Nat /\ e \in Nat /\ c \in Nat /\ d \in Nat /\ t \in Nat
      BY <3>1, <3>2
    <3> HIDE DEF p, e
    <3>4. c = p - t
      BY ONLY <3>3
    <3> QED BY <3>4 DEF c, t, p
  <2> QED BY <2>5 DEF FeeTakenIn
<1>3. ASSUME released \/ refunded PROVE ledger.books[Payable] = 0
  BY <1>3 DEF Sound, IInv, StageInv, Finished
<1>4. ASSUME released \/ refunded PROVE \A a \in Pending : ledger.books[a] = 0
  <2> SUFFICES ASSUME NEW v \in Vendor PROVE PendingOf(ledger, v) = 0
    BY DEF Pending, PendingOf
  <2>1. ~released => back.base[v] = Base
    BY <1>4 DEF Sound, IInv, StageInv, Finished, Emptied
  <2> QED BY <1>1, <2>1, TheAmounts DEF ShopsSound
<1> QED BY <1>2, <1>3, <1>4 DEF WholeIsWhole

-----------------------------------------------------------------------------
(* The theorems.                                                           *)

\* The inductive invariant: whatever the amounts, vendors, riders and cases, in every state the
\* four parts of the order's money are in order and the books are at zero.
THEOREM Invariance == Spec => []Sound
<1>1. Init => Sound
  BY Begins, BeginsBalanced DEF Sound
<1>2. Sound /\ [Next]_vars => Sound'
  BY NextKeeps
<1> QED BY <1>1, <1>2, PTL DEF Spec

\* Every variable keeps its type; the money given back is never more than the order's.
THEOREM TypeIsKept == Spec => []TypeOK
BY Invariance, SoundTyped, PTL

\* No journal is out of balance and no account of the order is overdrawn, whatever the order of
\* refunds, release, settlement and second trips (but for a promo returned and paid again).
THEOREM HeldMoneyIsEnough == Spec => []HeldIsEnough
BY Invariance, SoundHeld, PTL

\* A vendor ends with its items less refunds less the fee on what was not refunded, whichever
\* of the release and the refunds came first.
THEOREM VendorsArePaidRight == Spec => []VendorPaidRight
BY Invariance, SoundVendors, PTL

\* Cancelled or refunded whole, the customer has everything but a delivery fee that was taken,
\* in however many refunds; released or refunded whole, the order holds nothing back.
THEOREM WholeRefundIsWhole == Spec => []WholeIsWhole
BY Invariance, SoundWhole, PTL

\* A release pays the third-party rider who delivered all that was taken for the delivery.
THEOREM DelivererPaid == Spec => []DelivererIsPaid
<1>1. Sound => DelivererIsPaid
  BY DEF Sound, IInv
<1> QED BY <1>1, Invariance, PTL

\* Whoever made the first trip of an order delivered twice has its fee.
THEOREM FirstRiderPaid == Spec => []FirstRiderIsPaid
<1>1. Sound => FirstRiderIsPaid
  BY DEF Sound, IInv
<1> QED BY <1>1, Invariance, PTL

\* The fee of a second trip is held exactly as long as the trip is paid for and not ended.
THEOREM SecondTripFeeIsHeld == Spec => []RedoFeeHeld
<1>1. Sound => RedoFeeHeld
  BY DEF Sound, IInv, Books
<1> QED BY <1>1, Invariance, PTL

\* No wallet is paid for goods that only another rider collected.
THEOREM PayIsForOwnTrip == Spec => PaidForOwnTrip
<1>1. Sound /\ [Next]_vars => [OwnTrip]_vars
  BY NextKeeps
<1>2. PaidForOwnTrip <=> [][OwnTrip]_vars
  BY DEF PaidForOwnTrip, OwnTrip
<1> QED BY <1>1, <1>2, Invariance, PTL DEF Spec

-----------------------------------------------------------------------------
(* Any sequence of partial refunds of one order.                           *)

\* What the snapshots say was refunded is a part of them, the fee being its share.
SnapshotsAgree ==
  \A v \in Snapshot :
    /\ snapCharged[v] <= snapBase[v] /\ snapBack.base[v] <= snapBase[v]
    /\ snapBack.fee[v] = FeeShare(snapCharged[v], snapBase[v], snapBack.base[v])

FairInv == SharesTypeOK /\ SnapshotsAgree /\ SharesAreFair

LEMMA SnapshotIs == Snapshot \subseteq Int /\ IsFiniteSet(Snapshot) /\ 1 \in Snapshot
  BY SharesAssumption, FS_Interval DEF Snapshot

\* The fee's part, of one snapshot.
FeeFollows ==
  \A v \in Snapshot :
    LET fee == snapBack.fee'[v] - snapBack.fee[v]
    IN  /\ 0 <= fee /\ fee <= lastPart.share'[v]
        /\ snapBack.base'[v] = snapBase[v] => snapBack.fee'[v] = snapCharged[v]

\* A refund of a part, seen from the snapshots.
LEMMA PartIsFair ==
  ASSUME FairInv, NEW amount \in 1..SumFunction(SnapRoom), RefundInPart(amount)
  PROVE  FairInv' /\ FeeFollows
<1> DEFINE share == Allocate(amount, SnapRoom)
           after == [v \in Snapshot |-> snapBack.base[v] + share[v]]
           fees == [v \in Snapshot |-> FeeShare(snapCharged[v], snapBase[v], after[v])]
<1>1. /\ snapBase \in [Snapshot -> 1..MaxBase] /\ snapCharged \in [Snapshot -> 0..MaxBase]
      /\ snapBack.base \in [Snapshot -> 0..MaxBase] /\ snapBack.fee \in [Snapshot -> 0..MaxBase]
      /\ MaxBase \in Nat
  BY SharesAssumption DEF FairInv, SharesTypeOK
<1>2. SnapRoom \in [Snapshot -> Nat] /\ \A v \in Snapshot : SnapRoom[v] = snapBase[v] - snapBack.base[v]
  BY <1>1 DEF FairInv, SnapshotsAgree, SnapRoom
<1>3. SumFunction(SnapRoom) = SumFunctionOnSet(SnapRoom, Snapshot) /\ SumFunction(SnapRoom) \in Nat
  <2>1. SumFunction(SnapRoom) = SumFunctionOnSet(SnapRoom, Snapshot)
    BY <1>2 DEF SumFunction
  <2>2. SumFunctionOnSet(SnapRoom, Snapshot) \in Nat
    <3>1. \A x \in Snapshot : SnapRoom[x] \in Nat
      BY <1>2
    <3> QED BY <3>1, SnapshotIs, SumNat
  <2> QED BY <2>1, <2>2
<1>4. amount \in Nat \ {0} /\ amount <= SumFunction(SnapRoom)
  BY <1>3
<1>5. Fair(share, amount, SnapRoom, Snapshot)
  BY <1>2, <1>4, SnapshotIs, AllocateIsFair
<1> HIDE DEF share
<1>6. share \in [Snapshot -> Nat] /\ \A v \in Snapshot : share[v] <= SnapRoom[v]
  BY <1>5 DEF Fair
<1>7. /\ snapBase' = snapBase /\ snapCharged' = snapCharged
      /\ snapBack' = [base |-> after, fee |-> fees]
      /\ lastPart' = [amount |-> amount, share |-> share, room |-> SnapRoom]
  BY DEF RefundInPart, share
<1>8. \A v \in Snapshot :
        /\ after[v] \in 0..snapBase[v] /\ snapBack.base[v] \in 0..snapBase[v]
        /\ snapBack.base[v] <= after[v] /\ share[v] = after[v] - snapBack.base[v]
        /\ snapCharged[v] \in Nat /\ snapBase[v] \in Nat \ {0} /\ snapCharged[v] <= snapBase[v]
        /\ snapBase[v] <= MaxBase
  BY <1>1, <1>2, <1>6 DEF FairInv, SnapshotsAgree
<1> HIDE DEF after
<1>9. \A v \in Snapshot :
        /\ fees[v] \in 0..snapCharged[v]
        /\ snapBack.fee[v] = FeeShare(snapCharged[v], snapBase[v], snapBack.base[v])
        /\ snapBack.fee[v] \in 0..snapCharged[v]
        /\ snapBack.fee[v] <= fees[v] /\ fees[v] <= snapBack.fee[v] + share[v]
  <2> TAKE v \in Snapshot
  <2>1. snapBack.fee[v] = FeeShare(snapCharged[v], snapBase[v], snapBack.base[v])
    BY DEF FairInv, SnapshotsAgree
  <2>2. fees[v] = FeeShare(snapCharged[v], snapBase[v], after[v])
    OBVIOUS
  <2> HIDE DEF fees
  <2>3. fees[v] \in 0..snapCharged[v] /\ snapBack.fee[v] \in 0..snapCharged[v]
    BY <1>8, <2>1, <2>2, ShareType
  <2>4. snapBack.fee[v] <= fees[v]
    BY <1>8, <2>1, <2>2, ShareMonotone
  <2>5. fees[v] <= snapBack.fee[v] + (after[v] - snapBack.base[v])
    BY <1>8, <2>1, <2>2, ShareStep
  <2> QED BY <1>8, <2>1, <2>3, <2>4, <2>5
<1>10. SharesTypeOK'
  <2>1. after \in [Snapshot -> 0..MaxBase]
    BY <1>1, <1>8 DEF after
  <2>2. fees \in [Snapshot -> 0..MaxBase]
    <3>1. \A v \in Snapshot : fees[v] \in 0..MaxBase
      BY <1>1, <1>8, <1>9
    <3> QED BY <3>1
  <2> HIDE DEF fees
  <2> QED BY <1>1, <1>2, <1>4, <1>6, <1>7, <2>1, <2>2 DEF SharesTypeOK
<1>11. SnapshotsAgree'
  BY <1>7, <1>8 DEF SnapshotsAgree
<1>12. SharesAreFair'
  <2>1. SumFunction(share) = SumFunctionOnSet(share, Snapshot)
    BY <1>6 DEF SumFunction
  <2>2. lastPart'.share = share /\ lastPart'.room = SnapRoom /\ lastPart'.amount = amount
    BY <1>7
  <2> QED BY <1>3, <1>5, <2>1, <2>2 DEF SharesAreFair, Fair
<1>13. FeeFollows
  <2> SUFFICES ASSUME NEW v \in Snapshot
               PROVE  LET fee == snapBack.fee'[v] - snapBack.fee[v]
                      IN  /\ 0 <= fee /\ fee <= lastPart.share'[v]
                          /\ snapBack.base'[v] = snapBase[v] => snapBack.fee'[v] = snapCharged[v]
    BY DEF FeeFollows
  <2>1. /\ snapBack'.fee[v] = fees[v] /\ snapBack'.base[v] = after[v] /\ lastPart'.share[v] = share[v]
    BY <1>7
  <2>2. after[v] = snapBase[v] => fees[v] = snapCharged[v]
    BY <1>8 DEF FeeShare
  <2>3. fees[v] \in Int /\ snapBack.fee[v] \in Int /\ share[v] \in Int
    BY <1>1, <1>6, <1>8, <1>9
  <2> HIDE DEF fees
  <2> QED BY <1>9, <2>1, <2>2, <2>3
<1> QED BY <1>10, <1>11, <1>12, <1>13 DEF FairInv

\* Whatever the parts and their order, the snapshots agree with what was refunded.
THEOREM SharesInvariance == SharesSpec => []FairInv
<1>1. SharesInit => FairInv
  <2> SUFFICES ASSUME SharesInit PROVE FairInv
    OBVIOUS
  <2> DEFINE zero == [v \in Snapshot |-> 0]
  <2>1. /\ snapBase \in [Snapshot -> 1..MaxBase] /\ snapCharged \in [Snapshot -> 0..MaxBase]
        /\ \A v \in Snapshot : snapCharged[v] <= snapBase[v]
        /\ snapBack = [base |-> zero, fee |-> zero]
        /\ lastPart = [amount |-> 0, share |-> zero, room |-> snapBase]
        /\ MaxBase \in Nat
    BY SharesAssumption DEF SharesInit
  <2>2. SharesTypeOK
    BY <2>1 DEF SharesTypeOK
  <2>3. SnapshotsAgree
    BY <2>1, ShareOfNothing DEF SnapshotsAgree
  <2>4. SumFunction(snapBase) \in Nat \ {0}
    <3>1. SumFunction(snapBase) = SumFunctionOnSet(snapBase, Snapshot)
      BY <2>1 DEF SumFunction
    <3>2. \A x \in Snapshot : snapBase[x] \in Nat /\ snapBase[x] >= 1
      BY <2>1
    <3>3. SumFunctionOnSet(snapBase, Snapshot) \in Nat /\ snapBase[1] <= SumFunctionOnSet(snapBase, Snapshot)
      BY <3>2, SnapshotIs, SumNat
    <3> QED BY <3>1, <3>2, <3>3, SnapshotIs
  <2>5. SumFunction(zero) = 0
    <3>1. SumFunction(zero) = SumFunctionOnSet(zero, Snapshot)
      BY DEF SumFunction
    <3>2. \A x \in Snapshot : zero[x] = 0
      OBVIOUS
    <3> HIDE DEF zero
    <3> QED BY <3>1, <3>2, SnapshotIs, SumZero
  <2>6. SharesAreFair
    <3> DEFINE total == SumFunction(snapBase)
    <3>1. \A v \in Snapshot : zero[v] = 0 /\ snapBase[v] \in Nat
      BY <2>1
    <3>2. lastPart.share = zero /\ lastPart.room = snapBase /\ lastPart.amount = 0
      BY <2>1
    <3>3. \A v \in Snapshot : zero[v] * total - 0 * snapBase[v] = 0
      BY <2>4, <3>1
    <3>4. total \in Nat \ {0}
      BY <2>4
    <3> HIDE DEF total, zero
    <3> QED BY <2>5, <3>1, <3>2, <3>3, <3>4 DEF SharesAreFair, total
  <2> QED BY <2>2, <2>3, <2>6 DEF FairInv
<1>2. FairInv /\ [SharesNext]_shareVars => FairInv'
  <2> SUFFICES ASSUME FairInv, [SharesNext]_shareVars PROVE FairInv'
    OBVIOUS
  <2>1. CASE SharesNext
    BY <2>1, PartIsFair DEF SharesNext
  <2>2. CASE UNCHANGED shareVars
    BY <2>2 DEF FairInv, SharesTypeOK, SnapshotsAgree, SharesAreFair, shareVars
  <2> QED BY <2>1, <2>2
<1> QED BY <1>1, <1>2, PTL DEF SharesSpec

\* Each refund in part is split fairly, for any snapshots and any parts before it.
THEOREM RefundsAreSharedFairly == SharesSpec => []SharesAreFair
<1>1. FairInv => SharesAreFair
  BY DEF FairInv
<1> QED BY <1>1, SharesInvariance, PTL

\* The fee given back follows the base refunded, and is no more than the refund takes.
THEOREM FeeAlwaysFollows == SharesSpec => FeeFollowsBase
<1>1. FairInv /\ [SharesNext]_shareVars => [FeeFollows]_shareVars
  BY PartIsFair DEF SharesNext
<1>2. FeeFollowsBase <=> [][FeeFollows]_shareVars
  BY DEF FeeFollowsBase, FeeFollows
<1> QED BY <1>1, <1>2, SharesInvariance, PTL DEF SharesSpec

=============================================================================
