---------------------------- MODULE Withdrawals ----------------------------
(***************************************************************************)
(* The life of a withdrawal: money held from a holder's balance, sent to   *)
(* the payout provider at most once, and then either paid or returned.     *)
(* Source: src/backend/wallets/{withdrawals,payouts,approval_kinds,        *)
(* views_staff,views_payouts}.py, with ledger/posting.py underneath.       *)
(*                                                                         *)
(* The actors: the holder's request (which also tries to send), the        *)
(* 5-minute poll, staff asking the provider, two staff resolving a stuck   *)
(* withdrawal by hand, the fraud team, and the provider, an external       *)
(* system whose answers may be read long before they are applied.  Every   *)
(* process may die between two of its steps; nothing forces the next one.  *)
(***************************************************************************)
EXTENDS Integers, FiniteSets, Functions

CONSTANTS Withdrawal,  \* the withdrawals that may be asked for
          Holder,      \* customers, business owners, third-party riders
          HolderOf,    \* whose withdrawal it is
          Amount,      \* amount_pesewas of each withdrawal
          Opening,     \* what every holder has at first
          TxLimit,     \* withdrawal_per_tx_limit_pesewas
          DailyLimit,  \* withdrawal_daily_limit_pesewas
          MaxBalance,  \* bound: sales stop adding to a balance here
          MaxDebt,     \* bound: how far refunds may push a balance below zero
          Reporting,   \* those whose provider's status call is wired (else NotConnected)
          Simulated    \* those of the simulated provider, whose paid reports need no amount

ASSUME WithdrawalAssumption ==
  /\ IsFiniteSet(Holder)
  /\ HolderOf \in [Withdrawal -> Holder]
  /\ Amount \in [Withdrawal -> Nat \ {0}]
  /\ Opening \in Nat /\ TxLimit \in Nat /\ DailyLimit \in Nat
  /\ MaxBalance \in Nat /\ MaxDebt \in Nat
  /\ Reporting \subseteq Withdrawal /\ Simulated \subseteq Withdrawal

VARIABLES
  status,      \* Withdrawal.status; "none" before the row exists
  balance,     \* the holder's source account
  transit,     \* the withdrawal_in_transit account
  clearing,    \* the provider_clearing account: what the provider holds for us
  journals,    \* the keys of the journals posted
  inGoodOrder, \* holder active, destination live and past cooling, name matching
  sender,      \* the process that claimed it: "claimed", "unsent" or "none"
  provider,    \* external: what the provider did with the payout
  sent,        \* history: how many payout requests left the server
  amountCase,  \* the withdrawal-amount-<ref> fraud case
  cases,       \* the other fraud cases ever raised, <<kind, withdrawal>>
  proposal,    \* the pending two-person resolution: outcome and status it saw
  byHand       \* history: ended by two people on evidence alone, <<outcome, withdrawal>>

money == <<balance, transit, clearing, journals>>
fraud == <<amountCase, cases>>
vars == <<status, money, inGoodOrder, sender, provider, sent, fraud, proposal, byHand>>

Status == {"none", "pending", "processing", "succeeded", "failed", "cancelled"}
Open == {"pending", "processing"}
Final == {"succeeded", "failed", "cancelled"}
Counted == {"pending", "processing", "succeeded"}

\* What a report can say of the amount: nothing, zero, what was sent, something else.
Report == [says: {"succeeded", "failed"}, amount: {"absent", "zero", "net", "other"}]
Outcome == {"failed", "paid"}
NoProposal == [outcome |-> "none", before |-> "none"]
Proposal == [outcome: Outcome, before: Open] \cup {NoProposal}
JournalKey == {"hold", "paid", "reversed"} \X Withdrawal
CaseKind == {"late_paid", "late_failed", "unsent_report"}

Init ==
  /\ status = [w \in Withdrawal |-> "none"]
  /\ balance = [h \in Holder |-> Opening]
  /\ transit = 0
  /\ clearing = Cardinality(Holder) * Opening
  /\ journals = {}
  /\ inGoodOrder = [h \in Holder |-> TRUE]
  /\ sender = [w \in Withdrawal |-> "none"]
  /\ provider = [w \in Withdrawal |-> "unknown"]
  /\ sent = [w \in Withdrawal |-> 0]
  /\ amountCase = [w \in Withdrawal |-> "none"]
  /\ cases = {}
  /\ proposal = [w \in Withdrawal |-> NoProposal]
  /\ byHand = {}

-----------------------------------------------------------------------------
(* The ledger and the fraud desk, as these handlers call them.             *)

\* posting.post: a journal is written once per key; an account that may not go
\* below zero refuses.  Provider clearing is exempt for a confirmed payout.
Post(key, holder, toHolder, toTransit, toClearing) ==
  IF key \in journals
  THEN UNCHANGED money
  ELSE /\ transit + toTransit >= 0
       /\ journals' = journals \cup {key}
       /\ balance' = [balance EXCEPT ![holder] = @ + toHolder]
       /\ transit' = transit + toTransit
       /\ clearing' = clearing + toClearing

PostHold(w) == Post(<<"hold", w>>, HolderOf[w], -Amount[w], Amount[w], 0)
PostPaid(w) == Post(<<"paid", w>>, HolderOf[w], 0, -Amount[w], -Amount[w])
\* Slip: the return credits the holder and forgets to debit transit.
PostReversedOneSided(w) == Post(<<"reversed", w>>, HolderOf[w], Amount[w], 0, 0)
PostReversed(w) == Post(<<"reversed", w>>, HolderOf[w], Amount[w], -Amount[w], 0)

SetStatus(w, s) == status' = [status EXCEPT ![w] = s]

\* fraud.raise_flag under the withdrawal-amount key: an open case is reused, a
\* resolved one is followed by a new one.
RaiseAmountCase(w) == amountCase' = [amountCase EXCEPT ![w] = "open"]

\* Slip: the row is closed and the journal not posted.
CloseRowOnly(w, s) == SetStatus(w, s) /\ UNCHANGED money

\* close(): the one way money goes back.
Close(w, s) ==
  /\ PostReversed(w)
  /\ SetStatus(w, s)

\* close() refuses a sent withdrawal with an open amount case and returns it unchanged.
Frozen(w) == status[w] = "processing" /\ amountCase[w] = "open"

-----------------------------------------------------------------------------
(* The holder.                                                             *)

CountedTotal(h) ==
  SumFunctionOnSet(Amount, {w \in Withdrawal : HolderOf[w] = h /\ status[w] \in Counted})

\* withdrawals.request: every check, the row and the hold, in one transaction.
Request(w) ==
  LET h == HolderOf[w] IN
  /\ status[w] = "none"
  /\ inGoodOrder[h]
  /\ Amount[w] <= TxLimit
  /\ balance[h] >= Amount[w]
  /\ CountedTotal(h) + Amount[w] <= DailyLimit
  /\ PostHold(w)
  /\ SetStatus(w, "pending")
  /\ UNCHANGED <<inGoodOrder, sender, provider, sent, fraud, proposal, byHand>>

\* withdrawals.cancel: only one not sent yet.
Cancel(w) ==
  /\ status[w] = "pending"
  /\ Close(w, "cancelled")
  /\ UNCHANGED <<inGoodOrder, sender, provider, sent, fraud, proposal, byHand>>

-----------------------------------------------------------------------------
(* Sending: payouts.submit, run by the request and by the poll alike.      *)

\* Slip: any open withdrawal can be claimed, one already sent included.
ClaimAnyOpen(w) ==
  /\ status[w] \in Open
  /\ SetStatus(w, "processing")
  /\ sender' = [sender EXCEPT ![w] = "claimed"]
  /\ UNCHANGED <<money, inGoodOrder, provider, sent, fraud, proposal, byHand>>

\* claim(): under the row lock, so one caller wins; what request() checked is
\* checked again and the money goes back when it no longer holds.
Claim(w) ==
  /\ status[w] = "pending"
  /\ \/ /\ inGoodOrder[HolderOf[w]]
        /\ SetStatus(w, "processing")
        /\ sender' = [sender EXCEPT ![w] = "claimed"]
        /\ UNCHANGED money
     \/ /\ ~inGoodOrder[HolderOf[w]]
        /\ Close(w, "cancelled")
        /\ UNCHANGED sender
  /\ UNCHANGED <<inGoodOrder, provider, sent, fraud, proposal, byHand>>

\* The provider call. The request leaves the server and may be lost on the way;
\* the answer, or the lack of one, is one of the reports below.
Send(w) ==
  /\ sender[w] = "claimed"
  /\ sender' = [sender EXCEPT ![w] = "none"]
  /\ sent' = [sent EXCEPT ![w] = @ + 1]
  /\ \/ UNCHANGED provider
     \/ /\ provider[w] = "unknown"
        /\ provider' = [provider EXCEPT ![w] = "working"]
  /\ UNCHANGED <<status, money, inGoodOrder, fraud, proposal, byHand>>

\* NotConnected: nothing left the server.
NotConnected(w) ==
  /\ sender[w] = "claimed"
  /\ sender' = [sender EXCEPT ![w] = "unsent"]
  /\ UNCHANGED <<status, money, inGoodOrder, provider, sent, fraud, proposal, byHand>>

\* _unsent(): the hold goes back if the withdrawal is still waiting.
Unsent(w) ==
  /\ sender[w] = "unsent"
  /\ sender' = [sender EXCEPT ![w] = "none"]
  /\ IF status[w] = "processing" /\ ~Frozen(w)
     THEN Close(w, "failed")
     ELSE UNCHANGED <<status, money>>
  /\ UNCHANGED <<inGoodOrder, provider, sent, fraud, proposal, byHand>>

\* The sending process dies (deploy, kill, lost worker) before its next step.
Die(w) ==
  /\ sender[w] # "none"
  /\ sender' = [sender EXCEPT ![w] = "none"]
  /\ UNCHANGED <<status, money, inGoodOrder, provider, sent, fraud, proposal, byHand>>

-----------------------------------------------------------------------------
(* The provider, and the reports it gives.                                 *)

\* External: a payout it took ends paid in full, paid short, or refused.
ProviderDecides(w) ==
  /\ provider[w] = "working"
  /\ \E end \in {"paid", "refused"} \cup (IF w \in Simulated THEN {} ELSE {"shortpaid"}) :
       provider' = [provider EXCEPT ![w] = end]
  /\ UNCHANGED <<status, money, inGoodOrder, sender, sent, fraud, proposal, byHand>>

\* The final reports the provider may give of a withdrawal. It is honest: it says
\* "succeeded" only of money that left, and names a zero or no amount with
\* "failed" only when none did. It may leave the amount out.
Answers(w) ==
  CASE provider[w] = "paid"      -> [says: {"succeeded"}, amount: {"net", "absent"}]
    [] provider[w] = "shortpaid" -> [says: {"succeeded", "failed"}, amount: {"other"}]
    [] provider[w] = "refused"   -> [says: {"failed"}, amount: {"zero", "absent", "other"}]
    [] OTHER                     -> {}

\* Slips: a failed report is believed whatever amount it names; a paid one too.
MismatchPaidOnly(w, r) == r.says = "succeeded" /\ r.amount # "net"
MismatchFailedOnly(w, r) == r.says = "failed" /\ r.amount \in {"net", "other"}

\* A report apply_result files as an amount case instead of applying it.
Mismatch(w, r) ==
  \/ r.says = "succeeded" /\ r.amount = "absent" /\ w \notin Simulated
  \/ r.says = "succeeded" /\ r.amount \in {"zero", "other"}
  \/ r.says = "failed" /\ r.amount \in {"net", "other"}

\* A report of a withdrawal already over posts nothing; a contradiction opens a case.
LateCases(w, r) ==
  IF r.says = "succeeded" /\ status[w] # "succeeded" THEN {<<"late_paid", w>>}
  ELSE IF r.says = "failed" /\ status[w] = "succeeded" THEN {<<"late_failed", w>>}
  ELSE {}

Settle(w, r) ==
  IF r.says = "failed"
  THEN Close(w, "failed")
  ELSE PostPaid(w) /\ SetStatus(w, "succeeded")

\* apply_result(), under the row lock.
ApplyResult(w, r) ==
  \/ /\ status[w] \in Final
     /\ cases' = cases \cup LateCases(w, r)
     /\ UNCHANGED <<status, money, amountCase>>
  \/ /\ status[w] = "pending"
     /\ cases' = cases \cup {<<"unsent_report", w>>}
     /\ UNCHANGED <<status, money, amountCase>>
  \/ /\ status[w] = "processing" /\ ~Frozen(w) /\ Mismatch(w, r)
     /\ RaiseAmountCase(w)
     /\ UNCHANGED <<status, money, cases>>
  \/ /\ status[w] = "processing" /\ ~Frozen(w) /\ ~Mismatch(w, r)
     /\ Settle(w, r)
     /\ UNCHANGED fraud

\* The answer of the payout call itself, or one some process read earlier and
\* applies only now: duplicated, delayed, after the withdrawal has ended.
DelayedReport(w) ==
  /\ \E r \in Answers(w) : ApplyResult(w, r)
  /\ UNCHANGED <<inGoodOrder, sender, provider, sent, proposal, byHand>>

\* A misrouted report of a withdrawal that was never sent.
StrayReport(w) ==
  /\ status[w] = "pending"
  /\ \E r \in Report : ApplyResult(w, r)
  /\ UNCHANGED <<inGoodOrder, sender, provider, sent, proposal, byHand>>

\* Slip: the poll applies good news only.
PollGoodNews(w) ==
  /\ w \in Reporting
  /\ status[w] = "processing" /\ amountCase[w] = "none"
  /\ \E r \in Answers(w) : r.says = "succeeded" /\ ApplyResult(w, r)
  /\ UNCHANGED <<inGoodOrder, sender, provider, sent, proposal, byHand>>

\* The 5-minute poll asks about what was sent, except one that ever had an amount case.
Poll(w) ==
  /\ w \in Reporting
  /\ status[w] = "processing" /\ amountCase[w] = "none"
  /\ \E r \in Answers(w) : ApplyResult(w, r)
  /\ UNCHANGED <<inGoodOrder, sender, provider, sent, proposal, byHand>>

-----------------------------------------------------------------------------
(* Staff: resolving a stuck withdrawal takes two people.                   *)

\* gate(): stuck, and no open amount case. How long it has been stuck is not modelled.
Gate(w) == status[w] \in Open /\ amountCase[w] # "open"

\* The resolve view asks the provider first; a final answer settles it, no request is made.
StaffAsk(w) ==
  /\ w \in Reporting
  /\ Gate(w) /\ status[w] = "processing"
  /\ \E r \in Answers(w) : ApplyResult(w, r)
  /\ UNCHANGED <<inGoodOrder, sender, provider, sent, proposal, byHand>>

\* Otherwise the proposal is checked and submitted, one pending at a time. While the
\* provider says it is still working "failed" is refused; one never sent can only fail.
Propose(w, outcome) ==
  /\ Gate(w)
  /\ proposal[w] = NoProposal
  /\ status[w] = "pending" => outcome = "failed"
  /\ status[w] = "processing" /\ w \in Reporting => outcome = "paid"
  /\ proposal' = [proposal EXCEPT ![w] = [outcome |-> outcome, before |-> status[w]]]
  /\ UNCHANGED <<status, money, inGoodOrder, sender, provider, sent, fraud, byHand>>

\* What check() lets stand on the evidence alone: no provider answer, or one still
\* in progress for a proposal that it was paid.
EvidenceStands(w) ==
  \/ status[w] = "pending"
  \/ w \notin Reporting
  \/ proposal[w].outcome = "paid" /\ Answers(w) = {}

Says(outcome) == IF outcome = "paid" THEN "succeeded" ELSE "failed"

\* approve() and the kind's apply(): stale check, gate, the provider asked again, then the
\* end. An answer that ends it otherwise, or whose amount is wrong, is refused, and all that
\* apply() did - an amount case too - is rolled back: no step.
Approve(w) ==
  LET outcome == proposal[w].outcome IN
  /\ proposal[w] # NoProposal
  /\ status[w] = proposal[w].before
  /\ Gate(w)
  /\ \/ /\ EvidenceStands(w)
        /\ Settle(w, [says |-> Says(outcome), amount |-> IF outcome = "paid" THEN "net" ELSE "absent"])
        /\ byHand' = byHand \cup {<<outcome, w>>}
     \/ /\ ~EvidenceStands(w)
        /\ \E r \in Answers(w) : r.says = Says(outcome) /\ ~Mismatch(w, r) /\ Settle(w, r)
        /\ UNCHANGED byHand
  /\ proposal' = [proposal EXCEPT ![w] = NoProposal]
  /\ UNCHANGED <<inGoodOrder, sender, provider, sent, fraud>>

\* reject() by the approver or cancel() by the maker.
DropProposal(w) ==
  /\ proposal[w] # NoProposal
  /\ proposal' = [proposal EXCEPT ![w] = NoProposal]
  /\ UNCHANGED <<status, money, inGoodOrder, sender, provider, sent, fraud, byHand>>

\* The fraud team confirms or dismisses the amount case.
ResolveAmountCase(w) ==
  /\ amountCase[w] = "open"
  /\ amountCase' = [amountCase EXCEPT ![w] = "resolved"]
  /\ UNCHANGED <<status, money, inGoodOrder, sender, provider, sent, cases, proposal, byHand>>

-----------------------------------------------------------------------------
(* The rest of the platform, as withdrawals see it.                        *)

\* A release or a top-up credits the balance.
Earn(h) ==
  /\ balance[h] < MaxBalance
  /\ balance' = [balance EXCEPT ![h] = @ + 1]
  /\ clearing' = clearing + 1
  /\ UNCHANGED <<status, transit, journals, inGoodOrder, sender, provider, sent, fraud, proposal, byHand>>

\* A refund takes back released money, below zero if it must (MAY_GO_NEGATIVE).
TakeBack(h) ==
  /\ balance[h] > -MaxDebt
  /\ balance' = [balance EXCEPT ![h] = @ - 1]
  /\ clearing' = clearing - 1
  /\ UNCHANGED <<status, transit, journals, inGoodOrder, sender, provider, sent, fraud, proposal, byHand>>

\* The holder is suspended or reinstated, the destination removed or replaced.
StandingChanges(h) ==
  /\ inGoodOrder' = [inGoodOrder EXCEPT ![h] = ~@]
  /\ UNCHANGED <<status, money, sender, provider, sent, fraud, proposal, byHand>>

Next ==
  \/ \E w \in Withdrawal :
       \/ Request(w) \/ Cancel(w)
       \/ Claim(w) \/ Send(w) \/ NotConnected(w) \/ Unsent(w) \/ Die(w)
       \/ ProviderDecides(w)
       \/ DelayedReport(w) \/ StrayReport(w) \/ Poll(w)
       \/ StaffAsk(w) \/ Approve(w) \/ DropProposal(w)
       \/ \E outcome \in Outcome : Propose(w, outcome)
       \/ ResolveAmountCase(w)
  \/ \E h \in Holder : Earn(h) \/ TakeBack(h) \/ StandingChanges(h)

Spec == Init /\ [][Next]_vars

\* The poll runs every five minutes on a Celery beat: it sends what is held and asks
\* about what was sent. The provider ends what it took. Nobody else is obliged to act.
Fairness ==
  \A w \in Withdrawal :
    WF_vars(Claim(w)) /\ WF_vars(Poll(w)) /\ WF_vars(ProviderDecides(w))

FairSpec == Spec /\ Fairness

-----------------------------------------------------------------------------
TypeOK ==
  /\ status \in [Withdrawal -> Status]
  /\ balance \in [Holder -> Int]
  /\ transit \in Int
  /\ clearing \in Int
  /\ journals \subseteq JournalKey
  /\ inGoodOrder \in [Holder -> BOOLEAN]
  /\ sender \in [Withdrawal -> {"none", "claimed", "unsent"}]
  /\ provider \in [Withdrawal -> {"unknown", "working", "paid", "shortpaid", "refused"}]
  /\ sent \in [Withdrawal -> Nat]
  /\ amountCase \in [Withdrawal -> {"none", "open", "resolved"}]
  /\ cases \subseteq CaseKind \X Withdrawal
  /\ proposal \in [Withdrawal -> Proposal]
  /\ byHand \subseteq Outcome \X Withdrawal

\* In transit is exactly what the open withdrawals hold, at every moment: what the nightly
\* reconciliation (_in_transit) takes for granted. And what the provider holds for us is
\* what holders have plus what is in transit, whatever the order of holds, payouts, returns,
\* sales and refunds.
BooksBalance ==
  /\ transit = SumFunctionOnSet(Amount, {w \in Withdrawal : status[w] \in Open})
  /\ clearing = SumFunction(balance) + transit

\* A withdrawal's journals say what its status says: it is paid or returned, never
\* both, and each exactly when the row says it ended that way.
JournalsMatchStatus ==
  \A w \in Withdrawal :
    /\ <<"hold", w>> \in journals <=> status[w] # "none"
    /\ <<"paid", w>> \in journals <=> status[w] = "succeeded"
    /\ <<"reversed", w>> \in journals <=> status[w] \in {"failed", "cancelled"}

\* However the request, the poll, a death and staff interleave, one payout request
\* at most leaves the server for a withdrawal (claim() under the row lock).
SentAtMostOnce == \A w \in Withdrawal : sent[w] <= 1

\* The engine keeps the promise of PayoutPromise: see there.
Phase(s) ==
  CASE s \in Open -> "held"
    [] s \in {"failed", "cancelled"} -> "returned"
    [] s = "succeeded" -> "paid"
    [] OTHER -> "none"

Promise == INSTANCE PayoutPromise
  WITH phase <- [w \in Withdrawal |-> Phase(status[w])], wallet <- balance

\* Every step is a step of the abstract specification, or none: money asked for is
\* held at once and then paid or given back, once and for good.
KeepsPromise == Promise!Spec

\* Money that left is never also given back to be withdrawn again, but for one way the
\* code accepts: two people failed it on evidence with no provider answer to ask for.
PaidNeverReturned ==
  \A w \in Withdrawal :
    provider[w] \in {"paid", "shortpaid"} /\ status[w] \in {"failed", "cancelled"}
      => w \notin Reporting /\ <<"failed", w>> \in byHand

\* A payout is booked as paid in full only when the provider paid it in full, or two
\* people said so: a short payment, or a report naming no amount, never books it.
BookedOnlyIfPaid ==
  \A w \in Withdrawal :
    status[w] = "succeeded" => provider[w] = "paid" \/ <<"paid", w>> \in byHand

\* A final status never changes (the model's docstring), whatever report comes later.
FinalIsFinal ==
  [][\A w \in Withdrawal : status[w] \in Final => status'[w] = status[w]]_vars

\* While an amount case is open nothing ends the withdrawal: no report, no staff.
FrozenWhileDisputed ==
  [][\A w \in Withdrawal : Frozen(w) => status'[w] = status[w]]_vars

\* With nobody but the poll at work: a held withdrawal is sent, returned or cancelled in
\* the end, though the process that made it died, and one the provider took ends or is put
\* before a person.
SettledInTheEnd ==
  /\ \A w \in Withdrawal : status[w] = "pending" ~> status[w] # "pending"
  /\ \A w \in Reporting :
       provider[w] = "working" ~> status[w] \in Final \/ amountCase[w] # "none"

=============================================================================
