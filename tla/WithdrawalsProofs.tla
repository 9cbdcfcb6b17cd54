------------------------- MODULE WithdrawalsProofs -------------------------
(***************************************************************************)
(* For any number of withdrawals, holders and amounts: the engine is well  *)
(* typed, its journals agree with its rows, each payout request is sent at *)
(* most once, money that left never comes back, a disputed withdrawal does *)
(* not move, a final status is final, and the whole implements             *)
(* PayoutPromise.                                                          *)
(***************************************************************************)
EXTENDS Withdrawals, MoneyLemmas

Returned == {"failed", "cancelled"}

\* Where the one payout request is: nobody has claimed a withdrawal that is not
\* processing yet, and a process still holding it has not sent it.
SendingInv ==
  \A w \in Withdrawal :
    /\ status[w] \in {"none", "pending"} => sender[w] = "none" /\ sent[w] = 0
    /\ sender[w] # "none" => sent[w] = 0
    /\ sent[w] <= 1
    /\ sent[w] = 0 => provider[w] = "unknown"

\* Why money went back: refused by the provider, never sent and not about to be, or
\* by two people with no provider to ask.
GoodReason(w) ==
  \/ provider[w] = "refused"
  \/ sent[w] = 0 /\ sender[w] # "claimed"
  \/ w \notin Reporting /\ <<"failed", w>> \in byHand

ReturnInv == \A w \in Withdrawal : status[w] \in Returned => GoodReason(w)

IInv ==
  /\ TypeOK
  /\ JournalsMatchStatus
  /\ SendingInv
  /\ ReturnInv
  /\ BookedOnlyIfPaid

\* The step ends withdrawal w with status s, journal and balance in keeping.
Ends(w, s) ==
  /\ status[w] \in Open
  /\ status' = [status EXCEPT ![w] = s]
  /\ journals' = journals \cup {<<IF s = "succeeded" THEN "paid" ELSE "reversed", w>>}
  /\ balance' = IF s = "succeeded" THEN balance
                ELSE [balance EXCEPT ![HolderOf[w]] = @ + Amount[w]]
  /\ transit' = transit - Amount[w]
  /\ clearing' = IF s = "succeeded" THEN clearing - Amount[w] ELSE clearing

USE WithdrawalAssumption DEF WithdrawalAssumption

-----------------------------------------------------------------------------
(* What the ledger calls do, given that the journals match the rows.       *)

\* A journal whose key is new is written, whatever it moves.
LEMMA PostEffect ==
  ASSUME TypeOK, NEW key, NEW h \in Holder,
         NEW n \in Int, NEW t \in Int, NEW c \in Int,
         key \notin journals, Post(key, h, n, t, c)
  PROVE  /\ journals' = journals \cup {key}
         /\ balance' = [balance EXCEPT ![h] = @ + n]
         /\ transit' = transit + t /\ clearing' = clearing + c
BY DEF TypeOK, Post

\* The hold of a new withdrawal moves its amount from the holder into transit.
LEMMA HoldEffect ==
  ASSUME TypeOK, JournalsMatchStatus,
         NEW w \in Withdrawal, status[w] = "none", PostHold(w)
  PROVE  /\ journals' = journals \cup {<<"hold", w>>}
         /\ balance' = [balance EXCEPT ![HolderOf[w]] = @ - Amount[w]]
         /\ transit' = transit + Amount[w] /\ clearing' = clearing
<1>1. <<"hold", w>> \notin journals
  BY DEF JournalsMatchStatus
<1>2. HolderOf[w] \in Holder /\ Amount[w] \in Nat /\ clearing + 0 = clearing
  BY DEF TypeOK
<1>3. /\ journals' = journals \cup {<<"hold", w>>}
      /\ balance' = [balance EXCEPT ![HolderOf[w]] = @ + (-Amount[w])]
      /\ transit' = transit + Amount[w] /\ clearing' = clearing + 0
  BY <1>1, <1>2, PostEffect DEF PostHold
<1>4. balance[HolderOf[w]] + (-Amount[w]) = balance[HolderOf[w]] - Amount[w]
  BY <1>2 DEF TypeOK
<1> QED
  BY <1>2, <1>3, <1>4

\* close() on an open withdrawal returns the money and ends the row.
LEMMA CloseEnds ==
  ASSUME TypeOK, JournalsMatchStatus,
         NEW w \in Withdrawal, NEW s \in Returned, status[w] \in Open, Close(w, s)
  PROVE  Ends(w, s)
<1>1. <<"reversed", w>> \notin journals
  BY DEF JournalsMatchStatus, Open
<1>2. /\ HolderOf[w] \in Holder /\ Amount[w] \in Int /\ -Amount[w] \in Int /\ 0 \in Int
      /\ transit + (-Amount[w]) = transit - Amount[w] /\ clearing + 0 = clearing
  BY DEF TypeOK
<1>3. PostReversed(w) /\ status' = [status EXCEPT ![w] = s]
  BY DEF Close, SetStatus
<1>4. /\ journals' = journals \cup {<<"reversed", w>>}
      /\ balance' = [balance EXCEPT ![HolderOf[w]] = @ + Amount[w]]
      /\ transit' = transit + (-Amount[w]) /\ clearing' = clearing + 0
  BY <1>1, <1>2, <1>3, PostEffect DEF PostReversed
<1> QED
  BY <1>2, <1>3, <1>4 DEF Ends, Returned

\* A final report applied to an open withdrawal ends it as it says.
LEMMA SettleEnds ==
  ASSUME TypeOK, JournalsMatchStatus,
         NEW w \in Withdrawal, NEW r, r.says \in {"succeeded", "failed"},
         status[w] \in Open, Settle(w, r)
  PROVE  Ends(w, r.says)
<1>1. CASE r.says = "failed"
  BY <1>1, CloseEnds DEF Settle, Returned
<1>2. CASE r.says = "succeeded"
  <2>1. PostPaid(w) /\ status' = [status EXCEPT ![w] = "succeeded"]
    BY <1>2 DEF Settle, SetStatus
  <2>2. <<"paid", w>> \notin journals
    BY DEF JournalsMatchStatus, Open
  <2>3. /\ HolderOf[w] \in Holder /\ -Amount[w] \in Int /\ 0 \in Int
        /\ transit + (-Amount[w]) = transit - Amount[w] /\ clearing + (-Amount[w]) = clearing - Amount[w]
    BY DEF TypeOK
  <2>4. /\ journals' = journals \cup {<<"paid", w>>}
        /\ balance' = [balance EXCEPT ![HolderOf[w]] = @ + 0]
        /\ transit' = transit + (-Amount[w]) /\ clearing' = clearing + (-Amount[w])
    BY <2>1, <2>2, <2>3, PostEffect DEF PostPaid
  <2>5. balance' = balance
    BY <2>3, <2>4 DEF TypeOK
  <2> QED
    BY <1>2, <2>1, <2>3, <2>4, <2>5 DEF Ends
<1> QED
  BY <1>1, <1>2

-----------------------------------------------------------------------------
(* What the provider's reports can do.                                     *)

\* A report that passes the amount check is the truth: it says what the provider did.
LEMMA MatchedIsTrue ==
  ASSUME NEW w \in Withdrawal, NEW r \in Answers(w)
  PROVE  /\ r \in Report
         /\ ~Mismatch(w, r) => provider[w] = IF r.says = "failed" THEN "refused" ELSE "paid"
BY DEF Answers, Mismatch, Report

\* One final answer handled by apply_result: nothing moves, or it ends a withdrawal
\* that was sent and is in no open dispute, and ends it truly.
Answered(w) ==
  \/ UNCHANGED <<status, money>>
  \/ /\ status[w] = "processing" /\ ~Frozen(w)
     /\ \E s \in {"succeeded", "failed"} :
          /\ Ends(w, s)
          /\ provider[w] = IF s = "failed" THEN "refused" ELSE "paid"

FraudTyped ==
  /\ amountCase \in [Withdrawal -> {"none", "open", "resolved"}]
  /\ cases \subseteq CaseKind \X Withdrawal

\* A final answer applied leaves the row alone, or ends it as the answer says and as the
\* provider did.
LEMMA AnswerEffect ==
  ASSUME TypeOK, JournalsMatchStatus, NEW w \in Withdrawal,
         NEW r \in Answers(w), ApplyResult(w, r)
  PROVE  Answered(w) /\ FraudTyped'
<1>1. CASE status[w] \in Final /\ cases' = cases \cup LateCases(w, r)
           /\ UNCHANGED <<status, money, amountCase>>
  <2>1. LateCases(w, r) \subseteq CaseKind \X Withdrawal
    BY DEF LateCases, CaseKind
  <2> QED
    BY <1>1, <2>1 DEF Answered, FraudTyped, TypeOK
<1>2. CASE status[w] = "pending" /\ cases' = cases \cup {<<"unsent_report", w>>}
           /\ UNCHANGED <<status, money, amountCase>>
  BY <1>2 DEF Answered, FraudTyped, TypeOK, CaseKind
<1>3. CASE RaiseAmountCase(w)
           /\ UNCHANGED <<status, money, cases>>
  BY <1>3 DEF Answered, FraudTyped, TypeOK, RaiseAmountCase
<1>4. CASE status[w] = "processing" /\ ~Frozen(w) /\ ~Mismatch(w, r)
           /\ Settle(w, r) /\ UNCHANGED fraud
  <2>1. r.says \in {"succeeded", "failed"}
    BY MatchedIsTrue DEF Report
  <2>2. Ends(w, r.says)
    BY <1>4, <2>1, SettleEnds DEF Open
  <2>3. provider[w] = IF r.says = "failed" THEN "refused" ELSE "paid"
    BY <1>4, MatchedIsTrue
  <2> QED
    BY <1>4, <2>1, <2>2, <2>3 DEF Answered, FraudTyped, TypeOK, fraud
<1> QED
  BY <1>1, <1>2, <1>3, <1>4 DEF ApplyResult

\* A stray report, of a withdrawal never sent, moves nothing.
LEMMA StrayEffect ==
  ASSUME TypeOK, NEW w \in Withdrawal, StrayReport(w)
  PROVE  UNCHANGED <<status, money>> /\ FraudTyped'
<1>1. PICK r \in Report : ApplyResult(w, r)
  BY DEF StrayReport
<1>2. cases' = cases \cup {<<"unsent_report", w>>}
      /\ UNCHANGED <<status, money, amountCase>>
  BY <1>1 DEF StrayReport, ApplyResult, Final
<1> QED
  BY <1>2 DEF FraudTyped, TypeOK, CaseKind

-----------------------------------------------------------------------------
(* How the parts of the invariant survive the kinds of step there are.     *)

Rest == SendingInv /\ ReturnInv /\ BookedOnlyIfPaid

\* A step that ends w keeps the rows typed and the journals in step with them.
LEMMA EndKeepsRows ==
  ASSUME TypeOK, JournalsMatchStatus,
         NEW w \in Withdrawal, NEW s \in Final, Ends(w, s)
  PROVE  /\ status' \in [Withdrawal -> Status]
         /\ balance' \in [Holder -> Int]
         /\ transit' \in Int /\ clearing' \in Int
         /\ journals' \subseteq JournalKey
         /\ JournalsMatchStatus'
<1>1. status' \in [Withdrawal -> Status]
  BY DEF TypeOK, Ends, Final, Status
<1>2. balance' \in [Holder -> Int]
  BY DEF TypeOK, Ends
<1>3. transit' \in Int /\ clearing' \in Int
  BY DEF TypeOK, Ends
<1>4. journals' \subseteq JournalKey
  BY DEF TypeOK, Ends, JournalKey
<1>5. ASSUME NEW v \in Withdrawal
      PROVE  /\ <<"hold", v>> \in journals' <=> status'[v] # "none"
             /\ <<"paid", v>> \in journals' <=> status'[v] = "succeeded"
             /\ <<"reversed", v>> \in journals' <=> status'[v] \in {"failed", "cancelled"}
  <2>1. CASE v = w
    BY <2>1 DEF TypeOK, JournalsMatchStatus, Ends, Open, Final
  <2>2. CASE v # w
    BY <2>2 DEF TypeOK, JournalsMatchStatus, Ends
  <2> QED
    BY <2>1, <2>2
<1> QED
  BY <1>1, <1>2, <1>3, <1>4, <1>5 DEF JournalsMatchStatus

\* A step that ends w for a good reason, or with a payment made or vouched for, and
\* sends nothing, keeps the rest.
LEMMA EndKeepsRest ==
  ASSUME TypeOK, Rest,
         NEW w \in Withdrawal, NEW s \in Final, Ends(w, s),
         UNCHANGED <<sent, provider>>, byHand \subseteq byHand',
         sender' = sender \/ sender' = [sender EXCEPT ![w] = "none"],
         s \in Returned => GoodReason(w)',
         s = "succeeded" => provider[w] = "paid" \/ <<"paid", w>> \in byHand'
  PROVE  Rest'
<1>1. status' = [status EXCEPT ![w] = s] /\ s \notin {"none", "pending"}
  BY DEF Ends, Final
<1>2. SendingInv'
  BY <1>1 DEF Rest, SendingInv, TypeOK
<1>3. ReturnInv'
  BY <1>1 DEF Rest, ReturnInv, GoodReason, TypeOK
<1>4. BookedOnlyIfPaid'
  BY <1>1 DEF Rest, BookedOnlyIfPaid, TypeOK
<1> QED
  BY <1>2, <1>3, <1>4 DEF Rest

\* A step that leaves the rows, the senders and the provider alone keeps them all.
LEMMA StillKeepsRest ==
  ASSUME Rest, UNCHANGED <<status, sender, sent, provider, byHand>>
  PROVE  Rest'
BY DEF Rest, SendingInv, ReturnInv, GoodReason, BookedOnlyIfPaid

\* A final answer applied keeps the invariant, whoever fetched it.
LEMMA AnsweredKeepsIInv ==
  ASSUME IInv, NEW w \in Withdrawal, Answered(w), FraudTyped',
         UNCHANGED <<inGoodOrder, sender, provider, sent, proposal, byHand>>
  PROVE  IInv'
<1> USE DEF IInv
<1>1. CASE UNCHANGED <<status, money>>
  <2>1. Rest'
    BY <1>1, StillKeepsRest DEF Rest
  <2> QED
    BY <1>1, <2>1 DEF Rest, TypeOK, FraudTyped, money, JournalsMatchStatus
<1>2. ASSUME NEW s \in {"succeeded", "failed"}, Ends(w, s),
             provider[w] = IF s = "failed" THEN "refused" ELSE "paid"
      PROVE  IInv'
  <2>1. s \in Final
    BY DEF Final
  <2>2. s \in Returned => GoodReason(w)'
    BY <1>2 DEF Returned, GoodReason
  <2>3. Rest'
    BY <1>2, <2>1, <2>2, EndKeepsRest DEF Rest
  <2> QED
    BY <1>2, <2>1, <2>3, EndKeepsRows DEF Rest, TypeOK, FraudTyped
<1> QED
  BY <1>1, <1>2 DEF Answered

-----------------------------------------------------------------------------
(* The invariant is inductive.                                             *)

\* With no withdrawal asked for, the invariant holds.
LEMMA InitIInv ==
  ASSUME Init
  PROVE  IInv
<1>1. clearing \in Int
  BY FS_CardinalityType DEF Init
<1>2. TypeOK
  BY <1>1 DEF Init, TypeOK, Status, Proposal
<1> QED
  BY <1>2 DEF Init, IInv, JournalsMatchStatus, SendingInv, ReturnInv, BookedOnlyIfPaid, Returned

\* The holder's own steps.
LEMMA HolderKeepsIInv ==
  ASSUME IInv, NEW w \in Withdrawal, Request(w) \/ Cancel(w)
  PROVE  IInv'
<1> USE DEF IInv
<1>1. CASE Request(w)
  <2>1. /\ journals' = journals \cup {<<"hold", w>>}
        /\ balance' = [balance EXCEPT ![HolderOf[w]] = @ - Amount[w]]
        /\ transit' = transit + Amount[w] /\ clearing' = clearing
    BY <1>1, HoldEffect DEF Request
  <2>2. status[w] = "none" /\ status' = [status EXCEPT ![w] = "pending"]
    BY <1>1 DEF Request, SetStatus
  <2>3. UNCHANGED <<inGoodOrder, sender, provider, sent, amountCase, cases, proposal, byHand>>
    BY <1>1 DEF Request, fraud
  <2>4. TypeOK'
    BY <2>1, <2>2, <2>3 DEF TypeOK, Status, JournalKey
  <2>5. ASSUME NEW v \in Withdrawal
        PROVE  /\ <<"hold", v>> \in journals' <=> status'[v] # "none"
               /\ <<"paid", v>> \in journals' <=> status'[v] = "succeeded"
               /\ <<"reversed", v>> \in journals' <=> status'[v] \in {"failed", "cancelled"}
    <3>1. CASE v = w
      BY <2>1, <2>2, <3>1 DEF TypeOK, JournalsMatchStatus
    <3>2. CASE v # w
      BY <2>1, <2>2, <3>2 DEF TypeOK, JournalsMatchStatus
    <3> QED
      BY <3>1, <3>2
  <2>6. SendingInv' /\ ReturnInv' /\ BookedOnlyIfPaid'
    BY <2>2, <2>3 DEF TypeOK, SendingInv, ReturnInv, GoodReason, BookedOnlyIfPaid, Returned
  <2> QED
    BY <2>4, <2>5, <2>6 DEF JournalsMatchStatus
<1>2. CASE Cancel(w)
  <2>1. Ends(w, "cancelled")
    BY <1>2, CloseEnds DEF Cancel, Open, Returned
  <2>2. UNCHANGED <<inGoodOrder, sender, provider, sent, amountCase, cases, proposal, byHand>>
    BY <1>2 DEF Cancel, fraud
  <2>3. GoodReason(w)'
    BY <1>2, <2>2 DEF Cancel, SendingInv, GoodReason
  <2>4. "cancelled" \in Final
    BY DEF Final
  <2>5. Rest'
    BY <2>1, <2>2, <2>3, <2>4, EndKeepsRest DEF Rest
  <2> QED
    BY <2>1, <2>2, <2>4, <2>5, EndKeepsRows DEF Rest, TypeOK
<1> QED
  BY <1>1, <1>2

\* Claiming, sending, giving up and dying.
LEMMA SenderKeepsIInv ==
  ASSUME IInv, NEW w \in Withdrawal,
         Claim(w) \/ Send(w) \/ NotConnected(w) \/ Unsent(w) \/ Die(w)
  PROVE  IInv'
<1> USE DEF IInv
<1>1. CASE Claim(w) /\ inGoodOrder[HolderOf[w]]
  <2>1. /\ status[w] = "pending"
        /\ status' = [status EXCEPT ![w] = "processing"]
        /\ sender' = [sender EXCEPT ![w] = "claimed"]
        /\ UNCHANGED <<balance, transit, clearing, journals, inGoodOrder, provider, sent,
                       amountCase, cases, proposal, byHand>>
    BY <1>1 DEF Claim, SetStatus, money, fraud
  <2>2. TypeOK'
    BY <2>1 DEF TypeOK, Status
  <2>3. JournalsMatchStatus'
    BY <2>1 DEF TypeOK, JournalsMatchStatus
  <2>4. SendingInv' /\ ReturnInv' /\ BookedOnlyIfPaid'
    BY <2>1 DEF TypeOK, SendingInv, ReturnInv, GoodReason, BookedOnlyIfPaid, Returned
  <2> QED
    BY <2>2, <2>3, <2>4
<1>2. CASE Claim(w) /\ ~inGoodOrder[HolderOf[w]]
  <2>1. Ends(w, "cancelled")
    BY <1>2, CloseEnds DEF Claim, Open, Returned
  <2>2. UNCHANGED <<inGoodOrder, sender, provider, sent, amountCase, cases, proposal, byHand>>
    BY <1>2 DEF Claim, fraud
  <2>3. GoodReason(w)'
    BY <1>2, <2>2 DEF Claim, SendingInv, GoodReason
  <2>4. "cancelled" \in Final
    BY DEF Final
  <2>5. Rest'
    BY <2>1, <2>2, <2>3, <2>4, EndKeepsRest DEF Rest
  <2> QED
    BY <2>1, <2>2, <2>4, <2>5, EndKeepsRows DEF Rest, TypeOK
<1>3. CASE Send(w)
  <2>1. /\ sender[w] = "claimed"
        /\ sender' = [sender EXCEPT ![w] = "none"]
        /\ sent' = [sent EXCEPT ![w] = @ + 1]
        /\ provider' = provider \/ provider' = [provider EXCEPT ![w] = "working"]
        /\ provider' # provider => provider[w] = "unknown"
        /\ UNCHANGED <<status, balance, transit, clearing, journals, inGoodOrder,
                       amountCase, cases, proposal, byHand>>
    BY <1>3 DEF Send, money, fraud
  <2>2. TypeOK'
    BY <2>1 DEF TypeOK
  <2>3. SendingInv'
    BY <2>1 DEF TypeOK, SendingInv
  <2>4. ReturnInv' /\ BookedOnlyIfPaid'
    BY <2>1 DEF TypeOK, SendingInv, ReturnInv, GoodReason, BookedOnlyIfPaid
  <2> QED
    BY <2>1, <2>2, <2>3, <2>4 DEF JournalsMatchStatus
<1>4. CASE NotConnected(w) \/ Die(w)
  <2>1. /\ sender[w] # "none"
        /\ \/ sender' = [sender EXCEPT ![w] = "unsent"]
           \/ sender' = [sender EXCEPT ![w] = "none"]
        /\ UNCHANGED <<status, balance, transit, clearing, journals, inGoodOrder, provider, sent,
                       amountCase, cases, proposal, byHand>>
    BY <1>4 DEF NotConnected, Die, money, fraud
  <2>2. TypeOK'
    BY <2>1 DEF TypeOK
  <2>3. SendingInv' /\ ReturnInv' /\ BookedOnlyIfPaid'
    BY <2>1 DEF TypeOK, SendingInv, ReturnInv, GoodReason, BookedOnlyIfPaid
  <2> QED
    BY <2>1, <2>2, <2>3 DEF JournalsMatchStatus
<1>5. CASE Unsent(w) /\ status[w] = "processing" /\ ~Frozen(w)
  <2>1. Ends(w, "failed")
    BY <1>5, CloseEnds DEF Unsent, Open, Returned
  <2>2. /\ sender' = [sender EXCEPT ![w] = "none"]
        /\ UNCHANGED <<inGoodOrder, provider, sent, amountCase, cases, proposal, byHand>>
    BY <1>5 DEF Unsent, fraud
  <2>3. GoodReason(w)'
    BY <1>5, <2>2 DEF Unsent, SendingInv, GoodReason, TypeOK
  <2>4. "failed" \in Final
    BY DEF Final
  <2>5. Rest'
    BY <2>1, <2>2, <2>3, <2>4, EndKeepsRest DEF Rest
  <2> QED
    BY <2>1, <2>2, <2>4, <2>5, EndKeepsRows DEF Rest, TypeOK
<1>6. CASE Unsent(w) /\ ~(status[w] = "processing" /\ ~Frozen(w))
  <2>1. /\ sender' = [sender EXCEPT ![w] = "none"]
        /\ UNCHANGED <<status, balance, transit, clearing, journals, inGoodOrder, provider, sent,
                       amountCase, cases, proposal, byHand>>
    BY <1>6 DEF Unsent, money, fraud
  <2>2. TypeOK'
    BY <2>1 DEF TypeOK
  <2>3. SendingInv' /\ ReturnInv' /\ BookedOnlyIfPaid'
    BY <2>1 DEF TypeOK, SendingInv, ReturnInv, GoodReason, BookedOnlyIfPaid
  <2> QED
    BY <2>1, <2>2, <2>3 DEF JournalsMatchStatus
<1> QED
  BY <1>1, <1>2, <1>3, <1>4, <1>5, <1>6

\* The provider's own steps and the reports.
LEMMA ProviderKeepsIInv ==
  ASSUME IInv, NEW w \in Withdrawal,
         ProviderDecides(w) \/ DelayedReport(w) \/ StrayReport(w) \/ Poll(w) \/ StaffAsk(w)
  PROVE  IInv'
<1> USE DEF IInv
<1>1. CASE ProviderDecides(w)
  <2>1. PICK end \in {"paid", "refused", "shortpaid"} : provider' = [provider EXCEPT ![w] = end]
    BY <1>1 DEF ProviderDecides
  <2>2. /\ provider[w] = "working"
        /\ UNCHANGED <<status, balance, transit, clearing, journals, inGoodOrder, sender, sent,
                       amountCase, cases, proposal, byHand>>
    BY <1>1 DEF ProviderDecides, money, fraud
  <2>3. TypeOK'
    BY <2>1, <2>2 DEF TypeOK
  <2>4. SendingInv' /\ ReturnInv' /\ BookedOnlyIfPaid'
    BY <2>1, <2>2 DEF TypeOK, SendingInv, ReturnInv, GoodReason, BookedOnlyIfPaid
  <2> QED
    BY <2>2, <2>3, <2>4 DEF JournalsMatchStatus
<1>2. CASE DelayedReport(w) \/ Poll(w) \/ StaffAsk(w)
  <2>1. /\ \E r \in Answers(w) : ApplyResult(w, r)
        /\ UNCHANGED <<inGoodOrder, sender, provider, sent, proposal, byHand>>
    BY <1>2 DEF DelayedReport, Poll, StaffAsk
  <2>2. Answered(w) /\ FraudTyped'
    BY <2>1, AnswerEffect
  <2> QED
    BY <2>1, <2>2, AnsweredKeepsIInv
<1>3. CASE StrayReport(w)
  <2>1. UNCHANGED <<status, money>> /\ FraudTyped'
    BY <1>3, StrayEffect
  <2>2. UNCHANGED <<inGoodOrder, sender, provider, sent, proposal, byHand>>
    BY <1>3 DEF StrayReport
  <2> QED
    BY <2>1, <2>2, AnsweredKeepsIInv DEF Answered
<1> QED
  BY <1>1, <1>2, <1>3

\* What an approval does to the row, and on what grounds.
LEMMA ApproveEffect ==
  ASSUME IInv, NEW w \in Withdrawal, Approve(w)
  PROVE  /\ ~Frozen(w)
         /\ proposal[w].outcome \in Outcome
         /\ Ends(w, Says(proposal[w].outcome))
         /\ \/ EvidenceStands(w) /\ byHand' = byHand \cup {<<proposal[w].outcome, w>>}
            \/ /\ UNCHANGED byHand
               /\ provider[w] = IF proposal[w].outcome = "failed" THEN "refused" ELSE "paid"
<1> DEFINE outcome == proposal[w].outcome
<1>1. outcome \in Outcome /\ status[w] \in Open /\ ~Frozen(w)
  BY DEF IInv, TypeOK, Approve, Proposal, Gate, Frozen
<1>2. Says(outcome) \in {"succeeded", "failed"}
  BY DEF Says
<1>3. CASE /\ EvidenceStands(w)
           /\ Settle(w, [says |-> Says(outcome), amount |-> IF outcome = "paid" THEN "net" ELSE "absent"])
           /\ byHand' = byHand \cup {<<outcome, w>>}
  <2>1. Ends(w, Says(outcome))
    BY <1>1, <1>2, <1>3, SettleEnds DEF IInv
  <2> QED
    BY <1>1, <1>3, <2>1
<1>4. CASE /\ \E r \in Answers(w) : r.says = Says(outcome) /\ ~Mismatch(w, r) /\ Settle(w, r)
           /\ UNCHANGED byHand
  <2>1. PICK r \in Answers(w) : r.says = Says(outcome) /\ ~Mismatch(w, r) /\ Settle(w, r)
    BY <1>4
  <2>2. Ends(w, Says(outcome))
    BY <1>1, <1>2, <2>1, SettleEnds DEF IInv
  <2>3. provider[w] = IF outcome = "failed" THEN "refused" ELSE "paid"
    BY <1>1, <2>1, MatchedIsTrue DEF Says, Outcome
  <2> QED
    BY <1>1, <1>4, <2>2, <2>3
<1> QED
  BY <1>3, <1>4 DEF Approve

\* The two people, and the fraud team.
LEMMA StaffKeepsIInv ==
  ASSUME IInv, NEW w \in Withdrawal,
         \/ Approve(w) \/ DropProposal(w) \/ ResolveAmountCase(w)
         \/ \E outcome \in Outcome : Propose(w, outcome)
  PROVE  IInv'
<1> USE DEF IInv
<1>1. CASE Approve(w)
  <2> DEFINE outcome == proposal[w].outcome
  <2>1. /\ outcome \in Outcome
        /\ Ends(w, Says(outcome))
        /\ \/ EvidenceStands(w) /\ byHand' = byHand \cup {<<outcome, w>>}
           \/ /\ UNCHANGED byHand
              /\ provider[w] = IF outcome = "failed" THEN "refused" ELSE "paid"
    BY <1>1, ApproveEffect
  <2>2. /\ proposal' = [proposal EXCEPT ![w] = NoProposal]
        /\ UNCHANGED <<inGoodOrder, sender, provider, sent, amountCase, cases>>
    BY <1>1 DEF Approve, fraud
  <2>3. Says(outcome) \in Final
    BY DEF Says, Final
  <2>4. Says(outcome) \in Returned => GoodReason(w)'
    BY <2>1, <2>2 DEF Says, Returned, Outcome, EvidenceStands, SendingInv, GoodReason
  <2>5. Says(outcome) = "succeeded" => provider[w] = "paid" \/ <<"paid", w>> \in byHand'
    BY <2>1 DEF Says, Outcome
  <2>6. byHand \subseteq byHand' /\ byHand' \subseteq Outcome \X Withdrawal
    BY <2>1 DEF TypeOK
  <2>7. Rest'
    BY <2>1, <2>2, <2>3, <2>4, <2>5, <2>6, EndKeepsRest DEF Rest
  <2>8. proposal' \in [Withdrawal -> Proposal]
    BY <2>2 DEF TypeOK, Proposal
  <2> QED
    BY <2>1, <2>2, <2>3, <2>6, <2>7, <2>8, EndKeepsRows DEF Rest, TypeOK
<1>2. CASE \/ DropProposal(w) \/ ResolveAmountCase(w)
           \/ \E outcome \in Outcome : Propose(w, outcome)
  <2>1. UNCHANGED <<status, balance, transit, clearing, journals, inGoodOrder, sender, provider,
                    sent, cases, byHand>>
    BY <1>2 DEF DropProposal, ResolveAmountCase, Propose, money, fraud
  <2>2. amountCase' \in [Withdrawal -> {"none", "open", "resolved"}]
    BY <1>2 DEF DropProposal, ResolveAmountCase, Propose, fraud, TypeOK
  <2>4. proposal' \in [Withdrawal -> Proposal]
    <3>1. CASE ResolveAmountCase(w)
      BY <3>1 DEF ResolveAmountCase, TypeOK
    <3>2. CASE DropProposal(w)
      BY <3>2 DEF DropProposal, TypeOK, Proposal
    <3>3. ASSUME NEW outcome \in Outcome, Propose(w, outcome)
          PROVE  proposal' \in [Withdrawal -> Proposal]
      <4>1. [outcome |-> outcome, before |-> status[w]] \in Proposal
        BY <3>3 DEF Propose, Gate, Proposal
      <4> QED
        BY <3>3, <4>1 DEF Propose, TypeOK
    <3> QED
      BY <1>2, <3>1, <3>2, <3>3
  <2>5. Rest'
    BY <2>1, StillKeepsRest DEF Rest
  <2> QED
    BY <2>1, <2>2, <2>4, <2>5 DEF Rest, TypeOK, JournalsMatchStatus
<1> QED
  BY <1>1, <1>2

\* The rest of the platform.
LEMMA PlatformKeepsIInv ==
  ASSUME IInv, NEW h \in Holder, Earn(h) \/ TakeBack(h) \/ StandingChanges(h)
  PROVE  IInv'
<1> USE DEF IInv
<1>1. /\ UNCHANGED <<status, transit, journals, sender, provider, sent, amountCase, cases,
                     proposal, byHand>>
      /\ balance' \in [Holder -> Int] /\ clearing' \in Int
      /\ inGoodOrder' \in [Holder -> BOOLEAN]
  <2>1. CASE Earn(h)
    BY <2>1 DEF Earn, TypeOK, fraud
  <2>2. CASE TakeBack(h)
    BY <2>2 DEF TakeBack, TypeOK, fraud
  <2>3. CASE StandingChanges(h)
    BY <2>3 DEF StandingChanges, TypeOK, money, fraud
  <2> QED
    BY <2>1, <2>2, <2>3
<1>2. Rest'
  BY <1>1, StillKeepsRest DEF Rest
<1> QED
  BY <1>1, <1>2 DEF Rest, TypeOK, JournalsMatchStatus

\* No step of anyone breaks the invariant.
LEMMA NextKeepsIInv ==
  ASSUME IInv, [Next]_vars
  PROVE  IInv'
<1>1. CASE UNCHANGED vars
  <2>1. Rest'
    BY <1>1, StillKeepsRest DEF vars, IInv, Rest
  <2> QED
    BY <1>1, <2>1 DEF IInv, Rest, TypeOK, JournalsMatchStatus, vars, money, fraud
<1>2. CASE Next
  BY <1>2, HolderKeepsIInv, SenderKeepsIInv, ProviderKeepsIInv, StaffKeepsIInv,
     PlatformKeepsIInv DEF Next
<1> QED
  BY <1>1, <1>2

\* In every reachable state the invariant holds.
THEOREM Invariance == Spec => []IInv
BY InitIInv, NextKeepsIInv, PTL DEF Spec

\* Every variable keeps its type.
THEOREM TypeCorrect == Spec => []TypeOK
<1>1. IInv => TypeOK
  BY DEF IInv
<1> QED
  BY <1>1, Invariance, PTL

\* The paid and the reversed journal of a withdrawal exclude each other, and each is
\* there exactly when the row says so: claim, _unsent, apply_result, close and cancel
\* never let the two come apart.
THEOREM JournalsAgree == Spec => []JournalsMatchStatus
<1>1. IInv => JournalsMatchStatus
  BY DEF IInv
<1> QED
  BY <1>1, Invariance, PTL

\* The row lock in claim() makes the payout request leave the server once at most.
THEOREM SentOnce == Spec => []SentAtMostOnce
<1>1. IInv => SentAtMostOnce
  BY DEF IInv, SendingInv, SentAtMostOnce
<1> QED
  BY <1>1, Invariance, PTL

\* Money that left the provider is not also returned to the holder, unless two people
\* failed the withdrawal and the provider could not be asked.
THEOREM PaidStaysPaid == Spec => []PaidNeverReturned
<1>1. IInv => PaidNeverReturned
  BY DEF IInv, TypeOK, SendingInv, ReturnInv, GoodReason, Returned, PaidNeverReturned
<1> QED
  BY <1>1, Invariance, PTL

\* A withdrawal is booked paid only when the provider paid it in full or two people
\* said so: apply_result's amount check.
THEOREM BookedTruly == Spec => []BookedOnlyIfPaid
<1>1. IInv => BookedOnlyIfPaid
  BY DEF IInv
<1> QED
  BY <1>1, Invariance, PTL

-----------------------------------------------------------------------------
(* What one step does to the rows and the balances.                        *)

RowsStill == UNCHANGED <<status, balance, transit, clearing>>

Trades(h) ==
  /\ UNCHANGED <<status, transit>>
  /\ \E n \in {-1, 1} : balance' = [balance EXCEPT ![h] = @ + n] /\ clearing' = clearing + n

Holds(w) ==
  /\ status[w] = "none"
  /\ status' = [status EXCEPT ![w] = "pending"]
  /\ balance[HolderOf[w]] >= Amount[w]
  /\ balance' = [balance EXCEPT ![HolderOf[w]] = @ - Amount[w]]
  /\ transit' = transit + Amount[w]
  /\ UNCHANGED clearing

Sends(w) ==
  /\ status[w] = "pending"
  /\ status' = [status EXCEPT ![w] = "processing"]
  /\ UNCHANGED <<balance, transit, clearing>>

RowStep ==
  \/ RowsStill
  \/ \E h \in Holder : Trades(h)
  \/ \E w \in Withdrawal :
       \/ Holds(w)
       \/ Sends(w)
       \/ ~Frozen(w) /\ \E s \in Final : Ends(w, s)

\* Every step makes a withdrawal, moves one from pending to processing, ends one that is
\* not frozen, or leaves every row alone.
LEMMA StepsOfRows ==
  ASSUME IInv, [Next]_vars
  PROVE  RowStep
<1> USE DEF IInv
<1>1. ASSUME NEW w \in Withdrawal, Request(w)
      PROVE  Holds(w)
  BY <1>1, HoldEffect DEF Request, SetStatus, Holds
<1>2. ASSUME NEW w \in Withdrawal, Cancel(w)
      PROVE  RowStep
  BY <1>2, CloseEnds DEF Cancel, Frozen, Open, Returned, Final, RowStep
<1>3. ASSUME NEW w \in Withdrawal, Claim(w)
      PROVE  RowStep
  BY <1>3, CloseEnds DEF Claim, SetStatus, money, Sends, Frozen, Open, Returned, Final, RowStep
<1>4. ASSUME NEW w \in Withdrawal, Unsent(w)
      PROVE  RowStep
  BY <1>4, CloseEnds DEF Unsent, money, RowsStill, Open, Returned, Final, RowStep
<1>5. ASSUME NEW w \in Withdrawal, Answered(w)
      PROVE  RowStep
  BY <1>5 DEF Answered, money, RowsStill, Final, RowStep
<1>6. ASSUME NEW w \in Withdrawal, DelayedReport(w) \/ Poll(w) \/ StaffAsk(w) \/ StrayReport(w)
      PROVE  RowStep
  <2>1. Answered(w)
    BY <1>6, AnswerEffect, StrayEffect DEF DelayedReport, Poll, StaffAsk, Answered
  <2> QED
    BY <2>1, <1>5
<1>7. ASSUME NEW w \in Withdrawal, Approve(w)
      PROVE  RowStep
  BY <1>7, ApproveEffect DEF Says, Final, RowStep
<1>8. ASSUME NEW w \in Withdrawal,
             \/ Send(w) \/ NotConnected(w) \/ Die(w) \/ ProviderDecides(w)
             \/ DropProposal(w) \/ ResolveAmountCase(w)
             \/ \E outcome \in Outcome : Propose(w, outcome)
      PROVE  RowsStill
  BY <1>8 DEF Send, NotConnected, Die, ProviderDecides, DropProposal,
              ResolveAmountCase, Propose, money, RowsStill
<1>9. ASSUME NEW h \in Holder, Earn(h) \/ TakeBack(h)
      PROVE  Trades(h)
  <2>1. CASE Earn(h)
    BY <2>1 DEF Earn, Trades
  <2>2. CASE TakeBack(h)
    <3>1. /\ balance' = [balance EXCEPT ![h] = @ - 1] /\ clearing' = clearing - 1
          /\ UNCHANGED <<status, transit>>
      BY <2>2 DEF TakeBack
    <3>2. balance[h] - 1 = balance[h] + (-1) /\ clearing - 1 = clearing + (-1)
      BY DEF TypeOK
    <3> QED
      BY <3>1, <3>2 DEF Trades
  <2> QED
    BY <1>9, <2>1, <2>2
<1>10. ASSUME NEW h \in Holder, StandingChanges(h)
       PROVE  RowsStill
  BY <1>10 DEF StandingChanges, money, RowsStill
<1>11. CASE UNCHANGED vars
  BY <1>11 DEF vars, money, RowsStill, RowStep
<1>12. CASE Next
  BY <1>12, <1>1, <1>2, <1>3, <1>4, <1>6, <1>7, <1>8, <1>9, <1>10 DEF Next, RowStep
<1> QED
  BY <1>11, <1>12

-----------------------------------------------------------------------------
(* The books.                                                              *)

Held == {w \in Withdrawal : status[w] \in Open}

\* Only so many withdrawals were ever asked for: what they hold can be added up.
BookInv == IsFiniteSet(Held) /\ BooksBalance

\* One holder's balance changes: what holders have together changes by as much.
LEMMA BalanceMoves ==
  ASSUME TypeOK, NEW h \in Holder, NEW n \in Int, balance' = [balance EXCEPT ![h] = @ + n]
  PROVE  Moved(balance, balance', n)
<1>1. balance \in [Holder -> Int] /\ balance' \in [Holder -> Int]
  BY DEF TypeOK
<1>2. \A k \in Holder : balance'[k] = IF k = h THEN balance[h] + n ELSE balance[k]
  BY DEF TypeOK
<1> QED
  BY <1>1, <1>2, SumMoved

\* What is held is a number of pesewas.
LEMMA HeldSum ==
  ASSUME NEW S, IsFiniteSet(S), S \subseteq Withdrawal
  PROVE  SumFunctionOnSet(Amount, S) \in Int
<1>1. \A w \in S : Amount[w] \in Int
  OBVIOUS
<1> QED
  BY <1>1, SumRemoved

\* At first nothing is in transit, and the provider holds what the holders have.
LEMMA InitBooks ==
  ASSUME Init
  PROVE  BookInv
<1>1. Held = {}
  BY DEF Init, Held, Open
<1>2. transit = SumFunctionOnSet(Amount, Held) /\ IsFiniteSet(Held)
  BY <1>1, SumEmpty, FS_EmptySet DEF Init
<1>3. clearing = SumFunction(balance)
  <2> DEFINE one == [h \in Holder |-> 1]
  <2>1. SumFunctionOnSet(one, Holder) = Cardinality(Holder)
    BY SumOnes
  <2>2. \A h \in Holder : one[h] \in Int /\ balance[h] = Opening * one[h]
    BY DEF Init
  <2> HIDE DEF one
  <2>3. SumFunctionOnSet(balance, Holder) = Opening * Cardinality(Holder)
    BY <2>1, <2>2, SumTimes
  <2>4. Cardinality(Holder) \in Nat /\ DOMAIN balance = Holder
    BY FS_CardinalityType DEF Init
  <2> QED
    BY <2>3, <2>4 DEF Init, SumFunction
<1>4. clearing \in Int
  BY FS_CardinalityType DEF Init
<1> QED
  BY <1>2, <1>3, <1>4 DEF Init, BookInv, BooksBalance, Held

\* Every step of the rows keeps the books: what leaves a balance is in transit, what
\* leaves transit is back or with the payee.
LEMMA StepBooks ==
  ASSUME IInv, BookInv, [Next]_vars
  PROVE  BookInv'
<1>1. TypeOK /\ RowStep
  BY StepsOfRows DEF IInv
<1>2. /\ IsFiniteSet(Held) /\ transit = SumFunctionOnSet(Amount, Held)
      /\ clearing = SumFunction(balance) + transit
      /\ transit \in Int /\ clearing \in Int
  BY <1>1 DEF BookInv, BooksBalance, Held, TypeOK
<1>3. SumFunction(balance) \in Int
  <2>1. \A h \in Holder : balance[h] \in Int
    BY <1>1 DEF TypeOK
  <2>2. SumFunctionOnSet(balance, Holder) \in Int /\ DOMAIN balance = Holder
    BY <1>1, <2>1, SumRemoved DEF TypeOK
  <2> QED
    BY <2>2 DEF SumFunction
<1>4. SUFFICES /\ IsFiniteSet(Held') /\ transit' = SumFunctionOnSet(Amount, Held')
               /\ clearing' = SumFunction(balance') + transit'
  BY DEF BookInv, BooksBalance, Held
<1>5. CASE RowsStill
  BY <1>2, <1>5 DEF RowsStill, Held
<1>6. ASSUME NEW h \in Holder, Trades(h)
      PROVE  /\ Held' = Held /\ transit' = transit
             /\ clearing' = SumFunction(balance') + transit
  <2>1. PICK n \in {-1, 1} : balance' = [balance EXCEPT ![h] = @ + n] /\ clearing' = clearing + n
    BY <1>6 DEF Trades
  <2>2. Moved(balance, balance', n)
    <3>1. n \in Int /\ balance' = [balance EXCEPT ![h] = @ + n]
      BY <2>1
    <3> QED
      BY <1>1, <3>1, BalanceMoves
  <2>3. SumFunction(balance') = SumFunction(balance) + n
    BY <2>2 DEF Moved
  <2> QED
    BY <1>2, <1>3, <1>6, <2>1, <2>3 DEF Trades, Held
<1>7. ASSUME NEW w \in Withdrawal, Holds(w)
      PROVE  /\ IsFiniteSet(Held') /\ transit' = SumFunctionOnSet(Amount, Held')
             /\ clearing' = SumFunction(balance') + transit'
  <2>1. Held' = Held \cup {w} /\ w \notin Held
    BY <1>1, <1>7 DEF Holds, Held, Open, TypeOK
  <2>2. SumFunctionOnSet(Amount, Held \cup {w}) = Amount[w] + SumFunctionOnSet(Amount, Held)
    <3>1. \A v \in Held \cup {w} : Amount[v] \in Int
      BY DEF Held
    <3> QED
      BY <1>2, <2>1, <3>1, SumAdd
  <2>3. Amount[w] \in Int /\ HolderOf[w] \in Holder
    OBVIOUS
  <2>4. balance' = [balance EXCEPT ![HolderOf[w]] = @ + (-Amount[w])]
    BY <1>1, <1>7, <2>3 DEF Holds, TypeOK
  <2>5. SumFunction(balance') = SumFunction(balance) + (-Amount[w])
    <3>1. -Amount[w] \in Int
      BY <2>3
    <3>2. Moved(balance, balance', -Amount[w])
      BY <1>1, <2>3, <2>4, <3>1, BalanceMoves
    <3> QED
      BY <3>2 DEF Moved
  <2>6. transit' = transit + Amount[w] /\ clearing' = clearing
    BY <1>7 DEF Holds
  <2>7. IsFiniteSet(Held')
    BY <1>2, <2>1, FS_AddElement
  <2> QED
    BY <1>2, <1>3, <2>1, <2>2, <2>3, <2>5, <2>6, <2>7
<1>8. ASSUME NEW w \in Withdrawal, Sends(w)
      PROVE  Held' = Held /\ UNCHANGED <<balance, transit, clearing>>
  BY <1>1, <1>8 DEF Sends, Held, Open, TypeOK
<1>9. ASSUME NEW w \in Withdrawal, NEW s \in Final, Ends(w, s)
      PROVE  /\ IsFiniteSet(Held') /\ transit' = SumFunctionOnSet(Amount, Held')
             /\ clearing' = SumFunction(balance') + transit'
  <2>1. Held' = Held \ {w} /\ w \in Held
    BY <1>1, <1>9 DEF Ends, Held, Open, Final, TypeOK
  <2>2. SumFunctionOnSet(Amount, Held) = Amount[w] + SumFunctionOnSet(Amount, Held \ {w})
    <3>1. \A v \in Held : Amount[v] \in Int
      BY DEF Held
    <3> QED
      BY <1>2, <2>1, <3>1, SumRemoved
  <2>3. Amount[w] \in Int /\ HolderOf[w] \in Holder
    OBVIOUS
  <2>4. IsFiniteSet(Held')
    BY <1>2, <2>1, FS_Subset
  <2>5. SumFunctionOnSet(Amount, Held') \in Int
    BY <2>4, HeldSum DEF Held
  <2>6. transit' = transit - Amount[w]
    BY <1>9 DEF Ends
  <2>7. transit' = SumFunctionOnSet(Amount, Held')
    BY <1>2, <2>1, <2>2, <2>3, <2>5, <2>6
  <2>8. CASE s = "succeeded"
    <3>1. balance' = balance /\ clearing' = clearing - Amount[w]
      BY <1>9, <2>8 DEF Ends
    <3> QED
      BY <1>2, <1>3, <2>3, <2>4, <2>6, <2>7, <3>1
  <2>9. CASE s # "succeeded"
    <3>1. balance' = [balance EXCEPT ![HolderOf[w]] = @ + Amount[w]] /\ clearing' = clearing
      BY <1>9, <2>9 DEF Ends
    <3>2. Moved(balance, balance', Amount[w])
      BY <1>1, <2>3, <3>1, BalanceMoves
    <3>3. SumFunction(balance') = SumFunction(balance) + Amount[w]
      BY <3>2 DEF Moved
    <3> QED
      BY <1>2, <1>3, <2>3, <2>4, <2>6, <2>7, <3>1, <3>3
  <2> QED
    BY <2>8, <2>9
<1> QED
  BY <1>1, <1>2, <1>5, <1>6, <1>7, <1>8, <1>9 DEF RowStep

\* The books balance whatever the order of holds, payouts, returns, sales and refunds: in
\* transit is what the open withdrawals hold, and the provider holds what is in transit and
\* what the holders have (posting.post, close, _in_transit).
THEOREM BooksAlwaysBalance == Spec => []BooksBalance
<1>1. Init => IInv /\ BookInv
  BY InitIInv, InitBooks
<1>2. (IInv /\ BookInv) /\ [Next]_vars => (IInv /\ BookInv)'
  BY NextKeepsIInv, StepBooks
<1>3. BookInv => BooksBalance
  BY DEF BookInv
<1> QED
  BY <1>1, <1>2, <1>3, PTL DEF Spec

-----------------------------------------------------------------------------
(* What a step may not do.                                                 *)

\* A withdrawal that ended stays as it ended, whatever late report comes.
THEOREM EndedForGood == Spec => FinalIsFinal
<1>1. ASSUME IInv, [Next]_vars
      PROVE  \A w \in Withdrawal : status[w] \in Final => status'[w] = status[w]
  <2>1. RowStep
    BY <1>1, StepsOfRows
  <2> QED
    BY <1>1, <2>1 DEF IInv, TypeOK, RowStep, RowsStill, Trades, Holds, Sends, Ends, Open, Final
<1> QED
  BY <1>1, Invariance, PTL DEF Spec, FinalIsFinal

\* An open amount case stops reports, the sender's own clean-up and staff alike.
THEOREM DisputedIsFrozen == Spec => FrozenWhileDisputed
<1>1. ASSUME IInv, [Next]_vars
      PROVE  \A w \in Withdrawal : Frozen(w) => status'[w] = status[w]
  <2>1. RowStep
    BY <1>1, StepsOfRows
  <2> QED
    BY <1>1, <2>1 DEF IInv, TypeOK, RowStep, RowsStill, Trades, Holds, Sends, Ends, Frozen
<1> QED
  BY <1>1, Invariance, PTL DEF Spec, FrozenWhileDisputed

-----------------------------------------------------------------------------
(* The refinement.                                                         *)

\* The engine implements PayoutPromise: held at once, then paid or given back, once.
THEOREM PromiseKept == Spec => KeepsPromise
<1>1. Init => Promise!Init
  BY DEF Init, Promise!Init, Phase, Open
<1>2. ASSUME IInv, [Next]_vars
      PROVE  [Promise!Next]_<<[w \in Withdrawal |-> Phase(status[w])], balance>>
  <2> DEFINE phase == [w \in Withdrawal |-> Phase(status[w])]
             phaseNext == [w \in Withdrawal |-> Phase(status'[w])]
  <2>1. CASE RowsStill
    BY <2>1 DEF RowsStill
  <2>2. ASSUME NEW h \in Holder, Trades(h)
        PROVE  Promise!Trade(h)
    BY <2>2 DEF Trades, Promise!Trade
  <2>3. ASSUME NEW w \in Withdrawal, Holds(w)
        PROVE  Promise!Hold(w)
    BY <1>2, <2>3 DEF IInv, TypeOK, Holds, Promise!Hold, Phase, Open
  <2>4. ASSUME NEW w \in Withdrawal, Sends(w)
        PROVE  UNCHANGED <<phase, balance>>
    BY <1>2, <2>4 DEF IInv, TypeOK, Sends, Phase, Open
  <2>5. ASSUME NEW w \in Withdrawal, NEW s \in Final, Ends(w, s)
        PROVE  Promise!Pay(w) \/ Promise!GiveBack(w)
    BY <1>2, <2>5 DEF IInv, TypeOK, Ends, Promise!Pay, Promise!GiveBack, Phase, Open, Final
  <2>6. RowStep
    BY <1>2, StepsOfRows
  <2> QED
    BY <2>1, <2>2, <2>3, <2>4, <2>5, <2>6 DEF RowStep, Promise!Next
<1> QED
  BY <1>1, <1>2, Invariance, PTL DEF Spec, KeepsPromise, Promise!Spec

=============================================================================
