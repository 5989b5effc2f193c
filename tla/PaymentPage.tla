---------------------------- MODULE PaymentPage -----------------------------
(***************************************************************************)
(* The buyer's page of one export invoice: rendered from the row, then      *)
(* polling it, paying through a wallet and handing the hash over.  Answers  *)
(* travel for as long as they like, so they overtake each other.  The       *)
(* handlers behind them run in turn here: InvoiceLifecycle has them         *)
(* overlap, DepositWatcher has the blocks.                                  *)
(***************************************************************************)
EXTENDS FiniteSets, Functions, Naturals

CONSTANTS
  Pages,       \* payment pages
  Transfers,   \* what buyers may send
  None,
  Amount,      \* what the invoice asks for
  MaxAnswers,  \* bound: poll answers on their way to one page
  MaxFailures  \* bound: answers that never arrive

ASSUME PageConstants ==
  /\ IsFiniteSet(Transfers) /\ None \notin Transfers
  /\ Amount \in Nat \ {0} /\ MaxAnswers \in Nat \ {0} /\ MaxFailures \in Nat

VARIABLES
  invoice,     \* the Invoice row
  overdue,     \* 0 before the deadline, 1 past it, 2 past it by a day
  transferred, \* per transfer: its amount, 0 when there is none
  mined,       \* per transfer: "no", "mined" or "final"
  seen,        \* per transfer: its ChainTx row
  copy,        \* per page: the invoice as it shows it, None before it has one
  job,         \* per page: what its user or its code is in the middle of
  answers,     \* per page: poll answers read and still to be applied
  failures

chain    == <<transferred, mined>>
pages    == <<copy, job, answers>>
pageVars == <<invoice, overdue, chain, seen, pages, failures>>

Idle == [at |-> "idle", from |-> "PENDING", value |-> 0, tx |-> None, answer |-> None]

PageInit ==
  /\ invoice = [status |-> "PENDING", received |-> 0, pending |-> 0]
  /\ overdue = 0
  /\ transferred = [t \in Transfers |-> 0]
  /\ mined = [t \in Transfers |-> "no"]
  /\ seen = [t \in Transfers |-> "none"]
  /\ copy = [p \in Pages |-> None]
  /\ job = [p \in Pages |-> Idle]
  /\ answers = [p \in Pages |-> {}]
  /\ failures = 0

-----------------------------------------------------------------------------
(* The server, one request at a time.                                       *)

(* What an answer tells of the row that the page acts on.                   *)
Shown == [status |-> invoice.status, received |-> invoice.received]

Payable == {"APPROVED", "PAYMENT_PENDING"}

Sum(S) == SumFunctionOnSet(transferred, S)

RowOf(t) == IF mined[t] = "final" THEN "CONFIRMED" ELSE "CONFIRMING"

(* An administrator approves, which allocates the address, or rejects.      *)
Approve ==
  /\ invoice.status = "PENDING"
  /\ invoice' = [invoice EXCEPT !.status = "APPROVED"]
  /\ UNCHANGED <<overdue, chain, seen, pages, failures>>

Reject ==
  /\ invoice.status \in {"PENDING", "APPROVED"}
  /\ invoice' = [invoice EXCEPT !.status = "REJECTED"]
  /\ UNCHANGED <<overdue, chain, seen, pages, failures>>

StartTaken == invoice.status = "APPROVED" /\ overdue = 0

(* startPayment: refused, it changes nothing.                               *)
StartPayment ==
  invoice' = IF StartTaken THEN [invoice EXCEPT !.status = "PAYMENT_PENDING"] ELSE invoice

(* Wrong on purpose: a hash is good before its transfer is in a block.      *)
AcceptedUnmined(t) == invoice.status \in Payable /\ transferred[t] >= Amount

(* Mined will do, and this transfer alone must cover.                       *)
Accepted(t) == invoice.status \in Payable /\ mined[t] # "no" /\ transferred[t] >= Amount

ConfirmPayment(t) ==
  IF Accepted(t)
    THEN /\ invoice' = [invoice EXCEPT !.status = "PAID", !.received = transferred[t]]
         /\ seen' = [seen EXCEPT ![t] = RowOf(t)]
    ELSE UNCHANGED <<invoice, seen>>

(* A pass records a transfer, and what is on its way when it is not final.  *)
See(t) ==
  /\ mined[t] # "no" /\ seen[t] \notin {RowOf(t), "CONFIRMED"}
  /\ seen' = [seen EXCEPT ![t] = RowOf(t)]
  /\ invoice' = IF mined[t] = "final" THEN invoice
                ELSE [invoice EXCEPT !.pending = Sum({u \in Transfers : seen[u] = "CONFIRMING"} \cup {t})]
  /\ UNCHANGED <<overdue, chain, pages, failures>>

Match(t) ==
  LET total == Sum({u \in Transfers : seen[u] = "CONFIRMED"})
  IN  /\ seen[t] = "CONFIRMED"
      /\ invoice.status \notin {"PAID", "REJECTED"}
      /\ invoice' = [status   |-> IF total < Amount THEN "PAYMENT_PENDING" ELSE "PAID",
                     received |-> total, pending |-> 0]
      /\ UNCHANGED <<overdue, chain, seen, pages, failures>>

ExpireStale ==
  /\ overdue > 0
  /\ invoice.status \in {"PENDING"} \cup Payable
  /\ invoice.received = 0
  /\ invoice.pending = 0 \/ overdue = 2
  /\ invoice' = [invoice EXCEPT !.status = "EXPIRED"]
  /\ UNCHANGED <<overdue, chain, seen, pages, failures>>

-----------------------------------------------------------------------------
(* The page.                                                                *)

(* Rendered by the server from the row; opening it again starts afresh.     *)
Open(p) ==
  /\ copy' = [copy EXCEPT ![p] = Shown]
  /\ job' = [job EXCEPT ![p] = [Idle EXCEPT !.at = "opened"]]
  /\ answers' = [answers EXCEPT ![p] = {}]
  /\ UNCHANGED <<invoice, overdue, chain, seen, failures>>

ToPay(p) == copy[p] # None /\ copy[p].status \in Payable

(* Wrong on purpose: the page watches only once a payment is under way.     *)
PollPending(p) ==
  /\ copy[p] # None /\ copy[p].status = "PAYMENT_PENDING"
  /\ Cardinality(answers[p]) < MaxAnswers
  /\ answers' = [answers EXCEPT ![p] = @ \cup {Shown}]
  /\ UNCHANGED <<invoice, overdue, chain, seen, copy, job, failures>>

(* Every six seconds while the page shows something to pay, whether or not  *)
(* the last answer has come.                                                *)
Poll(p) ==
  /\ ToPay(p)
  /\ Cardinality(answers[p]) < MaxAnswers
  /\ answers' = [answers EXCEPT ![p] = @ \cup {Shown}]
  /\ UNCHANGED <<invoice, overdue, chain, seen, copy, job, failures>>

(* An answer replaces what is shown, however old it is.                     *)
Land(p, a) ==
  /\ a \in answers[p]
  /\ answers' = [answers EXCEPT ![p] = @ \ {a}]
  /\ copy' = [copy EXCEPT ![p] = a]
  /\ UNCHANGED <<invoice, overdue, chain, seen, job, failures>>

Lose(p, a) ==
  /\ failures < MaxFailures
  /\ a \in answers[p]
  /\ answers' = [answers EXCEPT ![p] = @ \ {a}]
  /\ failures' = failures + 1
  /\ UNCHANGED <<invoice, overdue, chain, seen, copy, job>>

(* What is neither PAID nor EXPIRED shows the form, with an address on it   *)
(* once one is allocated.                                                   *)
Form(p) == copy[p] # None /\ copy[p].status \notin {"PAID", "EXPIRED"}

Outstanding(p) == IF copy[p].received > Amount THEN 0 ELSE Amount - copy[p].received

(* Busy disables the buttons; a page just opened is not.                    *)
Free(p) == job[p].at \in {"opened", "idle"}

(* The click keeps the invoice as the page showed it then.                  *)
PressPay(p) ==
  /\ ToPay(p) /\ Free(p)
  /\ job' = [job EXCEPT ![p] = [Idle EXCEPT !.at = "wallet", !.from = copy[p].status,
                                            !.value = Outstanding(p)]]
  /\ UNCHANGED <<invoice, overdue, chain, seen, copy, answers, failures>>

Decline(p) ==
  /\ job[p].at = "wallet"
  /\ job' = [job EXCEPT ![p] = Idle]
  /\ UNCHANGED <<invoice, overdue, chain, seen, copy, answers, failures>>

(* Transfers are all alike: take them in one order.                         *)
Fresh == {t \in Transfers : transferred[t] = 0}
NewTransfer == CHOOSE t \in Fresh : TRUE

Send(p) ==
  /\ job[p].at = "wallet" /\ Fresh # {}
  /\ transferred' = [transferred EXCEPT ![NewTransfer] = job[p].value]
  /\ job' = [job EXCEPT ![p].at = "start", ![p].value = 0, ![p].tx = NewTransfer]
  /\ UNCHANGED <<invoice, overdue, mined, seen, copy, answers, failures>>

(* From a phone or an exchange, to the address the page shows.              *)
PayElsewhere(p, n) ==
  /\ ToPay(p) /\ Fresh # {}
  /\ transferred' = [transferred EXCEPT ![NewTransfer] = n]
  /\ UNCHANGED <<invoice, overdue, mined, seen, pages, failures>>

(* "Already sent it from elsewhere?"                                        *)
PressCheck(p, t) ==
  /\ Form(p) /\ Free(p) /\ transferred[t] > 0
  /\ job' = [job EXCEPT ![p] = [Idle EXCEPT !.at = "start", !.from = copy[p].status, !.tx = t]]
  /\ UNCHANGED <<invoice, overdue, chain, seen, copy, answers, failures>>

(* Wrong on purpose: a refused startPayment ends the submission.            *)
SubmitStartOrStop(p) ==
  /\ job[p].at = "start"
  /\ IF job[p].from = "APPROVED"
       THEN StartPayment /\ job' = [job EXCEPT ![p] = IF StartTaken THEN [@ EXCEPT !.at = "confirm"]
                                                                 ELSE [Idle EXCEPT !.at = "load"]]
       ELSE UNCHANGED invoice /\ job' = [job EXCEPT ![p].at = "confirm"]
  /\ UNCHANGED <<overdue, chain, seen, copy, answers, failures>>

(* submitHash: perhaps startPayment, whose answer it does not look at, then *)
(* confirmPayment once, then a look.                                        *)
SubmitStart(p) ==
  /\ job[p].at = "start"
  /\ IF job[p].from = "APPROVED" THEN StartPayment ELSE UNCHANGED invoice
  /\ job' = [job EXCEPT ![p] = [Idle EXCEPT !.at = "confirm", !.tx = job[p].tx]]
  /\ UNCHANGED <<overdue, chain, seen, copy, answers, failures>>

SubmitHash(p) ==
  /\ job[p].at = "confirm"
  /\ ConfirmPayment(job[p].tx)
  /\ job' = [job EXCEPT ![p] = [Idle EXCEPT !.at = "load"]]
  /\ UNCHANGED <<overdue, chain, copy, answers, failures>>

ReadBack(p) ==
  /\ job[p].at = "load"
  /\ job' = [job EXCEPT ![p].at = "show", ![p].answer = Shown]
  /\ UNCHANGED <<invoice, overdue, chain, seen, copy, answers, failures>>

ShowBack(p) ==
  /\ job[p].at = "show"
  /\ copy' = [copy EXCEPT ![p] = job[p].answer]
  /\ job' = [job EXCEPT ![p] = Idle]
  /\ UNCHANGED <<invoice, overdue, chain, seen, answers, failures>>

(* A request that fails ends submitHash; the button is there again.         *)
BreakOff(p) ==
  /\ failures < MaxFailures
  /\ job[p].at \in {"start", "confirm", "load", "show"}
  /\ job' = [job EXCEPT ![p] = Idle]
  /\ failures' = failures + 1
  /\ UNCHANGED <<invoice, overdue, chain, seen, copy, answers>>

-----------------------------------------------------------------------------
(* Time and the chain.                                                      *)

Lapse ==
  /\ overdue < 2
  /\ overdue' = overdue + 1
  /\ UNCHANGED <<invoice, chain, seen, pages, failures>>

Mine(t) ==
  /\ transferred[t] > 0 /\ mined[t] = "no"
  /\ mined' = [mined EXCEPT ![t] = "mined"]
  /\ UNCHANGED <<invoice, overdue, transferred, seen, pages, failures>>

Finalise(t) ==
  /\ mined[t] = "mined"
  /\ mined' = [mined EXCEPT ![t] = "final"]
  /\ UNCHANGED <<invoice, overdue, transferred, seen, pages, failures>>

Submit(p) == SubmitStart(p) \/ SubmitHash(p) \/ ReadBack(p) \/ ShowBack(p)

PageNext ==
  \/ Approve \/ Reject \/ ExpireStale \/ Lapse
  \/ \E t \in Transfers : See(t) \/ Match(t) \/ Mine(t) \/ Finalise(t)
  \/ \E p \in Pages :
       \/ Open(p) \/ Poll(p) \/ PressPay(p) \/ Decline(p) \/ Send(p) \/ Submit(p) \/ BreakOff(p)
       \/ \E a \in answers[p] : Land(p, a) \/ Lose(p, a)
       \/ \E n \in 1..Amount : PayElsewhere(p, n)
       \/ \E t \in Transfers : PressCheck(p, t)

PageSpec == PageInit /\ [][PageNext]_pageVars

(* A page left open polls by a timer and runs its handlers on; whatever was *)
(* answered comes or is lost.  Nobody is made to press, pay or decide, and  *)
(* no watcher is made to run.                                               *)
Fairness ==
  \A p \in Pages :
    /\ WF_pageVars(Poll(p)) /\ WF_pageVars(Submit(p))
    /\ WF_pageVars(\E a \in answers[p] : Land(p, a))

FairPageSpec == PageSpec /\ Fairness

-----------------------------------------------------------------------------
(* Properties.                                                              *)

(* "Payment received" is on a page only when transfers that cover the       *)
(* invoice are in blocks, whoever reported or found them and however late   *)
(* or out of turn the answer came (Checkout.tsx:322).                       *)
ShownPaidIsPaid ==
  \A p \in Pages : copy[p] # None /\ copy[p].status = "PAID" =>
    Sum({t \in Transfers : mined[t] # "no"}) >= Amount

(* A payment page left open does not go on asking for money: once the       *)
(* invoice can no longer be paid, the page comes to show that, whatever     *)
(* order its answers come in (Checkout.tsx:98-105).                         *)
PagesFollow ==
  \A p \in Pages :
    <>[](invoice.status \notin Payable) => <>[](copy[p] = None \/ copy[p].status \notin Payable)

(* A hash handed over once its transfer is in a block settles the invoice   *)
(* with no watcher running, even when startPayment is refused because the   *)
(* deadline has passed, unless the invoice was closed first or the page is  *)
(* reopened or loses a request meanwhile (Checkout.tsx:157-158).            *)
ReportSettles ==
  \A p \in Pages : \A t \in Transfers :
    (job[p].at = "start" /\ job[p].tx = t /\ mined[t] # "no" /\ transferred[t] >= Amount)
      ~> (invoice.status \notin Payable \/ job[p].at = "opened" \/ failures > 0)
=============================================================================
