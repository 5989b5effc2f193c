-------------------------- MODULE InvoiceLifecycle --------------------------
(***************************************************************************)
(* An invoice from the moment it is raised to the moment its file closes:   *)
(* the transition route, the two things the deposit watcher does to a       *)
(* status (matchInvoice and expireStaleInvoices), and the booking and the   *)
(* payout that follow a payment.                                            *)
(*                                                                          *)
(* A handler reads the invoice, checks its guard and decides what to write, *)
(* then writes unconditionally by id, then - if the invoice is now paid -   *)
(* books the payment and raises the payout.  Each of these is a step of a   *)
(* worker; other workers may run in between, and a worker may die between   *)
(* any two.  Slots are requests being served, Sweepers are watcher passes   *)
(* (the daemon's and the ones POST /api/chain/watch starts).  If the two    *)
(* sets are the same one-element set nothing overlaps.                      *)
(*                                                                          *)
(* Callers are taken to have the role each action asks for: a refused call  *)
(* writes nothing.                                                          *)
(***************************************************************************)
EXTENDS Integers

CONSTANTS Invoices, Transfers,
          Slots, Sweepers,
          None,
          Pays,          \* Pays[t]: the invoice whose address transfer t goes to
          Amount, Fee,   \* per invoice: its figure, and the fee an import adds
          AmountOf(_),   \* what a set of transfers adds up to
          MaxFailures    \* bound: workers that die half-way

ASSUME ConstantsAssumption ==
  /\ Pays \in [Transfers -> Invoices]
  /\ Amount \in [Invoices -> Nat \ {0}]
  /\ Fee \in [Invoices -> Nat]
  /\ \A S \in SUBSET Transfers : AmountOf(S) \in Nat
  /\ \A S, T \in SUBSET Transfers : S \subseteq T => AmountOf(S) <= AmountOf(T)
  /\ None \notin Invoices \cup Transfers
  /\ MaxFailures \in Nat

Workers == Slots \cup Sweepers

Directions == {"EXPORT", "IMPORT"}
Statuses == {"PENDING", "APPROVED", "BANK_RATE_LOCKED", "RIAL_RECEIVED", "PAYMENT_PENDING",
             "PAID", "EXPIRED", "REJECTED", "CANCELLING", "CANCELLED"}
Windows == {"open", "lapsed", "graceOver"}   \* expiresAt: ahead, past, past by a day

VARIABLES
  direction,    \* EXPORT or IMPORT, fixed when the invoice is raised
  status,
  window,       \* where now stands relative to expiresAt
  deposit,      \* a deposit row, hence an address, exists
  shown,        \* paymentAddress is on the invoice
  rateSet,      \* rateLockedAt
  rialIn,       \* rialDepositAt
  rialBack,     \* rialReturnedAt
  cancelAsked,  \* cancelRequestedAt
  received,     \* receivedAmount
  pending,      \* pendingAmount
  mined,        \* per transfer: "no", "yes", "final" on the chain
  row,          \* per transfer: the ChainTx row's status, or "none"
  matched,      \* per transfer: matchedAt
  posted,       \* per invoice: INVOICE_PAID groups in the ledger
  payout,       \* per invoice: settlements raised from it
  work,         \* what each worker is in the middle of
  failures

fields == <<status, window, shown, rateSet, rialIn, rialBack, cancelAsked, received, pending>>
chain  == <<mined, row, matched>>
books  == <<posted, payout>>
vars   == <<direction, deposit, fields, chain, books, work, failures>>

Idle == [op |-> "idle", inv |-> None, tx |-> None, to |-> "PENDING", amount |-> 0, at |-> "commit"]

Job(op, i, t, to, n) == [op |-> op, inv |-> i, tx |-> t, to |-> to, amount |-> n, at |-> "commit"]

(* Wrong on purpose: an import is paid on the principal.                    *)
RequiredWithoutFee(i) == Amount[i]

(* What has to arrive: an import's payer sends the fee on top.              *)
Required(i) == IF direction[i] = "IMPORT" THEN Amount[i] + Fee[i] ELSE Amount[i]

Confirmed(i)  == {t \in Transfers : Pays[t] = i /\ row[t] = "CONFIRMED"}
Confirming(i) == {t \in Transfers : Pays[t] = i /\ row[t] = "CONFIRMING"}

Init ==
  /\ direction \in [Invoices -> Directions]
  /\ status = [i \in Invoices |-> "PENDING"]
  /\ window = [i \in Invoices |-> "open"]
  /\ deposit = [i \in Invoices |-> FALSE]
  /\ shown = [i \in Invoices |-> FALSE]
  /\ rateSet = [i \in Invoices |-> FALSE]
  /\ rialIn = [i \in Invoices |-> FALSE]
  /\ rialBack = [i \in Invoices |-> FALSE]
  /\ cancelAsked = [i \in Invoices |-> FALSE]
  /\ received = [i \in Invoices |-> 0]
  /\ pending = [i \in Invoices |-> 0]
  /\ mined = [t \in Transfers |-> "no"]
  /\ row = [t \in Transfers |-> "none"]
  /\ matched = [t \in Transfers |-> FALSE]
  /\ posted = [i \in Invoices |-> 0]
  /\ payout = [i \in Invoices |-> 0]
  /\ work = [s \in Workers |-> Idle]
  /\ failures = 0

-----------------------------------------------------------------------------
(* The transition route: what each action reads and decides.                *)

Begin(s, job) == work[s] = Idle /\ work' = [work EXCEPT ![s] = job]

(* The address is derived and its row written before the status is.         *)
Approve(s, i) ==
  /\ status[i] = "PENDING"
  /\ Begin(s, Job("approve", i, None, "APPROVED", 0))
  /\ deposit' = [deposit EXCEPT ![i] = TRUE]
  /\ UNCHANGED <<direction, fields, chain, books, failures>>

Reject(s, i) ==
  /\ status[i] \in {"PENDING", "APPROVED"}
  /\ Begin(s, Job("reject", i, None, "REJECTED", 0))
  /\ UNCHANGED <<direction, deposit, fields, chain, books, failures>>

LockRate(s, i) ==
  /\ direction[i] = "IMPORT"
  /\ status[i] = "APPROVED"
  /\ Begin(s, Job("lockRate", i, None, "BANK_RATE_LOCKED", 0))
  /\ UNCHANGED <<direction, deposit, fields, chain, books, failures>>

(* Wrong on purpose: rial is taken before there is a rate.                  *)
ConfirmRialDepositEarly(s, i) ==
  /\ direction[i] = "IMPORT"
  /\ status[i] \in {"APPROVED", "BANK_RATE_LOCKED"}
  /\ Begin(s, Job("confirmRialDeposit", i, None, "RIAL_RECEIVED", 0))
  /\ UNCHANGED <<direction, deposit, fields, chain, books, failures>>

ConfirmRialDeposit(s, i) ==
  /\ direction[i] = "IMPORT"
  /\ status[i] = "BANK_RATE_LOCKED"
  /\ Begin(s, Job("confirmRialDeposit", i, None, "RIAL_RECEIVED", 0))
  /\ UNCHANGED <<direction, deposit, fields, chain, books, failures>>

(* The deadline binds an export only.                                       *)
StartPayment(s, i) ==
  /\ IF direction[i] = "IMPORT"
       THEN status[i] = "RIAL_RECEIVED"
       ELSE status[i] = "APPROVED" /\ window[i] = "open"
  /\ Begin(s, Job("startPayment", i, None, "PAYMENT_PENDING", 0))
  /\ UNCHANGED <<direction, deposit, fields, chain, books, failures>>

(* The payer hands over a hash: the node must know the transfer, it alone   *)
(* must cover the invoice, and its row - recorded at whatever finality it   *)
(* has - must not have been matched.                                        *)
ConfirmPayment(s, i, t) ==
  /\ status[i] \in {"PAYMENT_PENDING", IF direction[i] = "IMPORT" THEN "RIAL_RECEIVED" ELSE "APPROVED"}
  /\ shown[i]
  /\ mined[t] # "no"
  /\ Pays[t] = i
  /\ AmountOf({t}) >= Required(i)
  /\ ~matched[t]
  /\ row' = [row EXCEPT ![t] = IF mined[t] = "final" THEN "CONFIRMED" ELSE "CONFIRMING"]
  /\ Begin(s, Job("confirmPayment", i, t, "PAID", AmountOf({t})))
  /\ UNCHANGED <<direction, deposit, fields, mined, matched, books, failures>>

(* The admin's expire: any direction, deadline or not.                      *)
Expire(s, i) ==
  /\ status[i] \in {"PENDING", "APPROVED", "PAYMENT_PENDING"}
  /\ Begin(s, Job("expire", i, None, "EXPIRED", 0))
  /\ UNCHANGED <<direction, deposit, fields, chain, books, failures>>

(* The status it writes is the one it read.                                 *)
RequestCancel(s, i) ==
  /\ direction[i] = "IMPORT"
  /\ status[i] \in {"BANK_RATE_LOCKED", "RIAL_RECEIVED"}
  /\ ~cancelAsked[i]
  /\ Begin(s, Job("requestCancel", i, None, status[i], 0))
  /\ UNCHANGED <<direction, deposit, fields, chain, books, failures>>

(* Wrong on purpose: the file is shut with the rial still at the bank...    *)
CancelOutright(s, i) ==
  /\ direction[i] = "IMPORT"
  /\ status[i] \in {"BANK_RATE_LOCKED", "RIAL_RECEIVED"}
  /\ Begin(s, Job("cancel", i, None, "CANCELLED", 0))
  /\ UNCHANGED <<direction, deposit, fields, chain, books, failures>>

(* ... or owes rial that never came.                                        *)
CancelOwing(s, i) ==
  /\ direction[i] = "IMPORT"
  /\ status[i] \in {"BANK_RATE_LOCKED", "RIAL_RECEIVED"}
  /\ Begin(s, Job("cancel", i, None, "CANCELLING", 0))
  /\ UNCHANGED <<direction, deposit, fields, chain, books, failures>>

Cancel(s, i) ==
  /\ direction[i] = "IMPORT"
  /\ status[i] \in {"BANK_RATE_LOCKED", "RIAL_RECEIVED"}
  /\ Begin(s, Job("cancel", i, None,
                  IF status[i] = "RIAL_RECEIVED" THEN "CANCELLING" ELSE "CANCELLED", 0))
  /\ UNCHANGED <<direction, deposit, fields, chain, books, failures>>

ConfirmRialReturn(s, i) ==
  /\ status[i] = "CANCELLING"
  /\ Begin(s, Job("confirmRialReturn", i, None, "CANCELLED", 0))
  /\ UNCHANGED <<direction, deposit, fields, chain, books, failures>>

-----------------------------------------------------------------------------
(* The watcher.                                                             *)

(* Wrong on purpose: a called-off import is still open to a late transfer,  *)
(* or an expired invoice is not.                                            *)
ClosedButUnwinding == {"PAID", "REJECTED", "CANCELLED"}
ClosedOnceExpired == {"PAID", "REJECTED", "CANCELLING", "CANCELLED", "EXPIRED"}

Closed == {"PAID", "REJECTED", "CANCELLING", "CANCELLED"}

(* A pass sees a transfer: its row follows the block's finality, and until  *)
(* it is final the invoice is told how much is on its way.                  *)
SeeTransfer(t) ==
  /\ mined[t] # "no"
  /\ row' = [row EXCEPT ![t] = IF mined[t] = "final" THEN "CONFIRMED" ELSE "CONFIRMING"]
  /\ pending' = IF mined[t] = "final" THEN pending
                ELSE [pending EXCEPT ![Pays[t]] = AmountOf(Confirming(Pays[t]) \cup {t})]
  /\ UNCHANGED <<direction, status, window, deposit, shown, rateSet, rialIn, rialBack, cancelAsked,
                 received, mined, matched, books, work, failures>>

(* matchInvoice on a confirmed, unmatched row: sum the address, and decide  *)
(* between short and paid.  An expired invoice is not closed to it.         *)
MatchInvoice(s, t) ==
  LET i     == Pays[t]
      total == AmountOf(Confirmed(i))
  IN  /\ row[t] = "CONFIRMED"
      /\ ~matched[t]
      /\ status[i] \notin Closed
      /\ Begin(s, Job("match", i, t, IF total < Required(i) THEN "PAYMENT_PENDING" ELSE "PAID", total))
      /\ UNCHANGED <<direction, deposit, fields, chain, books, failures>>

(* What the sweep may close: never an import the bank has engaged with.     *)
Expirable(i) ==
  status[i] \in {"PENDING", "APPROVED"} \cup
                (IF direction[i] = "EXPORT" THEN {"PAYMENT_PENDING"} ELSE {})

(* Wrong on purpose: a sighting exempts an invoice for ever.                *)
StaleUnlessSeen(i) ==
  window[i] # "open" /\ received[i] = 0 /\ pending[i] = 0 /\ Expirable(i)

Stale(i) ==
  /\ window[i] # "open"
  /\ received[i] = 0
  /\ ~(pending[i] > 0 /\ window[i] = "lapsed")
  /\ Expirable(i)

ExpireStale(s, i) ==
  /\ Stale(i)
  /\ Begin(s, Job("expireStale", i, None, "EXPIRED", 0))
  /\ UNCHANGED <<direction, deposit, fields, chain, books, failures>>

-----------------------------------------------------------------------------
(* The writes.                                                              *)

(* Each handler's update, by id and whatever the status is by now.          *)
Commit(s) ==
  LET w == work[s]
      i == w.inv
  IN  /\ w # Idle
      /\ w.at = "commit"
      /\ status' = [status EXCEPT ![i] = w.to]
      /\ window' = [window EXCEPT ![i] = IF w.op = "lockRate" THEN "open" ELSE @]
      /\ shown' = [shown EXCEPT ![i] = @ \/ w.op = "approve"]
      /\ rateSet' = [rateSet EXCEPT ![i] = @ \/ w.op = "lockRate"]
      /\ rialIn' = [rialIn EXCEPT ![i] = @ \/ w.op = "confirmRialDeposit"]
      /\ rialBack' = [rialBack EXCEPT ![i] = (@ \/ w.op = "confirmRialReturn")
                                               /\ ~(w.op = "cancel" /\ w.to = "CANCELLED")]
      /\ cancelAsked' = [cancelAsked EXCEPT ![i] = @ \/ w.op = "requestCancel"]
      /\ received' = [received EXCEPT ![i] = IF w.op \in {"confirmPayment", "match"} THEN w.amount ELSE @]
      /\ pending' = [pending EXCEPT ![i] = IF w.op = "match" THEN 0 ELSE @]
      /\ matched' = [t \in Transfers |-> matched[t] \/ (w.op = "match" /\ w.to = "PAID" /\ t = w.tx)]
      /\ work' = [work EXCEPT ![s] = IF w.to = "PAID" THEN [w EXCEPT !.at = "check"] ELSE Idle]
      /\ UNCHANGED <<direction, deposit, mined, row, books, failures>>

(* Wrong on purpose: the payout is raised with the booking still to do.     *)
CheckNothing(s) ==
  /\ work[s] # Idle
  /\ work[s].at = "check"
  /\ work' = [work EXCEPT ![s].at = "payout"]
  /\ UNCHANGED <<direction, deposit, fields, chain, books, failures>>

(* postInvoicePaid asks the ledger whether this payment is already in it... *)
CheckPosted(s) ==
  LET w == work[s]
  IN  /\ w # Idle
      /\ w.at = "check"
      /\ work' = [work EXCEPT ![s].at = IF posted[w.inv] > 0 THEN "payout" ELSE "post"]
      /\ UNCHANGED <<direction, deposit, fields, chain, books, failures>>

(* ... and writes the entries if it was not.                                *)
PostInvoicePaid(s) ==
  LET w == work[s]
  IN  /\ w # Idle
      /\ w.at = "post"
      /\ posted' = [posted EXCEPT ![w.inv] = @ + 1]
      /\ work' = [work EXCEPT ![s].at = "payout"]
      /\ UNCHANGED <<direction, deposit, fields, chain, payout, failures>>

(* One payout per exported invoice: the unique index on sourceInvoiceId     *)
(* makes the check and the insert one step, and a loser's error is caught.  *)
RaisePayout(s) ==
  LET w == work[s]
      i == w.inv
  IN  /\ w # Idle
      /\ w.at = "payout"
      /\ payout' = [payout EXCEPT ![i] = IF direction[i] = "EXPORT" /\ @ = 0 THEN 1 ELSE @]
      /\ work' = [work EXCEPT ![s] = Idle]
      /\ UNCHANGED <<direction, deposit, fields, chain, posted, failures>>

(* The process serving it stops, or a database call throws.                 *)
Fail(s) ==
  /\ work[s] # Idle
  /\ failures < MaxFailures
  /\ failures' = failures + 1
  /\ work' = [work EXCEPT ![s] = Idle]
  /\ UNCHANGED <<direction, deposit, fields, chain, books>>

-----------------------------------------------------------------------------
(* The world: payers, the chain and the clock.                              *)

Transfer(t) ==
  /\ shown[Pays[t]]
  /\ mined[t] = "no"
  /\ mined' = [mined EXCEPT ![t] = "yes"]
  /\ UNCHANGED <<direction, deposit, fields, row, matched, books, work, failures>>

Finalize(t) ==
  /\ mined[t] = "yes"
  /\ mined' = [mined EXCEPT ![t] = "final"]
  /\ UNCHANGED <<direction, deposit, fields, row, matched, books, work, failures>>

Lapse(i) ==
  /\ window[i] # "graceOver"
  /\ window' = [window EXCEPT ![i] = IF @ = "open" THEN "lapsed" ELSE "graceOver"]
  /\ UNCHANGED <<direction, status, deposit, shown, rateSet, rialIn, rialBack, cancelAsked, received,
                 pending, chain, books, work, failures>>

Request(s, i) ==
  \/ Approve(s, i)
  \/ Reject(s, i)
  \/ LockRate(s, i)
  \/ ConfirmRialDeposit(s, i)
  \/ StartPayment(s, i)
  \/ \E t \in Transfers : ConfirmPayment(s, i, t)
  \/ Expire(s, i)
  \/ RequestCancel(s, i)
  \/ Cancel(s, i)
  \/ ConfirmRialReturn(s, i)

Continue(s) == Commit(s) \/ CheckPosted(s) \/ PostInvoicePaid(s) \/ RaisePayout(s)

Next ==
  \/ \E s \in Slots, i \in Invoices : Request(s, i)
  \/ \E s \in Sweepers, t \in Transfers : MatchInvoice(s, t)
  \/ \E s \in Sweepers, i \in Invoices : ExpireStale(s, i)
  \/ \E t \in Transfers : SeeTransfer(t)
  \/ \E s \in Workers : Continue(s)
  \/ \E s \in Workers : Fail(s)
  \/ \E t \in Transfers : Transfer(t) \/ Finalize(t)
  \/ \E i \in Invoices : Lapse(i)

Spec == Init /\ [][Next]_vars

(* A request once begun runs on unless it fails; the daemon keeps passing,  *)
(* and every pass looks at each transfer, retries each unmatched row and    *)
(* closes each stale invoice in turn, so none is passed over for ever in    *)
(* favour of another.  Nobody is made to act, no transfer to become final.  *)
Fairness ==
  /\ \A s \in Workers : WF_vars(Continue(s))
  /\ \A t \in Transfers : WF_vars(SeeTransfer(t))
  /\ \A t \in Transfers : SF_vars(\E s \in Sweepers : MatchInvoice(s, t))
  /\ \A i \in Invoices : SF_vars(\E s \in Sweepers : ExpireStale(s, i))

FairSpec == Spec /\ Fairness

-----------------------------------------------------------------------------
(* Properties that hold however the handlers overlap and die.               *)

Ops == {"idle", "approve", "reject", "lockRate", "confirmRialDeposit", "startPayment",
        "confirmPayment", "expire", "requestCancel", "cancel", "confirmRialReturn",
        "match", "expireStale"}
Jobs == [op : Ops, inv : Invoices \cup {None}, tx : Transfers \cup {None}, to : Statuses,
         amount : Nat, at : {"commit", "check", "post", "payout"}]

(* Values of the right kind.                                                *)
TypeOK ==
  /\ direction \in [Invoices -> Directions]
  /\ status \in [Invoices -> Statuses]
  /\ window \in [Invoices -> Windows]
  /\ deposit \in [Invoices -> BOOLEAN]
  /\ shown \in [Invoices -> BOOLEAN]
  /\ rateSet \in [Invoices -> BOOLEAN]
  /\ rialIn \in [Invoices -> BOOLEAN]
  /\ rialBack \in [Invoices -> BOOLEAN]
  /\ cancelAsked \in [Invoices -> BOOLEAN]
  /\ received \in [Invoices -> Nat]
  /\ pending \in [Invoices -> Nat]
  /\ mined \in [Transfers -> {"no", "yes", "final"}]
  /\ row \in [Transfers -> {"none", "CONFIRMING", "CONFIRMED"}]
  /\ matched \in [Transfers -> BOOLEAN]
  /\ posted \in [Invoices -> Nat]
  /\ payout \in [Invoices -> Nat]
  /\ work \in [Workers -> Jobs]
  /\ failures \in Nat

(* The rial leg happens in order and on imports only: rial is recorded in   *)
(* only against a locked rate, recorded back only after it came in, and the *)
(* statuses that speak of a rate or of rial are backed by the record of it, *)
(* even when a handler writes a status it chose from a stale read.          *)
RialLegInOrder ==
  \A i \in Invoices :
    /\ rateSet[i] => direction[i] = "IMPORT"
    /\ rialIn[i] => rateSet[i]
    /\ rialBack[i] => rialIn[i]
    /\ status[i] = "BANK_RATE_LOCKED" => rateSet[i]
    /\ status[i] \in {"RIAL_RECEIVED", "CANCELLING"} => rialIn[i]

(* PAID says the whole sum is on the chain at this invoice's own address -  *)
(* with the fee on top on an import - whichever path marked it and whatever *)
(* it raced with.                                                           *)
Mined(i) == {t \in Transfers : Pays[t] = i /\ mined[t] # "no"}
Owed(i) == Amount[i] + (IF direction[i] = "IMPORT" THEN Fee[i] ELSE 0)
PaidIsBacked ==
  \A i \in Invoices : status[i] = "PAID" =>
    received[i] >= Owed(i) /\ received[i] <= AmountOf(Mined(i))

(* Nothing becomes payable before the books know of the payment, an import  *)
(* never raises a payout, and an export never two.                          *)
PayoutAfterBooks ==
  \A i \in Invoices : payout[i] > 0 => /\ posted[i] > 0
                                       /\ direction[i] = "EXPORT"
                                       /\ payout[i] = 1

(* What a handler decided from the record it read is still true, as far as  *)
(* the two properties above need it, when it comes to write: a locked rate, *)
(* rial received and a transfer seen are never taken back, so a stale read  *)
(* of them is not wrong.                                                    *)
RialJob(op, i, to) ==
  /\ op = "lockRate" => to = "BANK_RATE_LOCKED" /\ direction[i] = "IMPORT"
  /\ op = "confirmRialDeposit" => to = "RIAL_RECEIVED" /\ rateSet[i]
  /\ op = "confirmRialReturn" => rialIn[i]
  /\ to = "BANK_RATE_LOCKED" => op = "lockRate" \/ rateSet[i]
  /\ to \in {"RIAL_RECEIVED", "CANCELLING"} => op = "confirmRialDeposit" \/ rialIn[i]
PaidJob(op, i, to, n) ==
  to = "PAID" => /\ op \in {"confirmPayment", "match"}
                 /\ n >= Owed(i)
                 /\ n <= AmountOf(Mined(i))
DecisionsStayTrue ==
  /\ \A t \in Transfers : row[t] # "none" => mined[t] # "no"
  /\ \A s \in Workers : work[s] # Idle =>
       /\ work[s].inv \in Invoices
       /\ RialJob(work[s].op, work[s].inv, work[s].to)
       /\ PaidJob(work[s].op, work[s].inv, work[s].to, work[s].amount)
       /\ work[s].at = "payout" => posted[work[s].inv] > 0

-----------------------------------------------------------------------------
(* Properties the code keeps when no two handlers are between the read and  *)
(* the write of one invoice.  Nothing in the code keeps them apart: that is *)
(* a hypothesis.  Different invoices, bookings, payouts, the chain and      *)
(* workers that die may interleave as they like.                            *)

Writing(s) == work[s] # Idle /\ work[s].at = "commit"

OneAtATime ==
  \A s, r \in Workers : s # r /\ Writing(s) /\ Writing(r) => work[s].inv # work[r].inv

(* A called-off file is square: rial that came in has gone back.            *)
ClosedFileHoldsNoRial ==
  \A i \in Invoices : status[i] = "CANCELLED" /\ rialIn[i] => rialBack[i]

(* The file an invoice keeps, as InvoicePromise speaks of it.               *)
Phase(i) ==
  CASE status[i] = "PENDING"    -> "review"
    [] status[i] = "EXPIRED"    -> "lapsed"
    [] status[i] = "REJECTED"   -> "refused"
    [] status[i] = "CANCELLING" -> "unwinding"
    [] status[i] = "CANCELLED"  -> "cancelled"
    [] status[i] = "PAID"       -> "paid"
    [] OTHER                    -> "open"
Custody(i) ==
  IF ~rialIn[i] THEN "none" ELSE IF rialBack[i] THEN "returned" ELSE "held"

Promise == INSTANCE InvoicePromise WITH
             phase <- [i \in Invoices |-> Phase(i)], rial <- [i \in Invoices |-> Custody(i)]

(* One at a time the handlers implement the promised life of an invoice.    *)
KeepsPromise == Promise!Spec

-----------------------------------------------------------------------------
(* Progress.                                                                *)

Final(i) == {t \in Transfers : Pays[t] = i /\ mined[t] = "final"}

(* A deposit that became final and covers the invoice decides it: it does   *)
(* not sit confirmed with nobody looking, even if it came in parts or after *)
(* the invoice had expired.                                                 *)
FundedIsDecided ==
  \A i \in Invoices : (AmountOf(Final(i)) >= Owed(i))
                        ~> (status[i] \in {"PAID", "REJECTED", "CANCELLING", "CANCELLED"})

(* An invoice nothing arrived for is closed once its window is over, even   *)
(* if a transfer was once seen that never became final.                     *)
AbandonedIsExpired ==
  \A i \in Invoices :
    (window[i] = "graceOver" /\ received[i] = 0 /\ Expirable(i))
      ~> ~(window[i] = "graceOver" /\ received[i] = 0 /\ Expirable(i))

=============================================================================
