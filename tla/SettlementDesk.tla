--------------------------- MODULE SettlementDesk ---------------------------
(***************************************************************************)
(* What happens to a payment once it is in: the rial settlement of an       *)
(* export or of crypto a merchant hands the bank directly, the release of a *)
(* deposit address, a refund, and the ledger entries each of them writes.   *)
(*                                                                          *)
(* As in InvoiceLifecycle a handler reads and decides in one step, writes   *)
(* by id in a second, and books in a third and fourth (is it posted? post); *)
(* other workers run in between, and a worker may die between any two.      *)
(* An invoice enters here PAID, booked and with its payout raised.          *)
(*                                                                          *)
(* Every file is one merchant's.  Books are kept per trade, the ledger's    *)
(* balances being their sums; the bank's margin, in rial, is left out.      *)
(***************************************************************************)
EXTENDS FeeSplit, FiniteSets, Functions, Sequences

CONSTANTS Exports, Imports,  \* paid invoices
          Direct,            \* settlements a merchant raises without an invoice
          Refunds, RefundOf, \* refund rows, and the invoice each is for
          Payments,          \* sufficient transfers to the bank's wallet
          Slots, Sweepers, None,
          Gross,             \* per trade: what was received or is handed over
          Terms,             \* per invoice: the fee terms of its address
          DirectFee,         \* per direct settlement
          Limit,             \* dailySettlementLimit
          Percents,          \* values of freezoneSharePercent
          MaxHeld,           \* bound: tokens at one address
          MaxReleases,       \* bound: releases of one address
          MaxReceipts,       \* bound: rial payments recorded on one file
          MaxFailures        \* bound: workers that die half-way

Invoices == Exports \cup Imports
Files    == Exports \cup Direct      \* whatever has a settlement row
Trades   == Invoices \cup Direct
Workers  == Slots \cup Sweepers

ASSUME ConstantsAssumption ==
  /\ Exports \cap Imports = {} /\ Invoices \cap Direct = {}
  /\ RefundOf \in [Refunds -> Invoices]
  /\ Gross \in [Trades -> Nat \ {0}]
  /\ Terms \in [Invoices -> FeeTerms]
  /\ DirectFee \in [Direct -> Nat]
  /\ \A d \in Direct : DirectFee[d] <= Gross[d]
  /\ Percents \subseteq 0 .. 100
  /\ None \notin Trades \cup Payments \cup Refunds
  /\ IsFiniteSet(Files)
  /\ Limit \in Nat /\ MaxFailures \in Nat

Statuses == {"AWAITING_ADMIN", "AWAITING_BANK", "BANK_RATE_LOCKED", "CRYPTO_RECEIVED",
             "CRYPTO_CONFIRMED", "SETTLED", "REJECTED"}
RefundStatuses == {"REQUESTED", "APPROVED", "SENT", "REJECTED"}
Kinds == {"DEPOSIT_RELEASED", "SETTLEMENT_FUNDED", "SETTLEMENT_SETTLED", "REFUND_SENT"}

VARIABLES
  percent,    \* settings.freezoneSharePercent
  status,     \* per file: the settlement's status, or "none"
  account,    \* payoutAccount
  priced,     \* rateLocked, and on a direct file the bank's wallet announced
  funding,    \* chainTxId of a direct file
  given,      \* every transfer ever recorded as its funding
  receipts,   \* rial payments recorded by the bank
  mined,      \* per transfer: "no", "yes", "final" on the chain
  row,        \* per transfer: its ChainTx row
  paid,       \* per invoice
  held,       \* tokens lying at its address
  releases,   \* totals of its Released events, in order
  swept,      \* sweptAt
  refund,     \* per refund: its status, or "none"
  books,      \* per trade: ledger balances
  posted,     \* <<kind, subject>> of the groups in the ledger
  work, failures

files    == <<status, account, priced, funding, given, receipts>>
chain    == <<mined, row>>
deposits == <<paid, held, releases, swept>>
ledger   == <<books, posted>>
vars     == <<percent, files, chain, deposits, refund, ledger, work, failures>>

-----------------------------------------------------------------------------
(* The ledger's groups.                                                     *)

Accounts == {"DEPOSIT_HELD", "BANK_HELD", "MERCHANT_PAYABLE", "GATEWAY_SHARE", "FREEZONE_SHARE",
             "GATEWAY_PAID", "FREEZONE_PAID", "SUPPLIER_PAID", "REFUNDED"}

Nothing == [a \in Accounts |-> 0]

Plus(b, g) == [a \in Accounts |-> b[a] + g[a]]

(* splitGatewayFee: by the settings of the day, rounding to the gateway.    *)
ZoneShare(fee, p) == (fee * p) \div 100

PaidSplit(i) == Split(Terms[i], Gross[i])
InvoiceFee(i) == PaidSplit(i).gateway + PaidSplit(i).freezone

(* What the merchant is owed on a file: amount less fee.                    *)
Net(f) == IF f \in Direct THEN Gross[f] - DirectFee[f] ELSE PaidSplit(f).beneficiary

(* Wrong on purpose: booked by the settings, not by the address's terms.    *)
InvoicePaidBySettings(i) ==
  [Nothing EXCEPT !.DEPOSIT_HELD = Gross[i],
                  !.MERCHANT_PAYABLE = IF i \in Exports THEN PaidSplit(i).beneficiary ELSE 0,
                  !.GATEWAY_SHARE = InvoiceFee(i) - ZoneShare(InvoiceFee(i), percent),
                  !.FREEZONE_SHARE = ZoneShare(InvoiceFee(i), percent)]

InvoicePaidGroup(i) ==
  [Nothing EXCEPT !.DEPOSIT_HELD = Gross[i],
                  !.MERCHANT_PAYABLE = IF i \in Exports THEN PaidSplit(i).beneficiary ELSE 0,
                  !.GATEWAY_SHARE = PaidSplit(i).gateway,
                  !.FREEZONE_SHARE = PaidSplit(i).freezone]

ReleasedGroup(i, total) ==
  LET s == Split(Terms[i], total)
  IN  [Nothing EXCEPT !.DEPOSIT_HELD = -total,
                      !.SUPPLIER_PAID = IF i \in Imports THEN s.beneficiary ELSE 0,
                      !.BANK_HELD = IF i \in Imports THEN 0 ELSE s.beneficiary,
                      !.GATEWAY_PAID = s.gateway,
                      !.FREEZONE_PAID = s.freezone,
                      !.GATEWAY_SHARE = -s.gateway,
                      !.FREEZONE_SHARE = -s.freezone]

FundedGroup(d) ==
  [Nothing EXCEPT !.BANK_HELD = Gross[d],
                  !.MERCHANT_PAYABLE = Net(d),
                  !.GATEWAY_SHARE = DirectFee[d] - ZoneShare(DirectFee[d], percent),
                  !.FREEZONE_SHARE = ZoneShare(DirectFee[d], percent)]

(* Wrong on purpose: the debt goes, the tokens the bank bought stay.        *)
SettledKeepingTokens(f) == [Nothing EXCEPT !.MERCHANT_PAYABLE = -Net(f)]

SettledGroup(f) ==
  [Nothing EXCEPT !.MERCHANT_PAYABLE = -Net(f), !.BANK_HELD = -Net(f)]

(* On an import too it is MERCHANT_PAYABLE that is reversed.                *)
RefundSentGroup(i) ==
  [Nothing EXCEPT !.REFUNDED = Gross[i],
                  !.DEPOSIT_HELD = -Gross[i],
                  !.MERCHANT_PAYABLE = -PaidSplit(i).beneficiary,
                  !.GATEWAY_SHARE = ZoneShare(InvoiceFee(i), percent) - InvoiceFee(i),
                  !.FREEZONE_SHARE = -ZoneShare(InvoiceFee(i), percent)]

-----------------------------------------------------------------------------
Idle == [op |-> "idle", on |-> None, by |-> None, to |-> "none", n |-> 0, kind |-> "none", at |-> "commit"]

Job(op, x, y, to) == [op |-> op, on |-> x, by |-> y, to |-> to, n |-> 0, kind |-> "none", at |-> "commit"]

Begin(s, job) == work[s] = Idle /\ work' = [work EXCEPT ![s] = job]

(* A handler that so far has only read.                                     *)
Decide(s, job) ==
  Begin(s, job) /\ UNCHANGED <<percent, files, chain, deposits, refund, ledger, failures>>

Init ==
  /\ percent \in Percents
  /\ status = [f \in Files |-> "none"]
  /\ account = [f \in Files |-> FALSE]
  /\ priced = [f \in Files |-> FALSE]
  /\ funding = [d \in Direct |-> None]
  /\ given = [d \in Direct |-> {}]
  /\ receipts = [f \in Files |-> 0]
  /\ mined = [t \in Payments |-> "no"]
  /\ row = [t \in Payments |-> "none"]
  /\ paid = [i \in Invoices |-> FALSE]
  /\ held = [i \in Invoices |-> 0]
  /\ releases = [i \in Invoices |-> <<>>]
  /\ swept = [i \in Invoices |-> FALSE]
  /\ refund = [r \in Refunds |-> "none"]
  /\ books = [x \in Trades |-> Nothing]
  /\ posted = {}
  /\ work = [s \in Workers |-> Idle]
  /\ failures = 0

(* The invoice is marked PAID, booked by the terms of its own address, and  *)
(* an export's payout is raised with nothing to send and no fee to pay.     *)
InvoicePaid(i) ==
  /\ ~paid[i]
  /\ paid' = [paid EXCEPT ![i] = TRUE]
  /\ held' = [held EXCEPT ![i] = @ + Gross[i]]
  /\ books' = [books EXCEPT ![i] = Plus(@, InvoicePaidGroup(i))]
  /\ status' = IF i \in Exports THEN [status EXCEPT ![i] = "AWAITING_BANK"] ELSE status
  /\ UNCHANGED <<percent, account, priced, funding, given, receipts, chain, releases, swept,
                 refund, posted, work, failures>>

SetPercent(p) ==
  /\ percent' = p
  /\ UNCHANGED <<files, chain, deposits, refund, ledger, work, failures>>

-----------------------------------------------------------------------------
(* Settlements.                                                             *)

(* A row is created once: no other request is creating the same one.        *)
Fresh(op, x) == \A s \in Workers : work[s].op = op => x \notin {work[s].on, work[s].by}

(* What a file's row asks for: the gross handed over, an export's net.      *)
Amount == [f \in Files |-> IF f \in Direct THEN Gross[f] ELSE Net(f)]
AmountOf(S) == SumFunctionOnSet(Amount, S)

Counted == {f \in Files : status[f] \notin {"none", "REJECTED"}}

(* Wrong on purpose: only the request itself is held against the limit.     *)
SubmitUnlimited(s, d) ==
  /\ status[d] = "none" /\ Fresh("submit", d)
  /\ AmountOf({d}) <= Limit
  /\ Decide(s, Job("submit", d, None, "AWAITING_ADMIN"))

(* A merchant asks; what they already asked for today is summed first.      *)
Submit(s, d) ==
  /\ status[d] = "none" /\ Fresh("submit", d)
  /\ AmountOf(Counted) + AmountOf({d}) <= Limit
  /\ Decide(s, Job("submit", d, None, "AWAITING_ADMIN"))

(* The status it writes is the one it read.                                 *)
SetPayoutAccount(s, f) ==
  /\ status[f] \in {"AWAITING_ADMIN", "AWAITING_BANK"}
  /\ Decide(s, Job("setPayoutAccount", f, None, status[f]))

ApproveAdmin(s, f) ==
  /\ status[f] = "AWAITING_ADMIN"
  /\ Decide(s, Job("approveAdmin", f, None, "AWAITING_BANK"))

RejectAdmin(s, f) ==
  /\ status[f] = "AWAITING_ADMIN"
  /\ Decide(s, Job("rejectAdmin", f, None, "REJECTED"))

(* Wrong on purpose: a rate is locked with nowhere to send the rial.        *)
LockRateBlind(s, f) ==
  /\ status[f] = "AWAITING_BANK"
  /\ Decide(s, Job("lockRate", f, None, "BANK_RATE_LOCKED"))

LockRate(s, f) ==
  /\ status[f] = "AWAITING_BANK"
  /\ account[f]
  /\ Decide(s, Job("lockRate", f, None, "BANK_RATE_LOCKED"))

(* Wrong on purpose: any transfer the node knows counts as confirmed.       *)
SubmitPayoutTxEager(s, d, t) ==
  /\ status[d] = "BANK_RATE_LOCKED"
  /\ priced[d]
  /\ mined[t] # "no"
  /\ row' = [row EXCEPT ![t] = IF mined[t] = "final" THEN "CONFIRMED" ELSE "CONFIRMING"]
  /\ Begin(s, Job("submitPayoutTx", d, t, "CRYPTO_CONFIRMED"))
  /\ UNCHANGED <<percent, files, mined, deposits, refund, ledger, failures>>

(* The merchant hands over the hash: it is verified and recorded before the *)
(* settlement is connected to it, and only a final one skips the watcher.   *)
SubmitPayoutTx(s, d, t) ==
  /\ status[d] = "BANK_RATE_LOCKED"
  /\ priced[d]
  /\ mined[t] # "no"
  /\ row' = [row EXCEPT ![t] = IF mined[t] = "final" THEN "CONFIRMED" ELSE "CONFIRMING"]
  /\ Begin(s, Job("submitPayoutTx", d, t,
                  IF mined[t] = "final" THEN "CRYPTO_CONFIRMED" ELSE "CRYPTO_RECEIVED"))
  /\ UNCHANGED <<percent, files, mined, deposits, refund, ledger, failures>>

(* Wrong on purpose: a settlement may be settled again.                     *)
SettleAgain(s, f) ==
  /\ receipts[f] < MaxReceipts
  /\ status[f] \in {"CRYPTO_CONFIRMED", "SETTLED"} \cup (IF f \in Exports THEN {"BANK_RATE_LOCKED"} ELSE {})
  /\ Decide(s, Job("settle", f, None, "SETTLED"))

(* An invoice's payout skips the crypto leg.                                *)
Settle(s, f) ==
  /\ receipts[f] < MaxReceipts
  /\ status[f] \in {"CRYPTO_CONFIRMED"} \cup (IF f \in Exports THEN {"BANK_RATE_LOCKED"} ELSE {})
  /\ Decide(s, Job("settle", f, None, "SETTLED"))

(* Wrong on purpose: what has been paid in rial can still be refused.       *)
RejectBankLate(s, f) ==
  /\ status[f] \in {"AWAITING_BANK", "BANK_RATE_LOCKED", "CRYPTO_CONFIRMED", "SETTLED"}
  /\ Decide(s, Job("rejectBank", f, None, "REJECTED"))

RejectBank(s, f) ==
  /\ status[f] \in {"AWAITING_BANK", "BANK_RATE_LOCKED", "CRYPTO_CONFIRMED"}
  /\ Decide(s, Job("rejectBank", f, None, "REJECTED"))

Taken(d, t) == \E e \in Direct \ {d} : funding[e] = t   \* chainTxId is unique

SettlementOps == {"submit", "setPayoutAccount", "approveAdmin", "rejectAdmin", "lockRate",
                  "submitPayoutTx", "settle", "rejectBank", "promote"}

(* The booking that follows a write, if any.                                *)
Books(w) ==
  CASE w.op = "submitPayoutTx" -> "SETTLEMENT_FUNDED"
    [] w.to = "SETTLED"        -> "SETTLEMENT_SETTLED"
    [] w.op = "recordRelease"  -> "DEPOSIT_RELEASED"
    [] w.to = "SENT"           -> "REFUND_SENT"
    [] OTHER                   -> "none"

(* Wrong on purpose: a funded settlement is not booked.                     *)
NextStepUnfunded(w) ==
  IF Books(w) \in {"none", "SETTLEMENT_FUNDED"} THEN Idle ELSE [w EXCEPT !.kind = Books(w), !.at = "check"]

NextStep(w) ==
  IF Books(w) = "none" THEN Idle ELSE [w EXCEPT !.kind = Books(w), !.at = "check"]

(* The update, by id and whatever the status is by now.  A transfer that    *)
(* already funds another settlement makes it throw, and nothing is written. *)
CommitSettlement(s) ==
  LET w == work[s]
      f == w.on
  IN  /\ w.op \in SettlementOps
      /\ w.at = "commit"
      /\ IF w.op = "submitPayoutTx" /\ Taken(f, w.by)
           THEN UNCHANGED files /\ work' = [work EXCEPT ![s] = Idle]
           ELSE /\ status' = [status EXCEPT ![f] = w.to]
                /\ account' = [account EXCEPT ![f] = @ \/ w.op \in {"submit", "setPayoutAccount"}]
                /\ priced' = [priced EXCEPT ![f] = @ \/ w.op = "lockRate"]
                /\ funding' = [d \in Direct |-> IF w.op = "submitPayoutTx" /\ d = f THEN w.by ELSE funding[d]]
                /\ given' = [d \in Direct |->
                               given[d] \cup (IF w.op = "submitPayoutTx" /\ d = f THEN {w.by} ELSE {})]
                /\ receipts' = [receipts EXCEPT ![f] = IF w.op = "settle" THEN @ + 1 ELSE @]
                /\ work' = [work EXCEPT ![s] = NextStep(w)]
      /\ UNCHANGED <<percent, chain, deposits, refund, ledger, failures>>

(* A watcher pass whose scan window reaches the transfer: the row follows   *)
(* the block's finality, and no settlement is looked for.                   *)
Scan(t) ==
  /\ mined[t] # "no"
  /\ row' = [row EXCEPT ![t] = IF mined[t] = "final" THEN "CONFIRMED" ELSE "CONFIRMING"]
  /\ UNCHANGED <<percent, files, mined, deposits, refund, ledger, work, failures>>

(* refreshConfirmations on a maturing row: confirmed, and then ...          *)
Refresh(s, t) ==
  /\ row[t] = "CONFIRMING"
  /\ mined[t] = "final"
  /\ row' = [row EXCEPT ![t] = "CONFIRMED"]
  /\ Begin(s, [Job("promote", None, t, "CRYPTO_CONFIRMED") EXCEPT !.at = "find"])
  /\ UNCHANGED <<percent, files, mined, deposits, refund, ledger, failures>>

(* ... promoteSettlement: the settlement waiting on it, if there is one.    *)
FindSettlement(s) ==
  LET w       == work[s]
      waiting == {d \in Direct : funding[d] = w.by /\ status[d] = "CRYPTO_RECEIVED"}
  IN  /\ w.at = "find"
      /\ IF waiting = {}
           THEN work' = [work EXCEPT ![s] = Idle]
           ELSE \E d \in waiting : work' = [work EXCEPT ![s] = [w EXCEPT !.on = d, !.at = "commit"]]
      /\ UNCHANGED <<percent, files, chain, deposits, refund, ledger, failures>>

-----------------------------------------------------------------------------
(* Deposit addresses.                                                       *)

(* Money still comes in at the address of a paid invoice.                   *)
LatePayment(i) ==
  /\ paid[i]
  /\ held[i] < MaxHeld
  /\ held' = [held EXCEPT ![i] = @ + 1]
  /\ UNCHANGED <<percent, files, chain, paid, releases, swept, refund, ledger, work, failures>>

(* On the chain: everything at the address is split (AfaGateway!PayOut).    *)
Release(i) ==
  /\ held[i] > 0
  /\ Len(releases[i]) < MaxReleases
  /\ releases' = [releases EXCEPT ![i] = Append(@, held[i])]
  /\ held' = [held EXCEPT ![i] = 0]
  /\ UNCHANGED <<percent, files, chain, paid, swept, refund, ledger, work, failures>>

(* The bank reports one release by its hash; once swept, an address is done.*)
RecordRelease(s, i, n) ==
  /\ ~swept[i]
  /\ n \in DOMAIN releases[i]
  /\ Decide(s, [Job("recordRelease", i, None, "none") EXCEPT !.n = n])

CommitRelease(s) ==
  LET w == work[s]
  IN  /\ w.op = "recordRelease"
      /\ w.at = "commit"
      /\ swept' = [swept EXCEPT ![w.on] = TRUE]
      /\ work' = [work EXCEPT ![s] = NextStep(w)]
      /\ UNCHANGED <<percent, files, chain, paid, held, releases, refund, ledger, failures>>

-----------------------------------------------------------------------------
(* Refunds.                                                                 *)

Settled(i) == i \in Exports /\ status[i] = "SETTLED"

RequestRefund(s, r) ==
  /\ refund[r] = "none" /\ Fresh("requestRefund", r)
  /\ paid[RefundOf[r]]
  /\ \A q \in Refunds : RefundOf[q] = RefundOf[r] => refund[q] \in {"none", "REJECTED"}
  /\ ~Settled(RefundOf[r])
  /\ Decide(s, Job("requestRefund", RefundOf[r], r, "REQUESTED"))

ApproveRefund(s, r) ==
  /\ refund[r] = "REQUESTED"
  /\ Decide(s, Job("approveRefund", RefundOf[r], r, "APPROVED"))

RejectRefund(s, r) ==
  /\ refund[r] \in {"REQUESTED", "APPROVED"}
  /\ Decide(s, Job("rejectRefund", RefundOf[r], r, "REJECTED"))

(* The bank made the transfer to the payer and the node knows it.           *)
MarkSent(s, r) ==
  /\ refund[r] = "APPROVED"
  /\ Decide(s, Job("markSent", RefundOf[r], r, "SENT"))

RefundOps == {"requestRefund", "approveRefund", "rejectRefund", "markSent"}

CommitRefund(s) ==
  LET w == work[s]
  IN  /\ w.op \in RefundOps
      /\ w.at = "commit"
      /\ refund' = [refund EXCEPT ![w.by] = w.to]
      /\ work' = [work EXCEPT ![s] = NextStep(w)]
      /\ UNCHANGED <<percent, files, chain, deposits, ledger, failures>>

-----------------------------------------------------------------------------
(* Booking: ask the ledger, then write.                                     *)

Subject(w) == IF w.kind = "REFUND_SENT" THEN w.by ELSE w.on

Group(w) ==
  CASE w.kind = "DEPOSIT_RELEASED"   -> ReleasedGroup(w.on, releases[w.on][w.n])
    [] w.kind = "SETTLEMENT_FUNDED"  -> FundedGroup(w.on)
    [] w.kind = "SETTLEMENT_SETTLED" -> SettledGroup(w.on)
    [] w.kind = "REFUND_SENT"        -> RefundSentGroup(w.on)

CheckPosted(s) ==
  LET w == work[s]
  IN  /\ w.at = "check"
      /\ work' = [work EXCEPT ![s] = IF <<w.kind, Subject(w)>> \in posted THEN Idle ELSE [w EXCEPT !.at = "post"]]
      /\ UNCHANGED <<percent, files, chain, deposits, refund, ledger, failures>>

Post(s) ==
  LET w == work[s]
  IN  /\ w.at = "post"
      /\ books' = [books EXCEPT ![w.on] = Plus(@, Group(w))]
      /\ posted' = posted \cup {<<w.kind, Subject(w)>>}
      /\ work' = [work EXCEPT ![s] = Idle]
      /\ UNCHANGED <<percent, files, chain, deposits, refund, failures>>

Fail(s) ==
  /\ work[s] # Idle
  /\ failures < MaxFailures
  /\ failures' = failures + 1
  /\ work' = [work EXCEPT ![s] = Idle]
  /\ UNCHANGED <<percent, files, chain, deposits, refund, ledger>>

-----------------------------------------------------------------------------
(* The chain.                                                               *)

Transfer(t) ==
  /\ mined[t] = "no"
  /\ \E d \in Direct : priced[d]
  /\ mined' = [mined EXCEPT ![t] = "yes"]
  /\ UNCHANGED <<percent, files, row, deposits, refund, ledger, work, failures>>

Finalize(t) ==
  /\ mined[t] = "yes"
  /\ mined' = [mined EXCEPT ![t] = "final"]
  /\ UNCHANGED <<percent, files, row, deposits, refund, ledger, work, failures>>

-----------------------------------------------------------------------------
Ask(s) ==
  \/ \E d \in Direct : Submit(s, d)
  \/ \E f \in Files : \/ SetPayoutAccount(s, f) \/ ApproveAdmin(s, f) \/ RejectAdmin(s, f)
                      \/ LockRate(s, f) \/ Settle(s, f) \/ RejectBank(s, f)
  \/ \E d \in Direct, t \in Payments : SubmitPayoutTx(s, d, t)
  \/ \E i \in Invoices, n \in 1 .. MaxReleases : RecordRelease(s, i, n)
  \/ \E r \in Refunds : RequestRefund(s, r) \/ ApproveRefund(s, r) \/ RejectRefund(s, r) \/ MarkSent(s, r)

Continue(s) ==
  CommitSettlement(s) \/ CommitRelease(s) \/ CommitRefund(s) \/ FindSettlement(s) \/ CheckPosted(s) \/ Post(s)

World ==
  \/ \E p \in Percents : SetPercent(p)
  \/ \E i \in Invoices : InvoicePaid(i) \/ LatePayment(i) \/ Release(i)
  \/ \E t \in Payments : Transfer(t) \/ Finalize(t) \/ Scan(t)

Next ==
  \/ \E s \in Slots : Ask(s)
  \/ \E s \in Sweepers, t \in Payments : Refresh(s, t)
  \/ \E s \in Workers : Continue(s) \/ Fail(s)
  \/ World

Spec == Init /\ [][Next]_vars

(* A request being served goes on; the chain makes what it keeps final; the *)
(* daemon passes for ever, so a row that is maturing is looked at again.    *)
Fairness ==
  /\ \A s \in Workers : WF_vars(Continue(s))
  /\ \A t \in Payments : WF_vars(Finalize(t)) /\ SF_vars(\E s \in Sweepers : Refresh(s, t))

FairSpec == Spec /\ Fairness

-----------------------------------------------------------------------------
(* Properties that hold however the handlers overlap and die.               *)

Ops == {"idle", "recordRelease"} \cup SettlementOps \cup RefundOps
Jobs == [op : Ops, on : Trades \cup {None}, by : Payments \cup Refunds \cup {None},
         to : Statuses \cup RefundStatuses \cup {"none"}, n : Nat, kind : Kinds \cup {"none"},
         at : {"commit", "find", "check", "post"}]
Balances == [Accounts -> Int]

(* Values of the right kind.                                                *)
TypeOK ==
  /\ percent \in Percents
  /\ status \in [Files -> Statuses \cup {"none"}]
  /\ account \in [Files -> BOOLEAN]
  /\ priced \in [Files -> BOOLEAN]
  /\ funding \in [Direct -> Payments \cup {None}]
  /\ given \in [Direct -> SUBSET Payments]
  /\ receipts \in [Files -> Nat]
  /\ mined \in [Payments -> {"no", "yes", "final"}]
  /\ row \in [Payments -> {"none", "CONFIRMING", "CONFIRMED"}]
  /\ paid \in [Invoices -> BOOLEAN]
  /\ held \in [Invoices -> Nat]
  /\ releases \in [Invoices -> Seq(Nat)]
  /\ swept \in [Invoices -> BOOLEAN]
  /\ refund \in [Refunds -> RefundStatuses \cup {"none"}]
  /\ books \in [Trades -> Balances]
  /\ posted \subseteq Kinds \X (Trades \cup Refunds)
  /\ work \in [Workers -> Jobs]
  /\ failures \in Nat

(* The books of every trade balance, whatever was booked, in whatever order *)
(* and however often: tokens held are what merchants, gateway and free zone *)
(* are owed; and on an import, with what the seller has had and is due.     *)
Owed(b) == b.MERCHANT_PAYABLE + b.GATEWAY_SHARE + b.FREEZONE_SHARE
BooksBalance ==
  /\ \A x \in Exports \cup Direct : books[x].DEPOSIT_HELD + books[x].BANK_HELD = Owed(books[x])
  /\ \A i \in Imports : books[i].DEPOSIT_HELD + books[i].SUPPLIER_PAID
                          = Owed(books[i]) + (IF paid[i] THEN PaidSplit(i).beneficiary ELSE 0)

(* Rial is never paid out without a locked rate and an account named by the *)
(* merchant, even when a handler writes a status it read long before.       *)
RialAgainstRate == \A f \in Files : receipts[f] > 0 => priced[f] /\ account[f]

(* Rial is never paid out for crypto that the chain might still take back:  *)
(* on a direct file a recorded transfer is final, on an export the invoice  *)
(* has been paid.                                                           *)
HasFinal(d) == \E t \in given[d] : mined[t] = "final"
RialBacked ==
  /\ \A d \in Direct : receipts[d] > 0 => HasFinal(d)
  /\ \A i \in Exports : receipts[i] > 0 => paid[i]

(* What a handler decided from the record it read is still true, as far as  *)
(* the properties above need it, when it comes to write: prices, accounts,  *)
(* payments and final transfers are never taken back.                       *)
Priced == {"BANK_RATE_LOCKED", "CRYPTO_RECEIVED", "CRYPTO_CONFIRMED", "SETTLED"}
Backed == {"CRYPTO_CONFIRMED", "SETTLED"}

FileHolds(f) ==
  /\ status[f] \in Priced => priced[f] /\ account[f]
  /\ f \in Exports /\ status[f] # "none" => paid[f]
  /\ f \in Direct /\ status[f] \in Backed => HasFinal(f)

SettlementJob(w) ==
  /\ w.on \in Files /\ w.to \in Statuses
  /\ w.on \in Exports => paid[w.on]
  /\ w.to \in Priced => account[w.on] /\ (w.op = "lockRate" \/ priced[w.on])
  /\ w.on \in Direct /\ w.to \in Backed =>
       HasFinal(w.on) \/ (w.op = "submitPayoutTx" /\ mined[w.by] = "final")
  /\ w.op = "submitPayoutTx" => w.on \in Direct /\ w.by \in Payments
  /\ w.op = "settle" <=> w.to = "SETTLED"
  /\ w.at # "commit" => w.op \in {"submitPayoutTx", "settle"}

JobHolds(w) ==
  /\ w.op \in SettlementOps /\ w.at # "find" => SettlementJob(w)
  /\ w.at = "find" => w.op = "promote" /\ w.by \in Payments /\ mined[w.by] = "final"
                       /\ w.to = "CRYPTO_CONFIRMED"
  /\ w.op = "recordRelease" => w.on \in Invoices /\ w.n \in DOMAIN releases[w.on] /\ w.to = "none"
  /\ w.op \in RefundOps => w.on \in Invoices /\ w.by \in Refunds /\ w.to \in RefundStatuses
  /\ w.at \in {"check", "post"} => w.op # "idle" /\ w.kind = Books(w) /\ w.kind # "none"

DecisionsHold ==
  /\ \A f \in Files : FileHolds(f)
  /\ \A d \in Direct : funding[d] # None => funding[d] \in given[d]
  /\ \A s \in Workers : JobHolds(work[s])

-----------------------------------------------------------------------------
(* Properties the code keeps when no two handlers are between the read and  *)
(* the write of one row, and for the last of them when a merchant has one   *)
(* request under way.  Nothing in the code keeps them apart: these are      *)
(* hypotheses.  Handlers of different rows, the ledger entries of any, the  *)
(* chain and passes of the watcher may interleave as they like.             *)

Writing(w) == w.op # "idle" /\ w.at = "commit"

Row(w) ==
  CASE w.op = "recordRelease" -> <<"address", w.on>>
    [] w.op \in RefundOps     -> <<"refund", w.by>>
    [] OTHER                  -> <<"file", w.on>>

Rivals(s, r) == s # r /\ Writing(work[s]) /\ Writing(work[r])

RowsApart == \A s, r \in Workers : Rivals(s, r) => Row(work[s]) # Row(work[r])

SubmitsApart ==
  \A s, r \in Workers : Rivals(s, r) => ~(work[s].op = "submit" /\ work[r].op = "submit")

Apart == RowsApart /\ SubmitsApart

(* Rial is paid once per settlement.                                        *)
ReceiptOnce == \A f \in Files : receipts[f] <= 1

(* Settled and rejected are ends: no later handler reopens or swaps them.   *)
EndsAreFinal ==
  [][\A f \in Files : status[f] \in {"SETTLED", "REJECTED"} => status'[f] = status[f]]_status

(* What a merchant has asked for directly and not been refused stays within *)
(* the daily limit.                                                         *)
WithinDailyLimit == AmountOf(Counted \cap Direct) <= Limit

(* With nothing in progress, the books owe a merchant the net of what came  *)
(* in and has not been settled, and nothing after.  (A file that is both    *)
(* settled and refunded is left out: the code lets that happen.)            *)
Resting == \A s \in Workers : work[s] = Idle
Came(f) == IF f \in Exports THEN paid[f] ELSE funding[f] # None
Returned(i) == \E r \in Refunds : RefundOf[r] = i /\ refund[r] = "SENT"
BooksAgreeWithFiles ==
  Resting => \A f \in Files : (f \in Exports => ~Returned(f)) =>
    books[f].MERCHANT_PAYABLE = IF Came(f) /\ status[f] # "SETTLED" THEN Net(f) ELSE 0

(* What the contract pays out is what was booked as owed: a deposit of the  *)
(* invoice's own sum, released and recorded, leaves no fee outstanding and  *)
(* nothing held.                                                            *)
ReleaseClearsShares ==
  Resting => \A i \in Invoices :
    (swept[i] /\ releases[i] = <<Gross[i]>> /\ ~Returned(i)) =>
      books[i].DEPOSIT_HELD = 0 /\ books[i].GATEWAY_SHARE = 0 /\ books[i].FREEZONE_SHARE = 0

-----------------------------------------------------------------------------
(* What a comment says and the code does not keep.                          *)

(* The watcher promotes a settlement once its transfer matures.             *)
Waiting(d) == status[d] = "CRYPTO_RECEIVED" /\ funding[d] # None /\ mined[funding[d]] = "final"
MaturedIsPromoted == \A d \in Direct : Waiting(d) ~> ~Waiting(d)
=============================================================================
