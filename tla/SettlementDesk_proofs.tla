------------------------ MODULE SettlementDesk_proofs ------------------------
(***************************************************************************)
(* SettlementDesk, for any number of trades, transfers, refunds and         *)
(* workers, any amounts and any fee terms.                                  *)
(*                                                                          *)
(* First the properties that do not depend on handlers taking turns.  None  *)
(* of the three is inductive alone.  Rial is paid on a status written from  *)
(* an older read, so DecisionsHold says of every job in flight that what it *)
(* decided is still true; and a group balances only because the job that    *)
(* posts it names a trade of the kind the group is for.                     *)
(*                                                                          *)
(* Then, under RowsApart, those that do.  FilesInTurn ties each file's      *)
(* status to its receipts and its funding, and each write to what the row   *)
(* holds: another worker may go on, but not on this row.  BooksInTurn, kept *)
(* as long as no worker dies, says that what happened is either in the      *)
(* ledger or in the hands of exactly one worker, whatever the order in      *)
(* which the entries are posted, and so puts a figure on the accounts of    *)
(* every trade.  Between a write and its booking the row is open to others: *)
(* what was written is itself what keeps them from doing it again.          *)
(***************************************************************************)
EXTENDS SettlementDesk, Amounts_proofs, TLAPS

IInv == TypeOK /\ DecisionsHold /\ RialAgainstRate /\ RialBacked /\ BooksBalance

-----------------------------------------------------------------------------
(* Every group the code posts balances.                                     *)

LEMMA SplitFacts ==
  ASSUME NEW i \in Invoices, NEW total \in Nat
  PROVE  LET s == Split(Terms[i], total)
         IN  /\ s.gateway \in Nat /\ s.freezone \in Nat /\ s.beneficiary \in Nat
             /\ s.gateway + s.freezone + s.beneficiary = total
<1>1. Terms[i] \in FeeTerms
  BY ConstantsAssumption
<1> QED
  BY <1>1, SplitConserves DEF SplitSum

(* The rounded share of a fee is a number, whatever the percentage is.      *)
LEMMA ZoneShareIsNumber ==
  ASSUME percent \in Percents, NEW fee \in Nat
  PROVE  ZoneShare(fee, percent) \in Int
<1>1. percent \in Nat
  BY ConstantsAssumption
<1>2. fee * percent \in Int
  BY <1>1
<1> QED
  BY <1>2 DEF ZoneShare

LEMMA PlusAddsUp ==
  ASSUME NEW b \in Balances, NEW g \in Balances
  PROVE  /\ Plus(b, g) \in Balances
         /\ Owed(Plus(b, g)) = Owed(b) + Owed(g)
BY DEF Plus, Balances, Owed, Accounts

LEMMA NothingIsBalanced == Nothing \in Balances /\ Owed(Nothing) = 0
BY DEF Nothing, Balances, Accounts, Owed

(* A group is a record of numbers when each of its accounts is a number.    *)
LEMMA GroupOfNumbers ==
  ASSUME NEW g, g = [a \in Accounts |-> g[a]],
         g["DEPOSIT_HELD"] \in Int, g["BANK_HELD"] \in Int, g["MERCHANT_PAYABLE"] \in Int,
         g["GATEWAY_SHARE"] \in Int, g["FREEZONE_SHARE"] \in Int, g["GATEWAY_PAID"] \in Int,
         g["FREEZONE_PAID"] \in Int, g["SUPPLIER_PAID"] \in Int, g["REFUNDED"] \in Int
  PROVE  g \in Balances
<1>1. \A a \in Accounts : g[a] \in Int
  BY DEF Accounts
<1> QED
  BY <1>1 DEF Balances

LEMMA PaidGroupBalances ==
  ASSUME NEW i \in Invoices
  PROVE  LET g == InvoicePaidGroup(i)
         IN  /\ g \in Balances
             /\ i \in Exports => g.DEPOSIT_HELD + g.BANK_HELD = Owed(g)
             /\ i \in Imports => g.DEPOSIT_HELD + g.SUPPLIER_PAID = Owed(g) + PaidSplit(i).beneficiary
<1> DEFINE g == InvoicePaidGroup(i)
           p == PaidSplit(i)
<1>1. Gross[i] \in Nat /\ i \in Exports \cup Imports /\ ~(i \in Exports /\ i \in Imports)
  BY ConstantsAssumption DEF Trades, Invoices
<1>2. /\ p.gateway \in Nat /\ p.freezone \in Nat /\ p.beneficiary \in Nat
      /\ p.gateway + p.freezone + p.beneficiary = Gross[i]
  BY <1>1, SplitFacts DEF PaidSplit
<1>3. /\ g.DEPOSIT_HELD = Gross[i] /\ g.BANK_HELD = 0 /\ g.SUPPLIER_PAID = 0
      /\ g.MERCHANT_PAYABLE = IF i \in Exports THEN p.beneficiary ELSE 0
      /\ g.GATEWAY_SHARE = p.gateway /\ g.FREEZONE_SHARE = p.freezone
      /\ g.GATEWAY_PAID = 0 /\ g.FREEZONE_PAID = 0 /\ g.REFUNDED = 0
  BY DEF InvoicePaidGroup, Nothing, Accounts
<1>4. g = [a \in Accounts |-> g[a]]
  BY DEF InvoicePaidGroup, Nothing
<1> HIDE DEF g, p
<1>5. g \in Balances
  BY <1>1, <1>2, <1>3, <1>4, GroupOfNumbers
<1>6. i \in Exports => g.DEPOSIT_HELD + g.BANK_HELD = Owed(g)
  BY <1>1, <1>2, <1>3 DEF Owed
<1>7. i \in Imports => g.DEPOSIT_HELD + g.SUPPLIER_PAID = Owed(g) + p.beneficiary
  BY <1>1, <1>2, <1>3 DEF Owed
<1> QED
  BY <1>5, <1>6, <1>7 DEF g, p

LEMMA ReleasedGroupBalances ==
  ASSUME NEW i \in Invoices, NEW total \in Nat
  PROVE  LET g == ReleasedGroup(i, total)
         IN  /\ g \in Balances
             /\ i \in Exports => g.DEPOSIT_HELD + g.BANK_HELD = Owed(g)
             /\ i \in Imports => g.DEPOSIT_HELD + g.SUPPLIER_PAID = Owed(g)
<1> DEFINE g == ReleasedGroup(i, total)
           p == Split(Terms[i], total)
<1>1. i \in Exports \cup Imports /\ ~(i \in Exports /\ i \in Imports)
  BY ConstantsAssumption DEF Invoices
<1>2. /\ p.gateway \in Nat /\ p.freezone \in Nat /\ p.beneficiary \in Nat
      /\ p.gateway + p.freezone + p.beneficiary = total
  BY SplitFacts
<1>3. /\ g.DEPOSIT_HELD = -total
      /\ g.BANK_HELD = IF i \in Imports THEN 0 ELSE p.beneficiary
      /\ g.SUPPLIER_PAID = IF i \in Imports THEN p.beneficiary ELSE 0
      /\ g.MERCHANT_PAYABLE = 0
      /\ g.GATEWAY_SHARE = -p.gateway /\ g.FREEZONE_SHARE = -p.freezone
      /\ g.GATEWAY_PAID = p.gateway /\ g.FREEZONE_PAID = p.freezone /\ g.REFUNDED = 0
  BY DEF ReleasedGroup, Nothing, Accounts
<1>4. g = [a \in Accounts |-> g[a]]
  BY DEF ReleasedGroup, Nothing
<1> HIDE DEF g, p
<1>5. g \in Balances
  BY <1>1, <1>2, <1>3, <1>4, GroupOfNumbers
<1>6. i \in Exports => g.DEPOSIT_HELD + g.BANK_HELD = Owed(g)
  BY <1>1, <1>2, <1>3 DEF Owed
<1>7. i \in Imports => g.DEPOSIT_HELD + g.SUPPLIER_PAID = Owed(g)
  BY <1>1, <1>2, <1>3 DEF Owed
<1> QED
  BY <1>5, <1>6, <1>7 DEF g

LEMMA FundedGroupBalances ==
  ASSUME percent \in Percents, NEW d \in Direct
  PROVE  LET g == FundedGroup(d)
         IN  g \in Balances /\ g.DEPOSIT_HELD + g.BANK_HELD = Owed(g)
<1> DEFINE g == FundedGroup(d)
           z == ZoneShare(DirectFee[d], percent)
<1>1. Gross[d] \in Nat /\ DirectFee[d] \in Nat /\ Net(d) = Gross[d] - DirectFee[d]
  BY ConstantsAssumption DEF Trades, Net
<1>2. z \in Int
  BY <1>1, ZoneShareIsNumber
<1>3. /\ g.DEPOSIT_HELD = 0 /\ g.BANK_HELD = Gross[d] /\ g.SUPPLIER_PAID = 0
      /\ g.MERCHANT_PAYABLE = Net(d)
      /\ g.GATEWAY_SHARE = DirectFee[d] - z /\ g.FREEZONE_SHARE = z
      /\ g.GATEWAY_PAID = 0 /\ g.FREEZONE_PAID = 0 /\ g.REFUNDED = 0
  BY DEF FundedGroup, Nothing, Accounts
<1>4. g = [a \in Accounts |-> g[a]]
  BY DEF FundedGroup, Nothing
<1> HIDE DEF g, z
<1>5. g \in Balances
  BY <1>1, <1>2, <1>3, <1>4, GroupOfNumbers
<1>6. g.DEPOSIT_HELD + g.BANK_HELD = Owed(g)
  BY <1>1, <1>2, <1>3 DEF Owed
<1> QED
  BY <1>5, <1>6 DEF g

LEMMA SettledGroupBalances ==
  ASSUME NEW f \in Files
  PROVE  LET g == SettledGroup(f)
         IN  g \in Balances /\ g.DEPOSIT_HELD + g.BANK_HELD = Owed(g)
<1> DEFINE g == SettledGroup(f)
<1>1. Net(f) \in Int
  <2>1. CASE f \in Direct
    BY <2>1, ConstantsAssumption DEF Net, Trades
  <2>2. CASE f \notin Direct
    <3>1. f \in Invoices /\ Gross[f] \in Nat
      BY <2>2, ConstantsAssumption DEF Files, Invoices, Trades
    <3> QED
      BY <2>2, <3>1, SplitFacts DEF Net, PaidSplit
  <2> QED
    BY <2>1, <2>2
<1>2. /\ g.DEPOSIT_HELD = 0 /\ g.BANK_HELD = -Net(f) /\ g.SUPPLIER_PAID = 0
      /\ g.MERCHANT_PAYABLE = -Net(f) /\ g.GATEWAY_SHARE = 0 /\ g.FREEZONE_SHARE = 0
      /\ g.GATEWAY_PAID = 0 /\ g.FREEZONE_PAID = 0 /\ g.REFUNDED = 0
  BY DEF SettledGroup, Nothing, Accounts
<1>3. g = [a \in Accounts |-> g[a]]
  BY DEF SettledGroup, Nothing
<1> HIDE DEF g
<1>4. g \in Balances
  BY <1>1, <1>2, <1>3, GroupOfNumbers
<1>5. g.DEPOSIT_HELD + g.BANK_HELD = Owed(g)
  BY <1>1, <1>2 DEF Owed
<1> QED
  BY <1>4, <1>5 DEF g

LEMMA RefundGroupBalances ==
  ASSUME percent \in Percents, NEW i \in Invoices
  PROVE  LET g == RefundSentGroup(i)
         IN  /\ g \in Balances
             /\ g.DEPOSIT_HELD + g.BANK_HELD = Owed(g)
             /\ g.DEPOSIT_HELD + g.SUPPLIER_PAID = Owed(g)
<1> DEFINE g == RefundSentGroup(i)
           p == PaidSplit(i)
           fee == InvoiceFee(i)
           z == ZoneShare(fee, percent)
<1>1. Gross[i] \in Nat
  BY ConstantsAssumption DEF Trades
<1>2. /\ p.gateway \in Nat /\ p.freezone \in Nat /\ p.beneficiary \in Nat
      /\ p.gateway + p.freezone + p.beneficiary = Gross[i]
  BY <1>1, SplitFacts DEF PaidSplit
<1>3. fee \in Nat /\ fee = p.gateway + p.freezone
  BY <1>2 DEF InvoiceFee
<1>4. z \in Int
  BY <1>3, ZoneShareIsNumber
<1>5. /\ g.DEPOSIT_HELD = -Gross[i] /\ g.BANK_HELD = 0 /\ g.SUPPLIER_PAID = 0
      /\ g.MERCHANT_PAYABLE = -p.beneficiary
      /\ g.GATEWAY_SHARE = z - fee /\ g.FREEZONE_SHARE = -z
      /\ g.GATEWAY_PAID = 0 /\ g.FREEZONE_PAID = 0 /\ g.REFUNDED = Gross[i]
  BY DEF RefundSentGroup, Nothing, Accounts
<1>6. g = [a \in Accounts |-> g[a]]
  BY DEF RefundSentGroup, Nothing
<1> HIDE DEF g, z, fee, p
<1>7. g \in Balances
  BY <1>1, <1>2, <1>3, <1>4, <1>5, <1>6, GroupOfNumbers
<1>8. g.DEPOSIT_HELD + g.BANK_HELD = Owed(g) /\ g.DEPOSIT_HELD + g.SUPPLIER_PAID = Owed(g)
  BY <1>1, <1>2, <1>3, <1>4, <1>5 DEF Owed
<1> QED
  BY <1>7, <1>8 DEF g

-----------------------------------------------------------------------------
(* Decisions and files survive what only adds to the record: accounts,      *)
(* prices, transfers handed over, payments, finality and releases.          *)

Grows ==
  /\ \A f \in Files : (account[f] => account'[f]) /\ (priced[f] => priced'[f])
  /\ \A d \in Direct : given[d] \subseteq given'[d]
  /\ \A t \in Payments : mined[t] = "final" => mined'[t] = "final"
  /\ \A i \in Invoices : paid[i] => paid'[i]
  /\ \A i \in Invoices : DOMAIN releases[i] \subseteq DOMAIN releases'[i]

LEMMA FinalStays ==
  ASSUME TypeOK, Grows, NEW d \in Direct, HasFinal(d)
  PROVE  HasFinal(d)'
<1>1. PICK t \in given[d] : mined[t] = "final"
  BY DEF HasFinal
<1>2. t \in Payments
  BY <1>1 DEF TypeOK
<1> QED
  BY <1>1, <1>2 DEF Grows, HasFinal

LEMMA FileStays ==
  ASSUME TypeOK, Grows, NEW f \in Files, FileHolds(f), status'[f] = status[f]
  PROVE  FileHolds(f)'
<1>1. f \in Exports => f \in Invoices
  BY DEF Invoices
<1>2. f \in Direct /\ status[f] \in Backed => HasFinal(f)'
  BY FinalStays DEF FileHolds
<1> QED
  BY <1>1, <1>2 DEF FileHolds, Grows

LEMMA SettlementJobStays ==
  ASSUME TypeOK, Grows, NEW w \in Jobs, SettlementJob(w)
  PROVE  SettlementJob(w)'
<1>1. w.on \in Files /\ (w.on \in Exports => w.on \in Invoices)
  BY DEF SettlementJob, Invoices
<1>2. w.on \in Direct /\ HasFinal(w.on) => HasFinal(w.on)'
  BY FinalStays
<1>3. w.op = "submitPayoutTx" /\ mined[w.by] = "final" => mined'[w.by] = "final"
  BY DEF SettlementJob, Grows
<1> QED
  BY <1>1, <1>2, <1>3 DEF SettlementJob, Grows

LEMMA JobStays ==
  ASSUME TypeOK, Grows, NEW w \in Jobs, JobHolds(w)
  PROVE  JobHolds(w)'
<1>1. w.op \in SettlementOps /\ w.at # "find" => SettlementJob(w)'
  BY SettlementJobStays DEF JobHolds
<1>2. w.at = "find" => w.by \in Payments /\ mined'[w.by] = "final"
  BY DEF JobHolds, Grows
<1>3. w.op = "recordRelease" => w.on \in Invoices /\ w.n \in DOMAIN releases'[w.on]
  BY DEF JobHolds, Grows
<1> QED
  BY <1>1, <1>2, <1>3 DEF JobHolds

(* Idling is a job, and decides nothing.                                    *)
LEMMA IdleIsJob == Idle \in Jobs /\ JobHolds(Idle)
BY DEF Idle, Jobs, Ops, JobHolds, SettlementOps, RefundOps

(* What a job books, and on which trade.                                    *)
LEMMA BookingFits ==
  ASSUME NEW w \in Jobs, JobHolds(w), w.at \in {"check", "post"}
  PROVE  \/ w.kind = "DEPOSIT_RELEASED" /\ w.on \in Invoices /\ w.n \in DOMAIN releases[w.on]
         \/ w.kind = "SETTLEMENT_FUNDED" /\ w.on \in Direct
         \/ w.kind = "SETTLEMENT_SETTLED" /\ w.on \in Files
         \/ w.kind = "REFUND_SENT" /\ w.on \in Invoices /\ w.by \in Refunds
<1>1. w.kind = Books(w) /\ w.kind # "none" /\ w.op \in Ops /\ w.op # "idle"
  BY DEF JobHolds, Jobs
<1>2. CASE w.op \in SettlementOps
  <2>1. SettlementJob(w)
    BY <1>2 DEF JobHolds
  <2>2. w.op # "recordRelease" /\ w.to # "SENT"
    BY <1>2, <2>1 DEF SettlementOps, SettlementJob, Statuses
  <2>3. CASE w.op = "submitPayoutTx"
    BY <1>1, <2>1, <2>2, <2>3 DEF Books, SettlementJob
  <2>4. CASE w.op # "submitPayoutTx"
    BY <1>1, <2>1, <2>2, <2>4 DEF Books, SettlementJob
  <2> QED
    BY <2>3, <2>4
<1>3. CASE w.op = "recordRelease"
  BY <1>1, <1>3 DEF JobHolds, Books
<1>4. CASE w.op \in RefundOps
  <2>1. /\ w.op # "submitPayoutTx" /\ w.op # "recordRelease" /\ w.to # "SETTLED"
        /\ w.on \in Invoices /\ w.by \in Refunds
    BY <1>4 DEF RefundOps, JobHolds, RefundStatuses
  <2> QED
    BY <1>1, <2>1 DEF Books
<1> QED
  BY <1>1, <1>2, <1>3, <1>4 DEF Ops

-----------------------------------------------------------------------------
(* A step that leaves files, deposits, refunds and ledger alone, and gives  *)
(* one worker a job that holds.                                             *)
LEMMA WorkKeeps ==
  ASSUME IInv, NEW s \in Workers, NEW job \in Jobs, JobHolds(job),
         work' = [work EXCEPT ![s] = job],
         row' \in [Payments -> {"none", "CONFIRMING", "CONFIRMED"}],
         failures' \in Nat,
         UNCHANGED <<percent, files, mined, deposits, refund, ledger>>
  PROVE  IInv'
<1>1. TypeOK'
  BY DEF IInv, TypeOK, files, deposits, ledger
<1>2. Grows
  BY DEF Grows, files, deposits
<1>3. \A d \in Direct : HasFinal(d)' = HasFinal(d)
  BY DEF HasFinal, files
<1>4. DecisionsHold'
  <2>1. ASSUME NEW f \in Files
        PROVE  FileHolds(f)'
    BY <1>2, FileStays DEF IInv, DecisionsHold, files
  <2>2. ASSUME NEW r \in Workers
        PROVE  JobHolds(work[r])'
    <3>1. work'[r] \in Jobs /\ JobHolds(work'[r])
      BY DEF IInv, TypeOK, DecisionsHold
    <3> DEFINE next == work'[r]
    <3>2. next \in Jobs /\ JobHolds(next)
      BY <3>1
    <3>3. ASSUME NEW j \in Jobs, JobHolds(j)
          PROVE  JobHolds(j)'
      BY <1>2, <3>3, JobStays DEF IInv
    <3>4. \A j \in Jobs : JobHolds(j) => JobHolds(j)'
      BY <3>3
    <3> QED
      BY <3>1, <3>4 DEF JobHolds, SettlementJob, Books, HasFinal
  <2>3. \A d \in Direct : funding'[d] # None => funding'[d] \in given'[d]
    BY DEF IInv, DecisionsHold, files
  <2> QED
    BY <2>1, <2>2, <2>3 DEF DecisionsHold
<1>5. RialAgainstRate' /\ RialBacked' /\ BooksBalance'
  BY <1>3 DEF IInv, RialAgainstRate, RialBacked, BooksBalance, files, deposits, ledger
<1> QED
  BY <1>1, <1>4, <1>5 DEF IInv

(* A handler that has only read.                                            *)
LEMMA DecideKeeps ==
  ASSUME IInv, NEW s \in Workers, NEW job \in Jobs, JobHolds(job), Decide(s, job)
  PROVE  IInv'
<1>1. /\ work' = [work EXCEPT ![s] = job]
      /\ UNCHANGED <<percent, files, mined, row, deposits, refund, ledger, failures>>
  BY DEF Decide, Begin, chain
<1>2. row' \in [Payments -> {"none", "CONFIRMING", "CONFIRMED"}] /\ failures' \in Nat
  BY <1>1 DEF IInv, TypeOK
<1> QED
  BY <1>1, <1>2, WorkKeeps

(* What a settlement request decides, from any status of the row.           *)
LEMMA SettlementRequestKeeps ==
  ASSUME IInv, NEW s \in Workers, NEW f \in Files, NEW op \in SettlementOps, NEW to \in Statuses,
         Decide(s, Job(op, f, None, to)),
         op # "submitPayoutTx" /\ (op = "settle" <=> to = "SETTLED"),
         f \in Exports => paid[f],
         to \in Priced => account[f] /\ (op = "lockRate" \/ priced[f]),
         f \in Direct /\ to \in Backed => HasFinal(f)
  PROVE  IInv'
<1> DEFINE job == Job(op, f, None, to)
<1>1. /\ job.op = op /\ job.on = f /\ job.by = None /\ job.to = to /\ job.kind = "none"
      /\ job.at = "commit" /\ job.n = 0
  BY DEF Job
<1>2. job \in Jobs
  BY DEF Job, Jobs, Ops, Files, Trades, Invoices
<1> HIDE DEF job
<1>3. SettlementJob(job)
  BY <1>1 DEF SettlementJob
<1>4. JobHolds(job)
  BY <1>1, <1>3 DEF JobHolds, SettlementOps, RefundOps
<1> QED
  BY <1>2, <1>4, DecideKeeps DEF job

LEMMA RefundRequestKeeps ==
  ASSUME IInv, NEW s \in Workers, NEW r \in Refunds, NEW op \in RefundOps, NEW to \in RefundStatuses,
         Decide(s, Job(op, RefundOf[r], r, to))
  PROVE  IInv'
<1> DEFINE job == Job(op, RefundOf[r], r, to)
<1>1. RefundOf[r] \in Invoices
  BY ConstantsAssumption
<1>2. /\ job.op = op /\ job.on = RefundOf[r] /\ job.by = r /\ job.to = to /\ job.kind = "none"
      /\ job.at = "commit" /\ job.n = 0
  BY DEF Job
<1>3. job \in Jobs
  BY <1>1 DEF Job, Jobs, Ops, Trades
<1> HIDE DEF job
<1>4. JobHolds(job)
  BY <1>1, <1>2 DEF JobHolds, SettlementOps, RefundOps
<1> QED
  BY <1>3, <1>4, DecideKeeps DEF job

(* The merchant's hash: its row moves first, and only what is final may     *)
(* skip the watcher.                                                        *)
LEMMA SubmitPayoutTxKeeps ==
  ASSUME IInv, NEW s \in Workers, NEW d \in Direct, NEW t \in Payments, SubmitPayoutTx(s, d, t)
  PROVE  IInv'
<1> DEFINE to == IF mined[t] = "final" THEN "CRYPTO_CONFIRMED" ELSE "CRYPTO_RECEIVED"
           job == Job("submitPayoutTx", d, t, to)
<1>1. /\ job.op = "submitPayoutTx" /\ job.on = d /\ job.by = t /\ job.to = to
      /\ job.kind = "none" /\ job.at = "commit" /\ job.n = 0
  BY DEF Job
<1>2. d \in Files /\ d \notin Exports
  BY ConstantsAssumption DEF Files, Invoices
<1>3. account[d] /\ priced[d]
  BY <1>2 DEF SubmitPayoutTx, IInv, DecisionsHold, FileHolds, Priced
<1>4. job \in Jobs
  BY DEF Job, Jobs, Ops, SettlementOps, Trades, Statuses
<1>5. /\ work' = [work EXCEPT ![s] = job]
      /\ row' \in [Payments -> {"none", "CONFIRMING", "CONFIRMED"}]
      /\ failures' \in Nat
      /\ UNCHANGED <<percent, files, mined, deposits, refund, ledger>>
  BY DEF SubmitPayoutTx, Begin, IInv, TypeOK
<1>6. to \in Statuses /\ to # "SETTLED" /\ (to \in Backed => mined[t] = "final")
  BY DEF Statuses, Backed
<1> HIDE DEF job, to
<1>7. SettlementJob(job)
  BY <1>1, <1>2, <1>3, <1>6 DEF SettlementJob
<1>8. JobHolds(job)
  BY <1>1, <1>7 DEF JobHolds, RefundOps
<1> QED
  BY <1>4, <1>5, <1>8, WorkKeeps

(* No request, however stale what it read, begins a job that would break    *)
(* the invariant.                                                           *)
LEMMA AskKeeps ==
  ASSUME IInv, NEW s \in Slots, Ask(s)
  PROVE  IInv'
<1> s \in Workers
  BY DEF Workers
<1> USE DEF SettlementOps, Statuses, Priced, Backed
<1>1. ASSUME NEW d \in Direct, Submit(s, d)
      PROVE  IInv'
  <2>1. d \in Files /\ d \notin Exports
    BY ConstantsAssumption DEF Files, Invoices
  <2> QED
    BY <1>1, <2>1, SettlementRequestKeeps DEF Submit
<1>2. ASSUME NEW f \in Files,
             \/ SetPayoutAccount(s, f) \/ ApproveAdmin(s, f) \/ RejectAdmin(s, f)
             \/ LockRate(s, f) \/ Settle(s, f) \/ RejectBank(s, f)
      PROVE  IInv'
  <2>1. /\ f \in Exports /\ status[f] # "none" => paid[f]
        /\ status[f] \in {"BANK_RATE_LOCKED", "CRYPTO_CONFIRMED"} => account[f] /\ priced[f]
        /\ f \in Direct /\ status[f] = "CRYPTO_CONFIRMED" => HasFinal(f)
        /\ f \in Direct => f \notin Exports
    BY ConstantsAssumption DEF IInv, DecisionsHold, FileHolds, Invoices
  <2>2. CASE SetPayoutAccount(s, f)
    BY <2>1, <2>2, SettlementRequestKeeps DEF SetPayoutAccount
  <2>3. CASE ApproveAdmin(s, f)
    BY <2>1, <2>3, SettlementRequestKeeps DEF ApproveAdmin
  <2>4. CASE RejectAdmin(s, f)
    BY <2>1, <2>4, SettlementRequestKeeps DEF RejectAdmin
  <2>5. CASE LockRate(s, f)
    BY <2>1, <2>5, SettlementRequestKeeps DEF LockRate
  <2>6. CASE Settle(s, f)
    BY <2>1, <2>6, SettlementRequestKeeps DEF Settle
  <2>7. CASE RejectBank(s, f)
    BY <2>1, <2>7, SettlementRequestKeeps DEF RejectBank
  <2> QED
    BY <1>2, <2>2, <2>3, <2>4, <2>5, <2>6, <2>7
<1>3. ASSUME NEW d \in Direct, NEW t \in Payments, SubmitPayoutTx(s, d, t)
      PROVE  IInv'
  BY <1>3, SubmitPayoutTxKeeps
<1>4. ASSUME NEW i \in Invoices, NEW n \in 1 .. MaxReleases, RecordRelease(s, i, n)
      PROVE  IInv'
  <2> DEFINE job == [Job("recordRelease", i, None, "none") EXCEPT !.n = n]
  <2>1. /\ job.op = "recordRelease" /\ job.on = i /\ job.to = "none" /\ job.n = n
        /\ job.kind = "none" /\ job.at = "commit"
    BY DEF Job
  <2>2. job \in Jobs
    BY DEF Job, Jobs, Ops, Trades
  <2>3. n \in DOMAIN releases[i] /\ Decide(s, job)
    BY <1>4 DEF RecordRelease
  <2> HIDE DEF job
  <2>4. JobHolds(job)
    BY <2>1, <2>3 DEF JobHolds, RefundOps
  <2> QED
    BY <2>2, <2>3, <2>4, DecideKeeps
<1>5. ASSUME NEW r \in Refunds,
             RequestRefund(s, r) \/ ApproveRefund(s, r) \/ RejectRefund(s, r) \/ MarkSent(s, r)
      PROVE  IInv'
  BY <1>5, RefundRequestKeeps
     DEF RequestRefund, ApproveRefund, RejectRefund, MarkSent, RefundOps, RefundStatuses
<1> QED
  BY <1>1, <1>2, <1>3, <1>4, <1>5 DEF Ask

(* The watcher's promotion begins from a row the chain made final.          *)
LEMMA RefreshKeeps ==
  ASSUME IInv, NEW s \in Workers, NEW t \in Payments, Refresh(s, t)
  PROVE  IInv'
<1> DEFINE job == [Job("promote", None, t, "CRYPTO_CONFIRMED") EXCEPT !.at = "find"]
<1>1. /\ job.op = "promote" /\ job.by = t /\ job.to = "CRYPTO_CONFIRMED" /\ job.at = "find"
  BY DEF Job
<1>2. job \in Jobs
  BY DEF Job, Jobs, Ops, SettlementOps, Statuses
<1>3. /\ work' = [work EXCEPT ![s] = job] /\ mined[t] = "final"
      /\ row' \in [Payments -> {"none", "CONFIRMING", "CONFIRMED"}]
      /\ failures' \in Nat
      /\ UNCHANGED <<percent, files, mined, deposits, refund, ledger>>
  BY DEF Refresh, Begin, IInv, TypeOK
<1> HIDE DEF job
<1>4. JobHolds(job)
  BY <1>1, <1>3 DEF JobHolds, RefundOps
<1> QED
  BY <1>2, <1>3, <1>4, WorkKeeps

-----------------------------------------------------------------------------
(* What a write leaves: the next step of a job is a job that holds.         *)
LEMMA NextStepHolds ==
  ASSUME NEW w \in Jobs, JobHolds(w), w.at = "commit", w.op # "idle"
  PROVE  NextStep(w) \in Jobs /\ JobHolds(NextStep(w))
<1>1. CASE Books(w) = "none"
  BY <1>1, IdleIsJob DEF NextStep
<1>2. CASE Books(w) # "none"
  <2> DEFINE next == [w EXCEPT !.kind = Books(w), !.at = "check"]
  <2>1. NextStep(w) = next
    BY <1>2 DEF NextStep
  <2>2. /\ next.op = w.op /\ next.on = w.on /\ next.by = w.by /\ next.to = w.to /\ next.n = w.n
        /\ next.kind = Books(w) /\ next.at = "check"
    BY DEF Jobs
  <2>3. Books(w) \in Kinds
    <3>1. \/ w.op = "submitPayoutTx" \/ w.to = "SETTLED" \/ w.op = "recordRelease" \/ w.to = "SENT"
          \/ ~(w.op = "submitPayoutTx" \/ w.to = "SETTLED" \/ w.op = "recordRelease" \/ w.to = "SENT")
      OBVIOUS
    <3> QED
      BY <1>2, <3>1 DEF Books, Kinds
  <2>4. next \in Jobs
    BY <2>3 DEF Jobs
  <2>5. Books(next) = Books(w)
    BY <2>2 DEF Books
  <2>7. w.op \in SettlementOps => w.op \in {"submitPayoutTx", "settle"} /\ SettlementJob(w)
    <3>1. w.op \in SettlementOps => SettlementJob(w) /\ w.op # "recordRelease"
      BY DEF JobHolds, SettlementOps
    <3>2. w.op \in SettlementOps /\ w.op # "submitPayoutTx" /\ w.op # "settle" => Books(w) = "none"
      BY <3>1 DEF Books, SettlementJob, Statuses
    <3> QED
      BY <1>2, <3>1, <3>2
  <2> HIDE DEF next
  <2>8. w.op \in SettlementOps => SettlementJob(next)
    BY <2>2, <2>7 DEF SettlementJob
  <2>9. JobHolds(next)
    BY <1>2, <2>2, <2>5, <2>8 DEF JobHolds
  <2> QED
    BY <2>1, <2>4, <2>9
<1> QED
  BY <1>1, <1>2

(* The settlement's write, made by id over whatever the row has become.     *)
LEMMA CommitSettlementKeeps ==
  ASSUME IInv, NEW s \in Workers, CommitSettlement(s)
  PROVE  IInv'
<1> PICK w : w = work[s]
  OBVIOUS
<1> PICK f : f = w.on
  OBVIOUS
<1>1. /\ w \in Jobs /\ JobHolds(w) /\ w.op \in SettlementOps /\ w.at = "commit"
      /\ work \in [Workers -> Jobs]
  BY DEF CommitSettlement, IInv, TypeOK, DecisionsHold
<1>2. SettlementJob(w) /\ f \in Files /\ w.to \in Statuses
  BY <1>1 DEF JobHolds, SettlementJob
<1>3. CASE w.op = "submitPayoutTx" /\ Taken(f, w.by)
  <2>1. /\ work' = [work EXCEPT ![s] = Idle]
        /\ UNCHANGED <<percent, files, mined, row, deposits, refund, ledger, failures>>
    BY <1>3 DEF CommitSettlement, chain
  <2>2. row' \in [Payments -> {"none", "CONFIRMING", "CONFIRMED"}] /\ failures' \in Nat
    BY <2>1 DEF IInv, TypeOK
  <2> QED
    BY <2>1, <2>2, IdleIsJob, WorkKeeps
<1>4. CASE ~(w.op = "submitPayoutTx" /\ Taken(f, w.by))
  <2> DEFINE next == NextStep(w)
  <2>1. /\ status' = [status EXCEPT ![f] = w.to]
        /\ account' = [account EXCEPT ![f] = @ \/ w.op \in {"submit", "setPayoutAccount"}]
        /\ priced' = [priced EXCEPT ![f] = @ \/ w.op = "lockRate"]
        /\ funding' = [d \in Direct |-> IF w.op = "submitPayoutTx" /\ d = f THEN w.by ELSE funding[d]]
        /\ given' = [d \in Direct |->
                       given[d] \cup (IF w.op = "submitPayoutTx" /\ d = f THEN {w.by} ELSE {})]
        /\ receipts' = [receipts EXCEPT ![f] = IF w.op = "settle" THEN @ + 1 ELSE @]
        /\ work' = [work EXCEPT ![s] = next]
        /\ UNCHANGED <<percent, mined, row, paid, held, releases, swept, refund, books, posted, failures>>
    BY <1>4 DEF CommitSettlement, chain, deposits, ledger
  <2>2. next \in Jobs /\ JobHolds(next)
    BY <1>1, NextStepHolds DEF SettlementOps
  <2>3. w.op = "submitPayoutTx" => f \in Direct /\ w.by \in Payments
    BY <1>2 DEF SettlementJob
  <2> HIDE DEF next
  <2>4. TypeOK'
    <3>1. status' \in [Files -> Statuses \cup {"none"}]
      BY <1>2, <2>1 DEF IInv, TypeOK
    <3>2. account' \in [Files -> BOOLEAN] /\ priced' \in [Files -> BOOLEAN]
      BY <1>2, <2>1 DEF IInv, TypeOK
    <3>3. funding' \in [Direct -> Payments \cup {None}] /\ given' \in [Direct -> SUBSET Payments]
      BY <2>1, <2>3 DEF IInv, TypeOK
    <3>4. receipts' \in [Files -> Nat]
      BY <1>2, <2>1 DEF IInv, TypeOK
    <3>5. work' \in [Workers -> Jobs]
      BY <1>1, <2>1, <2>2
    <3> QED
      BY <2>1, <3>1, <3>2, <3>3, <3>4, <3>5 DEF IInv, TypeOK
  <2>5. Grows
    BY <1>2, <2>1 DEF IInv, TypeOK, Grows
  <2>6. FileHolds(f)'
    <3>1. status'[f] = w.to
      BY <1>2, <2>1 DEF IInv, TypeOK
    <3>2. w.to \in Priced => priced'[f] /\ account'[f]
      BY <1>2, <2>1 DEF IInv, TypeOK, SettlementJob
    <3>3. f \in Exports => paid'[f]
      BY <1>2, <2>1 DEF SettlementJob
    <3>4. f \in Direct /\ w.to \in Backed => HasFinal(f)'
      <4>1. CASE HasFinal(f)
        BY <2>5, <4>1, FinalStays DEF IInv
      <4>2. CASE w.op = "submitPayoutTx" /\ mined[w.by] = "final"
        <5>1. w.by \in given'[f] /\ mined'[w.by] = "final"
          BY <2>1, <2>3, <4>2
        <5> QED
          BY <5>1 DEF HasFinal
      <4> QED
        BY <1>2, <4>1, <4>2 DEF SettlementJob
    <3> QED
      BY <3>1, <3>2, <3>3, <3>4 DEF FileHolds
  <2>7. DecisionsHold'
    <3>1. ASSUME NEW g \in Files
          PROVE  FileHolds(g)'
      <4>1. CASE g = f
        BY <2>6, <4>1
      <4>2. CASE g # f
        <5>1. status'[g] = status[g] /\ FileHolds(g)
          BY <2>1, <4>2 DEF IInv, TypeOK, DecisionsHold
        <5> QED
          BY <2>5, <5>1, FileStays DEF IInv
      <4> QED
        BY <4>1, <4>2
    <3>2. ASSUME NEW d \in Direct, funding'[d] # None
          PROVE  funding'[d] \in given'[d]
      BY <2>1, <3>2 DEF IInv, DecisionsHold
    <3>3. ASSUME NEW r \in Workers
          PROVE  JobHolds(work[r])'
      <4>1. \A j \in Jobs : JobHolds(j) => JobHolds(j)'
        BY <2>5, JobStays DEF IInv
      <4>2. work'[r] \in Jobs /\ JobHolds(work'[r])
        <5>1. CASE r = s
          BY <1>1, <2>1, <2>2, <5>1
        <5>2. CASE r # s
          BY <1>1, <2>1, <5>2 DEF IInv, DecisionsHold
        <5> QED
          BY <5>1, <5>2
      <4> QED
        BY <4>1, <4>2 DEF JobHolds, SettlementJob, Books, HasFinal
    <3> QED
      BY <3>1, <3>2, <3>3 DEF DecisionsHold
  <2>8. \A g \in Files : receipts'[g] > 0 => receipts[g] > 0 \/ (g = f /\ w.op = "settle")
    BY <1>2, <2>1 DEF IInv, TypeOK
  <2>9. w.op = "settle" => w.to = "SETTLED" /\ status'[f] \in Priced \cap Backed
    BY <1>2, <2>1 DEF IInv, TypeOK, SettlementJob, Priced, Backed
  <2>10. RialAgainstRate'
    <3> SUFFICES ASSUME NEW g \in Files, receipts'[g] > 0
                 PROVE  priced'[g] /\ account'[g]
      BY DEF RialAgainstRate
    <3>1. CASE receipts[g] > 0
      BY <2>5, <3>1 DEF IInv, RialAgainstRate, Grows
    <3>2. CASE g = f /\ w.op = "settle"
      BY <2>6, <2>9, <3>2 DEF FileHolds
    <3> QED
      BY <2>8, <3>1, <3>2
  <2>11. RialBacked'
    <3>1. ASSUME NEW d \in Direct, receipts'[d] > 0
          PROVE  HasFinal(d)'
      <4>1. CASE receipts[d] > 0
        BY <2>5, <4>1, FinalStays DEF IInv, RialBacked
      <4>2. CASE d = f /\ w.op = "settle"
        BY <2>6, <2>9, <4>2 DEF FileHolds
      <4> QED
        BY <2>8, <3>1, <4>1, <4>2 DEF Files
    <3>2. ASSUME NEW i \in Exports, receipts'[i] > 0
          PROVE  paid'[i]
      <4>1. CASE receipts[i] > 0
        BY <2>1, <4>1 DEF IInv, RialBacked
      <4>2. CASE i = f /\ w.op = "settle"
        BY <1>2, <2>1, <4>2 DEF SettlementJob
      <4> QED
        BY <2>8, <3>2, <4>1, <4>2 DEF Files
    <3> QED
      BY <3>1, <3>2 DEF RialBacked
  <2>12. BooksBalance'
    BY <2>1 DEF IInv, BooksBalance
  <2> QED
    BY <2>4, <2>7, <2>10, <2>11, <2>12 DEF IInv
<1> QED
  BY <1>3, <1>4

-----------------------------------------------------------------------------
(* A step that touches no file only adds to the record, and gives at most   *)
(* one worker another job that holds.                                       *)
LEMMA QuietKeeps ==
  ASSUME IInv, TypeOK', BooksBalance', Grows,
         UNCHANGED <<account, priced, funding, given, receipts>>,
         \A f \in Files : status'[f] = status[f] \/ (status'[f] = "AWAITING_BANK" /\ paid'[f]),
         \A r \in Workers : work'[r] = work[r] \/ (work'[r] \in Jobs /\ JobHolds(work'[r]))
  PROVE  IInv'
<1>1. DecisionsHold'
  <2>1. ASSUME NEW f \in Files
        PROVE  FileHolds(f)'
    <3>1. CASE status'[f] = status[f]
      BY <3>1, FileStays DEF IInv, DecisionsHold
    <3>2. CASE status'[f] = "AWAITING_BANK" /\ paid'[f]
      BY <3>2 DEF FileHolds, Priced, Backed
    <3> QED
      BY <3>1, <3>2
  <2>2. \A d \in Direct : funding'[d] # None => funding'[d] \in given'[d]
    BY DEF IInv, DecisionsHold
  <2>3. ASSUME NEW r \in Workers
        PROVE  JobHolds(work[r])'
    <3>1. work'[r] \in Jobs /\ JobHolds(work'[r])
      BY DEF IInv, TypeOK, DecisionsHold
    <3>2. \A j \in Jobs : JobHolds(j) => JobHolds(j)'
      BY JobStays DEF IInv
    <3> QED
      BY <3>1, <3>2 DEF JobHolds, SettlementJob, Books, HasFinal
  <2> QED
    BY <2>1, <2>2, <2>3 DEF DecisionsHold
<1>2. RialAgainstRate'
  BY DEF IInv, RialAgainstRate
<1>3. RialBacked'
  <2>1. \A d \in Direct : HasFinal(d) => HasFinal(d)'
    BY FinalStays DEF IInv
  <2>2. \A i \in Exports : paid[i] => paid'[i]
    BY DEF Grows, Invoices
  <2> QED
    BY <2>1, <2>2 DEF IInv, RialBacked
<1> QED
  BY <1>1, <1>2, <1>3 DEF IInv

LEMMA FindSettlementKeeps ==
  ASSUME IInv, NEW s \in Workers, FindSettlement(s)
  PROVE  IInv'
<1> PICK w : w = work[s]
  OBVIOUS
<1>1. /\ w \in Jobs /\ JobHolds(w) /\ w.at = "find"
      /\ w.op = "promote" /\ w.by \in Payments /\ mined[w.by] = "final" /\ w.to = "CRYPTO_CONFIRMED"
  BY DEF FindSettlement, IInv, TypeOK, DecisionsHold, JobHolds
<1>2. /\ UNCHANGED <<percent, files, mined, row, deposits, refund, ledger, failures>>
      /\ row' \in [Payments -> {"none", "CONFIRMING", "CONFIRMED"}] /\ failures' \in Nat
  BY DEF FindSettlement, chain, IInv, TypeOK
<1>3. CASE work' = [work EXCEPT ![s] = Idle]
  BY <1>2, <1>3, IdleIsJob, WorkKeeps
<1>4. ASSUME NEW d \in Direct, funding[d] = w.by, status[d] = "CRYPTO_RECEIVED",
             work' = [work EXCEPT ![s] = [w EXCEPT !.on = d, !.at = "commit"]]
      PROVE  IInv'
  <2> DEFINE job == [w EXCEPT !.on = d, !.at = "commit"]
  <2>1. /\ job.op = "promote" /\ job.on = d /\ job.by = w.by /\ job.to = "CRYPTO_CONFIRMED"
        /\ job.at = "commit"
    BY <1>1 DEF Jobs
  <2>2. job \in Jobs
    BY <1>1 DEF Jobs, Trades
  <2>3. d \in Files /\ d \notin Exports
    BY ConstantsAssumption DEF Files, Invoices
  <2>4. account[d] /\ priced[d]
    BY <1>4, <2>3 DEF IInv, DecisionsHold, FileHolds, Priced
  <2>5. HasFinal(d)
    BY <1>1, <1>4, ConstantsAssumption DEF IInv, DecisionsHold, HasFinal
  <2> HIDE DEF job
  <2>6. SettlementJob(job)
    BY <2>1, <2>3, <2>4, <2>5 DEF SettlementJob, Statuses
  <2>7. JobHolds(job)
    BY <2>1, <2>6 DEF JobHolds, RefundOps
  <2>8. work' = [work EXCEPT ![s] = job]
    BY <1>4 DEF job
  <2> QED
    BY <1>2, <2>2, <2>7, <2>8, WorkKeeps
<1> QED
  BY <1>3, <1>4 DEF FindSettlement

LEMMA CheckPostedKeeps ==
  ASSUME IInv, NEW s \in Workers, CheckPosted(s)
  PROVE  IInv'
<1> PICK w : w = work[s]
  OBVIOUS
<1> DEFINE next == IF <<w.kind, Subject(w)>> \in posted THEN Idle ELSE [w EXCEPT !.at = "post"]
<1>1. w \in Jobs /\ JobHolds(w) /\ w.at = "check"
  BY DEF CheckPosted, IInv, TypeOK, DecisionsHold
<1>2. /\ work' = [work EXCEPT ![s] = next]
      /\ UNCHANGED <<percent, files, mined, row, deposits, refund, ledger, failures>>
      /\ row' \in [Payments -> {"none", "CONFIRMING", "CONFIRMED"}] /\ failures' \in Nat
  BY DEF CheckPosted, chain, IInv, TypeOK
<1>3. next \in Jobs /\ JobHolds(next)
  <2> DEFINE job == [w EXCEPT !.at = "post"]
  <2>1. /\ job.op = w.op /\ job.on = w.on /\ job.by = w.by /\ job.to = w.to /\ job.n = w.n
        /\ job.kind = w.kind /\ job.at = "post" /\ job \in Jobs
    BY <1>1 DEF Jobs
  <2> HIDE DEF job
  <2>2. Books(job) = Books(w)
    BY <2>1 DEF Books
  <2>3. JobHolds(job)
    BY <1>1, <2>1, <2>2 DEF JobHolds, SettlementJob
  <2> QED
    BY <2>1, <2>3, IdleIsJob DEF job
<1> HIDE DEF next
<1> QED
  BY <1>2, <1>3, WorkKeeps

LEMMA FailKeeps ==
  ASSUME IInv, NEW s \in Workers, Fail(s)
  PROVE  IInv'
<1>1. /\ work' = [work EXCEPT ![s] = Idle] /\ failures' \in Nat
      /\ row' \in [Payments -> {"none", "CONFIRMING", "CONFIRMED"}]
      /\ UNCHANGED <<percent, files, mined, deposits, refund, ledger>>
  BY DEF Fail, chain, IInv, TypeOK
<1> QED
  BY <1>1, IdleIsJob, WorkKeeps

(* The writes of a release and of a refund, with the booking they call for. *)
LEMMA CommitOthersKeep ==
  ASSUME IInv, NEW s \in Workers, CommitRelease(s) \/ CommitRefund(s)
  PROVE  IInv'
<1> PICK w : w = work[s]
  OBVIOUS
<1>1. /\ w \in Jobs /\ JobHolds(w) /\ w.at = "commit" /\ w.op \in {"recordRelease"} \cup RefundOps
      /\ work \in [Workers -> Jobs]
  BY DEF CommitRelease, CommitRefund, IInv, TypeOK, DecisionsHold
<1>2. NextStep(w) \in Jobs /\ JobHolds(NextStep(w))
  BY <1>1, NextStepHolds DEF RefundOps
<1>3. /\ work' = [work EXCEPT ![s] = NextStep(w)]
      /\ UNCHANGED <<percent, status, account, priced, funding, given, receipts, mined, row,
                     paid, held, releases, books, posted, failures>>
  BY DEF CommitRelease, CommitRefund, files, chain, deposits, ledger
<1>4. work' \in [Workers -> Jobs] /\ \A r \in Workers : work'[r] = work[r] \/ (work'[r] \in Jobs /\ JobHolds(work'[r]))
  BY <1>1, <1>2, <1>3
<1>5. swept' \in [Invoices -> BOOLEAN] /\ refund' \in [Refunds -> RefundStatuses \cup {"none"}]
  <2>1. CASE CommitRelease(s)
    BY <2>1 DEF CommitRelease, IInv, TypeOK
  <2>2. CASE CommitRefund(s)
    <3>1. w.by \in Refunds /\ w.to \in RefundStatuses
      BY <1>1, <2>2 DEF CommitRefund, JobHolds
    <3> QED
      BY <2>2, <3>1 DEF CommitRefund, deposits, IInv, TypeOK
  <2> QED
    BY <2>1, <2>2
<1>6. TypeOK'
  BY <1>3, <1>4, <1>5 DEF IInv, TypeOK
<1>7. Grows /\ BooksBalance'
  BY <1>3 DEF Grows, IInv, BooksBalance
<1> QED
  BY <1>3, <1>4, <1>6, <1>7, QuietKeeps

(* A balanced group leaves balanced books.                                  *)
LEMMA PostingKeepsBalance ==
  ASSUME TypeOK, BooksBalance, NEW x \in Trades, NEW g \in Balances,
         x \in Exports \cup Direct => g.DEPOSIT_HELD + g.BANK_HELD = Owed(g),
         x \in Imports => g.DEPOSIT_HELD + g.SUPPLIER_PAID = Owed(g),
         books' = [books EXCEPT ![x] = Plus(@, g)], paid' = paid
  PROVE  books' \in [Trades -> Balances] /\ BooksBalance'
<1>1. /\ Plus(books[x], g) \in Balances
      /\ Owed(Plus(books[x], g)) = Owed(books[x]) + Owed(g)
      /\ books[x] \in Balances
  BY PlusAddsUp DEF TypeOK
<1>2. /\ books' \in [Trades -> Balances] /\ books'[x] = Plus(books[x], g)
      /\ \A y \in Trades : y # x => books'[y] = books[y]
  BY <1>1 DEF TypeOK
<1>3. \A b \in Balances : /\ Owed(b) \in Int /\ b.DEPOSIT_HELD \in Int /\ b.BANK_HELD \in Int
                          /\ b.SUPPLIER_PAID \in Int
  BY DEF Balances, Accounts, Owed
<1>4. /\ Plus(books[x], g).DEPOSIT_HELD = books[x].DEPOSIT_HELD + g.DEPOSIT_HELD
      /\ Plus(books[x], g).BANK_HELD = books[x].BANK_HELD + g.BANK_HELD
      /\ Plus(books[x], g).SUPPLIER_PAID = books[x].SUPPLIER_PAID + g.SUPPLIER_PAID
  BY DEF Plus, Accounts
<1>5. ASSUME NEW y \in Exports \cup Direct
      PROVE  books'[y].DEPOSIT_HELD + books'[y].BANK_HELD = Owed(books'[y])
  <2>1. y \in Trades /\ books[y].DEPOSIT_HELD + books[y].BANK_HELD = Owed(books[y])
    BY DEF BooksBalance, Trades, Invoices
  <2>2. CASE y = x
    BY <1>1, <1>2, <1>3, <1>4, <2>1, <2>2
  <2>3. CASE y # x
    BY <1>2, <2>1, <2>3
  <2> QED
    BY <2>2, <2>3
<1>6. ASSUME NEW i \in Imports
      PROVE  books'[i].DEPOSIT_HELD + books'[i].SUPPLIER_PAID
               = Owed(books'[i]) + (IF paid'[i] THEN PaidSplit(i).beneficiary ELSE 0)
  <2> DEFINE due == IF paid[i] THEN PaidSplit(i).beneficiary ELSE 0
  <2>1. i \in Trades /\ books[i].DEPOSIT_HELD + books[i].SUPPLIER_PAID = Owed(books[i]) + due
    BY DEF BooksBalance, Trades, Invoices
  <2>2. due \in Int
    <3>1. i \in Invoices /\ Gross[i] \in Nat
      BY ConstantsAssumption DEF Trades, Invoices
    <3> QED
      BY <3>1, SplitFacts DEF PaidSplit
  <2> HIDE DEF due
  <2>3. books'[i].DEPOSIT_HELD + books'[i].SUPPLIER_PAID = Owed(books'[i]) + due
    <3>1. CASE i = x
      BY <1>1, <1>2, <1>3, <1>4, <2>1, <2>2, <3>1
    <3>2. CASE i # x
      BY <1>2, <2>1, <3>2
    <3> QED
      BY <3>1, <3>2
  <2> QED
    BY <2>3 DEF due
<1> QED
  BY <1>2, <1>5, <1>6 DEF BooksBalance

(* Whatever is posted, and however late.                                    *)
LEMMA PostKeeps ==
  ASSUME IInv, NEW s \in Workers, Post(s)
  PROVE  IInv'
<1> PICK w : w = work[s]
  OBVIOUS
<1> PICK g : g = Group(w)
  OBVIOUS
<1>1. w \in Jobs /\ JobHolds(w) /\ w.at = "post" /\ TypeOK /\ BooksBalance /\ percent \in Percents
  BY DEF Post, IInv, TypeOK, DecisionsHold
<1>2. /\ books' = [books EXCEPT ![w.on] = Plus(@, g)]
      /\ posted' = posted \cup {<<w.kind, Subject(w)>>}
      /\ work' = [work EXCEPT ![s] = Idle]
      /\ UNCHANGED <<percent, status, account, priced, funding, given, receipts, mined, row,
                     paid, held, releases, swept, refund, failures>>
  BY DEF Post, files, chain, deposits
<1>3. /\ w.on \in Trades /\ <<w.kind, Subject(w)>> \in Kinds \X (Trades \cup Refunds)
      /\ g \in Balances
      /\ w.on \in Exports \cup Direct => g.DEPOSIT_HELD + g.BANK_HELD = Owed(g)
      /\ w.on \in Imports => g.DEPOSIT_HELD + g.SUPPLIER_PAID = Owed(g)
  <2>1. Invoices \cap Direct = {} /\ Exports \cap Imports = {}
    BY ConstantsAssumption
  <2>2. CASE w.kind = "DEPOSIT_RELEASED" /\ w.on \in Invoices /\ w.n \in DOMAIN releases[w.on]
    <3>1. releases[w.on][w.n] \in Nat
      BY <1>1, <2>2 DEF TypeOK
    <3>2. g = ReleasedGroup(w.on, releases[w.on][w.n]) /\ Subject(w) = w.on
      BY <2>2 DEF Group, Subject
    <3> QED
      BY <2>1, <2>2, <3>1, <3>2, ReleasedGroupBalances DEF Trades, Invoices, Kinds
  <2>3. CASE w.kind = "SETTLEMENT_FUNDED" /\ w.on \in Direct
    <3>1. g = FundedGroup(w.on) /\ Subject(w) = w.on
      BY <2>3 DEF Group, Subject
    <3> QED
      BY <1>1, <2>1, <2>3, <3>1, FundedGroupBalances DEF Trades, Invoices, Kinds
  <2>4. CASE w.kind = "SETTLEMENT_SETTLED" /\ w.on \in Files
    <3>1. g = SettledGroup(w.on) /\ Subject(w) = w.on
      BY <2>4 DEF Group, Subject
    <3> QED
      BY <2>1, <2>4, <3>1, SettledGroupBalances DEF Trades, Invoices, Kinds, Files
  <2>5. CASE w.kind = "REFUND_SENT" /\ w.on \in Invoices /\ w.by \in Refunds
    <3>1. g = RefundSentGroup(w.on) /\ Subject(w) = w.by
      BY <2>5 DEF Group, Subject
    <3> QED
      BY <1>1, <2>1, <2>5, <3>1, RefundGroupBalances DEF Trades, Invoices, Kinds
  <2> QED
    BY <1>1, <2>2, <2>3, <2>4, <2>5, BookingFits
<1>4. books' \in [Trades -> Balances] /\ BooksBalance'
  BY <1>1, <1>2, <1>3, PostingKeepsBalance
<1>5. \A r \in Workers : work'[r] = work[r] \/ (work'[r] \in Jobs /\ JobHolds(work'[r]))
  BY <1>1, <1>2, IdleIsJob DEF TypeOK
<1>6. TypeOK'
  BY <1>1, <1>2, <1>3, <1>4, IdleIsJob DEF TypeOK
<1>7. Grows
  BY <1>2 DEF Grows
<1> QED
  BY <1>2, <1>4, <1>5, <1>6, <1>7, QuietKeeps

-----------------------------------------------------------------------------
(* Payments, the settings, the chain and the contract.                      *)

LEMMA InvoicePaidKeeps ==
  ASSUME IInv, NEW i \in Invoices, InvoicePaid(i)
  PROVE  IInv'
<1> PICK g : g = InvoicePaidGroup(i)
  OBVIOUS
<1>1. TypeOK /\ BooksBalance /\ Gross[i] \in Nat /\ i \in Trades
  BY ConstantsAssumption DEF IInv, Trades
<1>2. /\ ~paid[i] /\ paid' = [paid EXCEPT ![i] = TRUE]
      /\ held' = [held EXCEPT ![i] = @ + Gross[i]]
      /\ books' = [books EXCEPT ![i] = Plus(@, g)]
      /\ status' = IF i \in Exports THEN [status EXCEPT ![i] = "AWAITING_BANK"] ELSE status
      /\ UNCHANGED <<percent, account, priced, funding, given, receipts, mined, row, releases, swept,
                     refund, posted, work, failures>>
  BY DEF InvoicePaid, chain
<1>3. /\ g \in Balances
      /\ i \in Exports => g.DEPOSIT_HELD + g.BANK_HELD = Owed(g)
      /\ i \in Imports => g.DEPOSIT_HELD + g.SUPPLIER_PAID = Owed(g) + PaidSplit(i).beneficiary
  BY PaidGroupBalances
<1>4. /\ Plus(books[i], g) \in Balances
      /\ Owed(Plus(books[i], g)) = Owed(books[i]) + Owed(g)
      /\ books[i] \in Balances
  BY <1>1, <1>3, PlusAddsUp DEF TypeOK
<1>5. /\ books' \in [Trades -> Balances] /\ books'[i] = Plus(books[i], g)
      /\ \A y \in Trades : y # i => books'[y] = books[y]
  BY <1>1, <1>2, <1>4 DEF TypeOK
<1>6. /\ paid' \in [Invoices -> BOOLEAN] /\ paid'[i]
      /\ \A j \in Invoices : j # i => paid'[j] = paid[j]
      /\ held' \in [Invoices -> Nat]
      /\ status' \in [Files -> Statuses \cup {"none"}]
      /\ \A f \in Files : status'[f] = status[f] \/ (status'[f] = "AWAITING_BANK" /\ f = i)
  <2>1. paid' \in [Invoices -> BOOLEAN] /\ paid'[i] /\ \A j \in Invoices : j # i => paid'[j] = paid[j]
    BY <1>1, <1>2 DEF TypeOK
  <2>2. held' \in [Invoices -> Nat]
    BY <1>1, <1>2 DEF TypeOK
  <2>3. CASE i \in Exports
    <3>1. /\ status' = [status EXCEPT ![i] = "AWAITING_BANK"] /\ i \in Files
          /\ status \in [Files -> Statuses \cup {"none"}] /\ "AWAITING_BANK" \in Statuses
      BY <1>1, <1>2, <2>3 DEF TypeOK, Files, Statuses
    <3> QED
      BY <2>1, <2>2, <3>1
  <2>4. CASE i \notin Exports
    BY <1>1, <1>2, <2>1, <2>2, <2>4 DEF TypeOK
  <2> QED
    BY <2>3, <2>4
<1>7. TypeOK'
  BY <1>1, <1>2, <1>5, <1>6 DEF TypeOK
<1>8. Grows
  BY <1>2, <1>6 DEF Grows
<1>9. \A b \in Balances : Owed(b) \in Int /\ b.DEPOSIT_HELD \in Int /\ b.BANK_HELD \in Int /\ b.SUPPLIER_PAID \in Int
  BY DEF Balances, Accounts, Owed
<1>10. /\ Plus(books[i], g).DEPOSIT_HELD = books[i].DEPOSIT_HELD + g.DEPOSIT_HELD
       /\ Plus(books[i], g).BANK_HELD = books[i].BANK_HELD + g.BANK_HELD
       /\ Plus(books[i], g).SUPPLIER_PAID = books[i].SUPPLIER_PAID + g.SUPPLIER_PAID
  BY DEF Plus, Accounts
<1>11. BooksBalance'
  <2>1. ASSUME NEW x \in Exports \cup Direct
        PROVE  books'[x].DEPOSIT_HELD + books'[x].BANK_HELD = Owed(books'[x])
    <3>1. x \in Trades /\ books[x].DEPOSIT_HELD + books[x].BANK_HELD = Owed(books[x])
      BY <1>1 DEF BooksBalance, Trades, Invoices
    <3>2. CASE x = i
      <4>1. x \in Exports
        BY <3>2, ConstantsAssumption
      <4> QED
        BY <1>3, <1>4, <1>5, <1>9, <1>10, <3>1, <3>2, <4>1
    <3>3. CASE x # i
      BY <1>5, <3>1, <3>3
    <3> QED
      BY <3>2, <3>3
  <2>2. ASSUME NEW j \in Imports
        PROVE  books'[j].DEPOSIT_HELD + books'[j].SUPPLIER_PAID
                 = Owed(books'[j]) + (IF paid'[j] THEN PaidSplit(j).beneficiary ELSE 0)
    <3>1. /\ j \in Trades /\ j \in Invoices
          /\ books[j].DEPOSIT_HELD + books[j].SUPPLIER_PAID
               = Owed(books[j]) + (IF paid[j] THEN PaidSplit(j).beneficiary ELSE 0)
      BY <1>1 DEF BooksBalance, Trades, Invoices
    <3>2. CASE j = i
      <4>1. PaidSplit(i).beneficiary \in Nat
        BY <1>1, SplitFacts DEF PaidSplit
      <4>2. books[i].DEPOSIT_HELD + books[i].SUPPLIER_PAID = Owed(books[i])
        BY <1>2, <1>4, <1>9, <3>1, <3>2
      <4> QED
        BY <1>3, <1>4, <1>5, <1>6, <1>9, <1>10, <3>2, <4>1, <4>2
    <3>3. CASE j # i
      BY <1>5, <1>6, <3>1, <3>3
    <3> QED
      BY <3>2, <3>3
  <2> QED
    BY <2>1, <2>2 DEF BooksBalance
<1> QED
  BY <1>2, <1>6, <1>7, <1>8, <1>11, QuietKeeps

LEMMA WorldKeeps ==
  ASSUME IInv, World
  PROVE  IInv'
<1>1. ASSUME NEW p \in Percents, SetPercent(p)
      PROVE  IInv'
  <2>1. TypeOK' /\ Grows /\ BooksBalance'
    BY <1>1 DEF SetPercent, IInv, TypeOK, Grows, BooksBalance, files, chain, deposits, ledger
  <2> QED
    BY <1>1, <2>1, QuietKeeps DEF SetPercent, files
<1>2. ASSUME NEW i \in Invoices, LatePayment(i)
      PROVE  IInv'
  <2>1. TypeOK' /\ Grows /\ BooksBalance'
    BY <1>2 DEF LatePayment, IInv, TypeOK, Grows, BooksBalance, files, chain, deposits, ledger
  <2> QED
    BY <1>2, <2>1, QuietKeeps DEF LatePayment, files
<1>3. ASSUME NEW i \in Invoices, Release(i)
      PROVE  IInv'
  <2>1. /\ releases' = [releases EXCEPT ![i] = Append(@, held[i])]
        /\ held' = [held EXCEPT ![i] = 0]
        /\ UNCHANGED <<percent, files, mined, row, paid, swept, refund, books, posted, work, failures>>
    BY <1>3 DEF Release, chain, ledger
  <2>2. /\ held[i] \in Nat /\ releases[i] \in Seq(Nat)
        /\ releases \in [Invoices -> Seq(Nat)] /\ held \in [Invoices -> Nat]
    BY DEF IInv, TypeOK
  <2>3. /\ Append(releases[i], held[i]) \in Seq(Nat)
        /\ DOMAIN releases[i] \subseteq DOMAIN Append(releases[i], held[i])
    BY <2>2
  <2>4. /\ releases' \in [Invoices -> Seq(Nat)] /\ held' \in [Invoices -> Nat]
        /\ \A j \in Invoices : DOMAIN releases[j] \subseteq DOMAIN releases'[j]
    BY <2>1, <2>2, <2>3
  <2>5. TypeOK' /\ Grows /\ BooksBalance'
    BY <2>1, <2>4 DEF IInv, TypeOK, Grows, BooksBalance, files
  <2> QED
    BY <2>1, <2>5, QuietKeeps DEF files
<1>4. ASSUME NEW t \in Payments, Transfer(t) \/ Finalize(t) \/ Scan(t)
      PROVE  IInv'
  <2>1. /\ mined' \in [Payments -> {"no", "yes", "final"}]
        /\ row' \in [Payments -> {"none", "CONFIRMING", "CONFIRMED"}]
        /\ \A u \in Payments : mined[u] = "final" => mined'[u] = "final"
        /\ UNCHANGED <<percent, files, deposits, refund, ledger, work, failures>>
    <3>1. CASE Transfer(t)
      BY <3>1 DEF Transfer, IInv, TypeOK
    <3>2. CASE Finalize(t)
      BY <3>2 DEF Finalize, IInv, TypeOK
    <3>3. CASE Scan(t)
      BY <3>3 DEF Scan, IInv, TypeOK
    <3> QED
      BY <1>4, <3>1, <3>2, <3>3
  <2>2. TypeOK' /\ Grows /\ BooksBalance'
    BY <2>1 DEF IInv, TypeOK, Grows, BooksBalance, files, deposits, ledger
  <2> QED
    BY <2>1, <2>2, QuietKeeps DEF files
<1> QED
  BY <1>1, <1>2, <1>3, <1>4, InvoicePaidKeeps DEF World

-----------------------------------------------------------------------------
LEMMA InitHolds == Init => IInv
<1> SUFFICES ASSUME Init PROVE IInv
  OBVIOUS
<1>1. TypeOK
  <2>1. <<>> \in Seq(Nat)
    OBVIOUS
  <2> QED
    BY <2>1, IdleIsJob, NothingIsBalanced DEF Init, TypeOK
<1>2. DecisionsHold
  <2>1. \A s \in Workers : JobHolds(work[s])
    BY IdleIsJob DEF Init
  <2> QED
    BY <2>1 DEF Init, DecisionsHold, FileHolds, Priced, Backed
<1>3. RialAgainstRate /\ RialBacked
  BY DEF Init, RialAgainstRate, RialBacked, Files
<1>4. BooksBalance
  <2>1. Nothing.DEPOSIT_HELD = 0 /\ Nothing.BANK_HELD = 0 /\ Nothing.SUPPLIER_PAID = 0
    BY DEF Nothing, Accounts
  <2>2. \A x \in Trades : books[x] = Nothing
    BY DEF Init
  <2> QED
    BY <2>1, <2>2, NothingIsBalanced DEF Init, BooksBalance, Trades, Invoices
<1> QED
  BY <1>1, <1>2, <1>3, <1>4 DEF IInv

LEMMA StepKeeps == IInv /\ [Next]_vars => IInv'
<1> SUFFICES ASSUME IInv, [Next]_vars PROVE IInv'
  OBVIOUS
<1>1. CASE UNCHANGED vars
  <2>1. TypeOK' /\ Grows /\ BooksBalance'
    BY <1>1 DEF vars, IInv, TypeOK, Grows, BooksBalance, files, chain, deposits, ledger
  <2> QED
    BY <1>1, <2>1, QuietKeeps DEF vars, files
<1>2. CASE \E s \in Slots : Ask(s)
  BY <1>2, AskKeeps
<1>3. CASE \E s \in Sweepers, t \in Payments : Refresh(s, t)
  BY <1>3, RefreshKeeps DEF Workers
<1>4. ASSUME NEW s \in Workers, Continue(s) \/ Fail(s)
      PROVE  IInv'
  BY <1>4, CommitSettlementKeeps, CommitOthersKeep, FindSettlementKeeps, CheckPostedKeeps, PostKeeps, FailKeeps
     DEF Continue
<1>5. CASE World
  BY <1>5, WorldKeeps
<1> QED
  BY <1>1, <1>2, <1>3, <1>4, <1>5 DEF Next

(* The inductive invariant holds, whatever overlaps and dies.               *)
THEOREM InvariantHolds == Spec => []IInv
BY InitHolds, StepKeeps, PTL DEF Spec

(* Every variable keeps its type.                                           *)
THEOREM TypeCorrect == Spec => []TypeOK
BY InvariantHolds, PTL DEF IInv

(* What a handler read and acts on late is still true where it matters.     *)
THEOREM DecisionsHoldAlways == Spec => []DecisionsHold
BY InvariantHolds, PTL DEF IInv

(* Rial is never paid without a locked rate and a named account.            *)
THEOREM RialAgainstRateAlways == Spec => []RialAgainstRate
BY InvariantHolds, PTL DEF IInv

(* Rial is never paid for crypto the chain might take back.                 *)
THEOREM RialBackedAlways == Spec => []RialBacked
BY InvariantHolds, PTL DEF IInv

(* The books balance after any postings in any order, duplicated or cut     *)
(* short, for every amount, fee and percentage.                             *)
THEOREM BooksBalanceAlways == Spec => []BooksBalance
BY InvariantHolds, PTL DEF IInv

-----------------------------------------------------------------------------
(* Handlers that write a row in turn (RowsApart).  What one of them read of *)
(* the row it is going to write is then still so when it writes it.         *)

Ends == {"SETTLED", "REJECTED"}
Handed == {"CRYPTO_RECEIVED", "CRYPTO_CONFIRMED", "SETTLED"}

FileTurn(f) ==
  /\ receipts[f] = IF status[f] = "SETTLED" THEN 1 ELSE 0
  /\ f \in Exports /\ paid[f] => status[f] # "none"
  /\ f \in Direct /\ status[f] # "REJECTED" => (funding[f] # None <=> status[f] \in Handed)

(* A settlement's write is about to be made from a status the file has.     *)
SettlementTurn(w) ==
  /\ status[w.on] \notin Ends
  /\ w.on \in Direct /\ w.op # "submitPayoutTx" /\ w.to # "REJECTED"
       => (status[w.on] \in Handed <=> w.to \in Handed)
  /\ w.op = "submitPayoutTx" => status[w.on] \notin Handed /\ w.to \in Handed
  /\ w.op = "submit" => w.on \in Direct
  /\ w.on \in Direct /\ w.op # "submit" => status[w.on] # "none"

JobTurn(w) ==
  /\ w.op \in SettlementOps /\ w.at = "commit" => SettlementTurn(w)
  /\ w.op = "recordRelease" /\ w.at = "commit" => ~swept[w.on]
  /\ w.op \in RefundOps => w.on = RefundOf[w.by]
  /\ w.op \in RefundOps /\ w.at = "commit" => refund[w.by] # "SENT"

FilesInTurn ==
  /\ \A f \in Files : FileTurn(f)
  /\ \A s \in Workers : JobTurn(work[s])

-----------------------------------------------------------------------------
(* The row a job is going to write is not written by this step.             *)
RowStays(w) ==
  /\ w.op \in SettlementOps => status'[w.on] = status[w.on]
  /\ w.op = "recordRelease" => swept'[w.on] = swept[w.on]
  /\ w.op \in RefundOps => refund'[w.by] = refund[w.by]

(* One worker goes on, and the others still stand by what they read.        *)
LEMMA TurnPasses ==
  ASSUME FilesInTurn, TypeOK, NEW s \in Workers, NEW j, work' = [work EXCEPT ![s] = j], JobTurn(j)',
         \A r \in Workers : r # s /\ Writing(work[r]) => RowStays(work[r])
  PROVE  \A r \in Workers : JobTurn(work[r])'
<1> SUFFICES ASSUME NEW r \in Workers PROVE JobTurn(work[r])'
  OBVIOUS
<1>1. CASE r = s
  <2>1. work'[r] = j
    BY <1>1 DEF TypeOK
  <2> QED
    BY <2>1 DEF JobTurn, SettlementTurn
<1>2. CASE r # s
  <2> PICK w : w = work[r]
    OBVIOUS
  <2>1. work'[r] = w /\ JobTurn(w)
    BY <1>2 DEF TypeOK, FilesInTurn
  <2>2. CASE ~Writing(w)
    BY <2>1, <2>2 DEF JobTurn, Writing, SettlementOps, RefundOps
  <2>3. CASE Writing(w)
    <3>1. RowStays(w)
      BY <1>2, <2>3
    <3> QED
      BY <2>1, <3>1 DEF JobTurn, SettlementTurn, RowStays
  <2> QED
    BY <2>2, <2>3
<1> QED
  BY <1>1, <1>2

(* A step of one worker that writes no row.                                 *)
LEMMA FilesStay ==
  ASSUME FilesInTurn, TypeOK, NEW s \in Workers, NEW j, work' = [work EXCEPT ![s] = j], JobTurn(j)',
         UNCHANGED <<status, funding, receipts, paid, swept, refund>>
  PROVE  FilesInTurn'
<1>1. \A f \in Files : FileTurn(f)'
  BY DEF FilesInTurn, FileTurn
<1>2. \A r \in Workers : JobTurn(work[r])'
  BY TurnPasses DEF RowStays
<1> QED
  BY <1>1, <1>2 DEF FilesInTurn

LEMMA IdleInTurn == JobTurn(Idle) /\ JobTurn(Idle)'
BY DEF JobTurn, Idle, SettlementOps, RefundOps

(* A handler that only read.                                                *)
LEMMA RequestInTurn ==
  ASSUME IInv, FilesInTurn, NEW s \in Workers, NEW f \in Files, NEW op \in SettlementOps,
         NEW to \in Statuses, Decide(s, Job(op, f, None, to)),
         op # "submitPayoutTx", status[f] \notin Ends,
         f \in Direct /\ to # "REJECTED" => (status[f] \in Handed <=> to \in Handed),
         op = "submit" => f \in Direct,
         op # "submit" => status[f] # "none"
  PROVE  FilesInTurn'
<1> PICK job : job = Job(op, f, None, to)
  OBVIOUS
<1>1. /\ job.op = op /\ job.on = f /\ job.to = to /\ job.at = "commit"
  BY DEF Job
<1>2. /\ work' = [work EXCEPT ![s] = job] /\ TypeOK
      /\ UNCHANGED <<status, funding, receipts, paid, swept, refund>>
  BY DEF Decide, Begin, files, deposits, IInv
<1>3. SettlementTurn(job)'
  BY <1>1, <1>2 DEF SettlementTurn
<1>4. JobTurn(job)'
  BY <1>1, <1>3 DEF JobTurn, SettlementOps, RefundOps
<1> QED
  BY <1>2, <1>4, FilesStay

LEMMA AskInTurn ==
  ASSUME IInv, FilesInTurn, NEW s \in Slots, Ask(s)
  PROVE  FilesInTurn'
<1> s \in Workers /\ TypeOK
  BY DEF Workers, IInv
<1> USE DEF SettlementOps, Statuses, Ends, Handed
<1>1. ASSUME NEW d \in Direct, Submit(s, d)
      PROVE  FilesInTurn'
  <2>1. d \in Files /\ status[d] = "none"
    BY <1>1 DEF Submit, Files
  <2> QED
    BY <1>1, <2>1, RequestInTurn DEF Submit
<1>2. ASSUME NEW f \in Files, SetPayoutAccount(s, f) \/ ApproveAdmin(s, f) \/ RejectAdmin(s, f)
      PROVE  FilesInTurn'
  <2>1. CASE SetPayoutAccount(s, f)
    BY <2>1, RequestInTurn DEF SetPayoutAccount
  <2>2. CASE ApproveAdmin(s, f)
    BY <2>2, RequestInTurn DEF ApproveAdmin
  <2>3. CASE RejectAdmin(s, f)
    BY <2>3, RequestInTurn DEF RejectAdmin
  <2> QED
    BY <1>2, <2>1, <2>2, <2>3
<1>3. ASSUME NEW f \in Files, LockRate(s, f) \/ Settle(s, f) \/ RejectBank(s, f)
      PROVE  FilesInTurn'
  <2>1. CASE LockRate(s, f)
    BY <2>1, RequestInTurn DEF LockRate
  <2>2. CASE Settle(s, f)
    <3>1. f \in Exports => f \notin Direct
      BY ConstantsAssumption DEF Invoices
    <3> QED
      BY <2>2, <3>1, RequestInTurn DEF Settle
  <2>3. CASE RejectBank(s, f)
    BY <2>3, RequestInTurn DEF RejectBank
  <2> QED
    BY <1>3, <2>1, <2>2, <2>3
<1>4. ASSUME NEW d \in Direct, NEW t \in Payments, SubmitPayoutTx(s, d, t)
      PROVE  FilesInTurn'
  <2> PICK to : to = IF mined[t] = "final" THEN "CRYPTO_CONFIRMED" ELSE "CRYPTO_RECEIVED"
    OBVIOUS
  <2> PICK job : job = Job("submitPayoutTx", d, t, to)
    OBVIOUS
  <2>1. job.op = "submitPayoutTx" /\ job.on = d /\ job.to = to /\ job.at = "commit"
    BY DEF Job
  <2>2. /\ status[d] = "BANK_RATE_LOCKED" /\ work' = [work EXCEPT ![s] = job]
        /\ UNCHANGED <<status, funding, receipts, paid, swept, refund>>
    BY <1>4 DEF SubmitPayoutTx, Begin, files, deposits
  <2>3. SettlementTurn(job)'
    BY <2>1, <2>2 DEF SettlementTurn
  <2>4. JobTurn(job)'
    BY <2>1, <2>3 DEF JobTurn, RefundOps
  <2> QED
    BY <2>2, <2>4, FilesStay
<1>5. ASSUME NEW i \in Invoices, NEW n \in 1 .. MaxReleases, RecordRelease(s, i, n)
      PROVE  FilesInTurn'
  <2> PICK job : job = [Job("recordRelease", i, None, "none") EXCEPT !.n = n]
    OBVIOUS
  <2>1. job.op = "recordRelease" /\ job.on = i
    BY DEF Job
  <2>2. /\ ~swept[i] /\ work' = [work EXCEPT ![s] = job]
        /\ UNCHANGED <<status, funding, receipts, paid, swept, refund>>
    BY <1>5 DEF RecordRelease, Decide, Begin, files, deposits
  <2>3. JobTurn(job)'
    BY <2>1, <2>2 DEF JobTurn, RefundOps
  <2> QED
    BY <2>2, <2>3, FilesStay
<1>6. ASSUME NEW r \in Refunds, NEW op \in RefundOps, NEW to, Decide(s, Job(op, RefundOf[r], r, to)),
             refund[r] # "SENT"
      PROVE  FilesInTurn'
  <2> PICK job : job = Job(op, RefundOf[r], r, to)
    OBVIOUS
  <2>1. job.op = op /\ job.on = RefundOf[r] /\ job.by = r
    BY DEF Job
  <2>2. /\ work' = [work EXCEPT ![s] = job]
        /\ UNCHANGED <<status, funding, receipts, paid, swept, refund>>
    BY <1>6 DEF Decide, Begin, files, deposits
  <2>3. JobTurn(job)'
    BY <1>6, <2>1, <2>2 DEF JobTurn, RefundOps
  <2> QED
    BY <2>2, <2>3, FilesStay
<1>7. ASSUME NEW r \in Refunds,
             RequestRefund(s, r) \/ ApproveRefund(s, r) \/ RejectRefund(s, r) \/ MarkSent(s, r)
      PROVE  FilesInTurn'
  BY <1>6, <1>7 DEF RequestRefund, ApproveRefund, RejectRefund, MarkSent, RefundOps
<1> QED
  BY <1>1, <1>2, <1>3, <1>4, <1>5, <1>7 DEF Ask

-----------------------------------------------------------------------------
(* The next step of a job books, and decides nothing more.                  *)
LEMMA NextStepInTurn ==
  ASSUME NEW w \in Jobs, w.op \in RefundOps => w.on = RefundOf[w.by]
  PROVE  JobTurn(NextStep(w))'
<1>1. CASE Books(w) = "none"
  BY <1>1, IdleInTurn DEF NextStep
<1>2. CASE Books(w) # "none"
  <2> PICK k : k = [w EXCEPT !.kind = Books(w), !.at = "check"]
    OBVIOUS
  <2>1. k.op = w.op /\ k.on = w.on /\ k.by = w.by /\ k.at = "check"
    BY DEF Jobs
  <2>2. NextStep(w) = k
    BY <1>2 DEF NextStep
  <2>3. JobTurn(k)'
    BY <2>1 DEF JobTurn
  <2> QED
    BY <2>2, <2>3
<1> QED
  BY <1>1, <1>2

LEMMA WritesInTurn ==
  ASSUME RowsApart, IInv, FilesInTurn, NEW s \in Workers, CommitSettlement(s)
  PROVE  FilesInTurn' /\ (\A f \in Files : status[f] \in Ends => status'[f] = status[f])
<1> PICK w : w = work[s]
  OBVIOUS
<1> PICK f : f = w.on
  OBVIOUS
<1>1. /\ w \in Jobs /\ w.op \in SettlementOps /\ w.at = "commit" /\ TypeOK
      /\ SettlementJob(w) /\ f \in Files /\ w.to \in Statuses
  BY DEF CommitSettlement, IInv, TypeOK, DecisionsHold, JobHolds, SettlementJob
<1>2. SettlementTurn(w)
  <2>1. JobTurn(w)
    BY DEF FilesInTurn
  <2> QED
    BY <1>1, <2>1 DEF JobTurn
<1>3. ASSUME w.op = "submitPayoutTx" /\ Taken(f, w.by)
      PROVE  FilesInTurn' /\ UNCHANGED status
  <2>1. /\ work' = [work EXCEPT ![s] = Idle]
        /\ UNCHANGED <<status, funding, receipts, paid, swept, refund>>
    BY <1>3 DEF CommitSettlement, files, deposits
  <2> QED
    BY <1>1, <2>1, IdleInTurn, FilesStay
<1>4. ASSUME ~(w.op = "submitPayoutTx" /\ Taken(f, w.by))
      PROVE  FilesInTurn' /\ (\A g \in Files : status[g] \in Ends => status'[g] = status[g])
  <2> PICK k : k = NextStep(w)
    OBVIOUS
  <2>1. /\ status' = [status EXCEPT ![f] = w.to]
        /\ funding' = [d \in Direct |-> IF w.op = "submitPayoutTx" /\ d = f THEN w.by ELSE funding[d]]
        /\ receipts' = [receipts EXCEPT ![f] = IF w.op = "settle" THEN @ + 1 ELSE @]
        /\ work' = [work EXCEPT ![s] = k]
        /\ UNCHANGED <<paid, swept, refund>>
    BY <1>4 DEF CommitSettlement, deposits
  <2>2. \A r \in Workers : JobTurn(work[r])'
    <3>1. w.op \notin RefundOps
      BY <1>1 DEF SettlementOps, RefundOps
    <3>2. JobTurn(k)'
      BY <1>1, <3>1, NextStepInTurn
    <3>3. ASSUME NEW r \in Workers, r # s, Writing(work[r])
          PROVE  RowStays(work[r])
      <4> PICK v : v = work[r]
        OBVIOUS
      <4>1. v.op \in SettlementOps => v.on # f
        <5>1. Writing(w) /\ Row(w) # Row(v)
          BY <1>1, <3>3 DEF Writing, SettlementOps, RowsApart, Rivals
        <5> QED
          BY <1>1, <5>1 DEF Row, SettlementOps, RefundOps
      <4>2. v.op \in SettlementOps => v.on \in Files
        BY <3>3 DEF IInv, DecisionsHold, JobHolds, SettlementJob, Writing
      <4> QED
        BY <1>1, <2>1, <4>1, <4>2 DEF RowStays, TypeOK
    <3> QED
      BY <1>1, <2>1, <3>2, <3>3, TurnPasses
  <2>3. /\ status'[f] = w.to /\ status[f] \notin Ends
        /\ \A g \in Files : g # f => status'[g] = status[g]
    BY <1>1, <1>2, <2>1 DEF TypeOK, SettlementTurn
  <2>4. ASSUME NEW g \in Files
        PROVE  FileTurn(g)'
    <3>1. CASE g # f
      <4>1. /\ status'[g] = status[g] /\ receipts'[g] = receipts[g]
            /\ g \in Direct => funding'[g] = funding[g]
        BY <1>1, <2>1, <2>3, <3>1 DEF TypeOK
      <4> QED
        BY <2>1, <4>1 DEF FilesInTurn, FileTurn
    <3>2. CASE g = f
      <4>1. receipts[f] = 0 /\ receipts'[f] = IF w.op = "settle" THEN 1 ELSE 0
        BY <1>1, <2>1, <2>3 DEF FilesInTurn, FileTurn, Ends, TypeOK
      <4>2. w.op = "settle" <=> w.to = "SETTLED"
        BY <1>1 DEF SettlementJob
      <4>3. w.to # "none"
        BY <1>1 DEF Statuses
      <4>4. f \in Direct /\ w.to # "REJECTED" => (funding'[f] # None <=> w.to \in Handed)
        <5>1. CASE w.op = "submitPayoutTx"
          <6>1. f \in Direct /\ w.by \in Payments
            BY <1>1, <5>1 DEF SettlementJob
          <6>2. funding'[f] = w.by
            BY <2>1, <5>1, <6>1
          <6> QED
            BY <1>2, <5>1, <6>1, <6>2, ConstantsAssumption DEF SettlementTurn
        <5>2. CASE w.op # "submitPayoutTx"
          <6>1. f \in Direct => funding'[f] = funding[f]
            BY <2>1, <5>2
          <6>2. f \in Direct => (funding[f] # None <=> status[f] \in Handed)
            BY <1>1, <2>3 DEF FilesInTurn, FileTurn, Ends
          <6> QED
            BY <1>2, <5>2, <6>1, <6>2 DEF SettlementTurn
        <5> QED
          BY <5>1, <5>2
      <4> QED
        BY <2>3, <3>2, <4>1, <4>2, <4>3, <4>4 DEF FileTurn
    <3> QED
      BY <3>1, <3>2
  <2> QED
    BY <2>2, <2>3, <2>4 DEF FilesInTurn
<1> QED
  BY <1>3, <1>4

(* An invoice that is paid opens its file.                                  *)
LEMMA PaidInTurn ==
  ASSUME IInv, FilesInTurn, NEW i \in Invoices, InvoicePaid(i)
  PROVE  FilesInTurn' /\ (\A f \in Files : status[f] \in Ends => status'[f] = status[f])
<1>1. /\ TypeOK /\ ~paid[i] /\ paid' = [paid EXCEPT ![i] = TRUE]
      /\ status' = IF i \in Exports THEN [status EXCEPT ![i] = "AWAITING_BANK"] ELSE status
      /\ UNCHANGED <<funding, receipts, swept, refund, work>>
  BY DEF InvoicePaid, IInv
<1>2. i \in Exports => i \in Files /\ i \notin Direct /\ status[i] = "none"
  BY <1>1, ConstantsAssumption DEF Files, Invoices, IInv, DecisionsHold, FileHolds
<1>3. /\ \A f \in Files : f # i => status'[f] = status[f]
      /\ i \in Exports => status'[i] = "AWAITING_BANK"
      /\ i \notin Exports => status' = status
  BY <1>1, <1>2 DEF TypeOK
<1>4. \A f \in Files : status[f] \in Ends => status'[f] = status[f]
  BY <1>2, <1>3 DEF Ends, Files
<1>5. ASSUME NEW f \in Files
      PROVE  FileTurn(f)'
  <2>1. CASE f # i
    <3>1. status'[f] = status[f] /\ (f \in Exports => paid'[f] = paid[f])
      BY <1>1, <1>3, <2>1 DEF TypeOK, Invoices
    <3> QED
      BY <1>1, <3>1 DEF FilesInTurn, FileTurn
  <2>2. CASE f = i
    <3>1. i \in Exports
      BY <2>2, ConstantsAssumption DEF Files, Invoices
    <3> QED
      BY <1>1, <1>2, <1>3, <2>2, <3>1 DEF FilesInTurn, FileTurn
  <2> QED
    BY <2>1, <2>2
<1>6. ASSUME NEW r \in Workers
      PROVE  JobTurn(work[r])'
  <2> PICK w : w = work[r]
    OBVIOUS
  <2>1. JobTurn(w) /\ JobHolds(w) /\ work'[r] = w
    BY <1>1 DEF FilesInTurn, IInv, DecisionsHold
  <2>2. ASSUME w.op \in SettlementOps, w.at = "commit"
        PROVE  SettlementTurn(w)'
    <3>1. SettlementTurn(w) /\ SettlementJob(w)
      BY <2>1, <2>2 DEF JobTurn, JobHolds
    <3>2. w.on \in Files /\ w.on # i
      <4>1. w.on \in Files /\ (w.on \in Exports => paid[w.on])
        BY <3>1 DEF SettlementJob
      <4> QED
        BY <1>1, <4>1, ConstantsAssumption DEF Files, Invoices
    <3>3. status'[w.on] = status[w.on]
      BY <1>3, <3>2
    <3> QED
      BY <3>1, <3>3 DEF SettlementTurn
  <2> QED
    BY <1>1, <2>1, <2>2 DEF JobTurn, SettlementTurn
<1> QED
  BY <1>4, <1>5, <1>6 DEF FilesInTurn

(* The steps that write no settlement.                                      *)
LEMMA OthersInTurn ==
  ASSUME RowsApart, IInv, FilesInTurn, NEW s \in Workers,
         \/ CommitRelease(s) \/ CommitRefund(s) \/ FindSettlement(s) \/ CheckPosted(s) \/ Post(s) \/ Fail(s)
         \/ \E t \in Payments : Refresh(s, t)
  PROVE  FilesInTurn' /\ UNCHANGED status
<1> PICK w : w = work[s]
  OBVIOUS
<1>1. TypeOK /\ w \in Jobs /\ JobHolds(w) /\ JobTurn(w)
  BY DEF IInv, TypeOK, DecisionsHold, FilesInTurn
<1>2. UNCHANGED <<status, funding, receipts, paid>>
  <2>1. ASSUME CommitRelease(s) \/ CommitRefund(s) \/ FindSettlement(s)
        PROVE  UNCHANGED <<status, funding, receipts, paid>>
    BY <2>1 DEF CommitRelease, CommitRefund, FindSettlement, files, deposits
  <2>2. ASSUME CheckPosted(s) \/ Post(s) \/ Fail(s)
        PROVE  UNCHANGED <<status, funding, receipts, paid>>
    BY <2>2 DEF CheckPosted, Post, Fail, files, deposits
  <2>3. ASSUME NEW t \in Payments, Refresh(s, t)
        PROVE  UNCHANGED <<status, funding, receipts, paid>>
    BY <2>3 DEF Refresh, files, deposits
  <2> QED
    BY <2>1, <2>2, <2>3
<1>3. ASSUME NEW j, work' = [work EXCEPT ![s] = j], JobTurn(j)', UNCHANGED <<swept, refund>>
      PROVE  FilesInTurn'
  BY <1>1, <1>2, <1>3, FilesStay
<1>9. ASSUME work' = [work EXCEPT ![s] = Idle], UNCHANGED <<swept, refund>>
      PROVE  FilesInTurn'
  <2> PICK j : j = Idle
    OBVIOUS
  <2>1. JobTurn(j)'
    BY IdleInTurn
  <2> QED
    BY <1>9, <1>3, <2>1
<1>4. CASE CommitRelease(s) \/ CommitRefund(s)
  <2> PICK j : j = NextStep(w)
    OBVIOUS
  <2>1. work' = [work EXCEPT ![s] = j]
    BY <1>4 DEF CommitRelease, CommitRefund
  <2>2. JobTurn(j)'
    BY <1>1, NextStepInTurn DEF JobTurn
  <2>3. ASSUME NEW r \in Workers, r # s, Writing(work[r])
        PROVE  RowStays(work[r])
    <3> PICK v : v = work[r]
      OBVIOUS
    <3>1. JobHolds(v) /\ (Writing(w) => Row(w) # Row(v))
      BY <2>3 DEF IInv, DecisionsHold, RowsApart, Rivals
    <3>2. CASE CommitRelease(s)
      <4>1. w.op = "recordRelease" /\ swept' = [swept EXCEPT ![w.on] = TRUE] /\ UNCHANGED <<status, refund>>
        BY <3>2 DEF CommitRelease, files
      <4>2. Writing(w)
        BY <3>2, <4>1 DEF CommitRelease, Writing
      <4>3. v.op = "recordRelease" => v.on \in Invoices /\ v.on # w.on
        BY <3>1, <4>1, <4>2 DEF JobHolds, Row, RefundOps
      <4> QED
        BY <1>1, <4>1, <4>3 DEF RowStays, TypeOK
    <3>3. CASE CommitRefund(s)
      <4>1. w.op \in RefundOps /\ refund' = [refund EXCEPT ![w.by] = w.to] /\ UNCHANGED <<status, swept>>
        BY <3>3 DEF CommitRefund, files, deposits
      <4>2. Writing(w)
        BY <3>3, <4>1 DEF CommitRefund, Writing, RefundOps
      <4>3. v.op \in RefundOps => v.by \in Refunds /\ v.by # w.by
        BY <3>1, <4>1, <4>2 DEF JobHolds, Row, RefundOps
      <4> QED
        BY <1>1, <4>1, <4>3 DEF RowStays, TypeOK
    <3> QED
      BY <1>4, <3>2, <3>3
  <2>4. \A r \in Workers : JobTurn(work[r])'
    BY <1>1, <2>1, <2>2, <2>3, TurnPasses
  <2>5. \A f \in Files : FileTurn(f)'
    BY <1>2 DEF FilesInTurn, FileTurn
  <2> QED
    BY <1>2, <2>4, <2>5 DEF FilesInTurn
<1>5. CASE FindSettlement(s)
  <2>1. ASSUME NEW d \in Direct, status[d] = "CRYPTO_RECEIVED",
               work' = [work EXCEPT ![s] = [w EXCEPT !.on = d, !.at = "commit"]]
        PROVE  FilesInTurn'
    <3> PICK j : j = [w EXCEPT !.on = d, !.at = "commit"]
      OBVIOUS
    <3>1. /\ j.op = "promote" /\ j.on = d /\ j.to = "CRYPTO_CONFIRMED" /\ j.at = "commit"
      <4>1. w.at = "find"
        BY <1>5 DEF FindSettlement
      <4>2. w.op = "promote" /\ w.to = "CRYPTO_CONFIRMED"
        BY <1>1, <4>1 DEF JobHolds
      <4> QED
        BY <1>1, <4>2 DEF Jobs
    <3>2. SettlementTurn(j)'
      BY <1>2, <2>1, <3>1 DEF SettlementTurn, Ends, Handed
    <3>3. JobTurn(j)'
      BY <3>1, <3>2 DEF JobTurn, RefundOps
    <3> QED
      BY <1>3, <1>5, <2>1, <3>3 DEF FindSettlement, deposits
  <2>2. CASE work' = [work EXCEPT ![s] = Idle]
    BY <1>2, <1>5, <1>9, <2>2 DEF FindSettlement, deposits
  <2>3. \/ work' = [work EXCEPT ![s] = Idle]
        \/ \E d \in Direct : /\ status[d] = "CRYPTO_RECEIVED"
                            /\ work' = [work EXCEPT ![s] = [w EXCEPT !.on = d, !.at = "commit"]]
    <3> PICK waiting : waiting = {d \in Direct : funding[d] = w.by /\ status[d] = "CRYPTO_RECEIVED"}
      OBVIOUS
    <3>1. \/ work' = [work EXCEPT ![s] = Idle]
          \/ \E d \in waiting : work' = [work EXCEPT ![s] = [w EXCEPT !.on = d, !.at = "commit"]]
      BY <1>5 DEF FindSettlement
    <3> QED
      BY <3>1
  <2> QED
    BY <1>2, <2>1, <2>2, <2>3
<1>6. CASE CheckPosted(s)
  <2> PICK j : j = [w EXCEPT !.at = "post"]
    OBVIOUS
  <2>1. /\ work' = [work EXCEPT ![s] = Idle] \/ work' = [work EXCEPT ![s] = j]
        /\ UNCHANGED <<swept, refund>>
    BY <1>6 DEF CheckPosted, deposits
  <2>2. j.op = w.op /\ j.on = w.on /\ j.by = w.by /\ j.at = "post"
    BY <1>1 DEF Jobs
  <2>3. JobTurn(j)'
    BY <1>1, <2>2 DEF JobTurn
  <2> QED
    BY <1>2, <1>3, <1>9, <2>1, <2>3
<1>7. CASE Post(s) \/ Fail(s)
  <2>1. work' = [work EXCEPT ![s] = Idle] /\ UNCHANGED <<swept, refund>>
    BY <1>7 DEF Post, Fail, deposits
  <2> QED
    BY <1>2, <1>9, <2>1
<1>8. ASSUME NEW t \in Payments, Refresh(s, t)
      PROVE  FilesInTurn'
  <2> PICK j : j = [Job("promote", None, t, "CRYPTO_CONFIRMED") EXCEPT !.at = "find"]
    OBVIOUS
  <2>1. j.op = "promote" /\ j.at = "find"
    BY DEF Job
  <2>2. JobTurn(j)'
    BY <2>1 DEF JobTurn, RefundOps
  <2> QED
    BY <1>3, <1>8, <2>2 DEF Refresh, Begin, deposits
<1> QED
  BY <1>2, <1>4, <1>5, <1>6, <1>7, <1>8

(* The chain, the settings and a late payment.                              *)
LEMMA WorldInTurn ==
  ASSUME IInv, FilesInTurn, World
  PROVE  FilesInTurn' /\ (\A f \in Files : status[f] \in Ends => status'[f] = status[f])
<1>1. CASE \E i \in Invoices : InvoicePaid(i)
  BY <1>1, PaidInTurn
<1>2. CASE ~ \E i \in Invoices : InvoicePaid(i)
  <2>1. UNCHANGED <<status, funding, receipts, paid, swept, refund, work>>
    BY <1>2 DEF World, SetPercent, LatePayment, Release, Transfer, Finalize, Scan, files, deposits
  <2>2. \A r \in Workers : JobTurn(work[r])'
    BY <2>1 DEF FilesInTurn, JobTurn, SettlementTurn
  <2>3. \A f \in Files : FileTurn(f)'
    BY <2>1 DEF FilesInTurn, FileTurn
  <2> QED
    BY <2>1, <2>2, <2>3 DEF FilesInTurn
<1> QED
  BY <1>1, <1>2

LEMMA FilesInit == Init => FilesInTurn
<1> SUFFICES ASSUME Init PROVE FilesInTurn
  OBVIOUS
<1>1. \A f \in Files : FileTurn(f)
  BY DEF Init, FileTurn, Ends, Handed, Files, Invoices
<1>2. \A s \in Workers : JobTurn(work[s])
  BY IdleInTurn DEF Init
<1> QED
  BY <1>1, <1>2 DEF FilesInTurn

LEMMA FilesNext ==
  ASSUME RowsApart
  PROVE  IInv /\ FilesInTurn /\ [Next]_vars =>
           FilesInTurn' /\ (\A f \in Files : status[f] \in Ends => status'[f] = status[f])
<1> SUFFICES ASSUME IInv, FilesInTurn, [Next]_vars
             PROVE  FilesInTurn' /\ (\A f \in Files : status[f] \in Ends => status'[f] = status[f])
  OBVIOUS
<1>1. CASE UNCHANGED vars
  BY <1>1 DEF vars, files, deposits, FilesInTurn, FileTurn, JobTurn, SettlementTurn
<1>2. ASSUME NEW s \in Slots, Ask(s)
      PROVE  FilesInTurn' /\ UNCHANGED status
  <2>1. UNCHANGED status
    BY <1>2 DEF Ask, Submit, SetPayoutAccount, ApproveAdmin, RejectAdmin, LockRate, Settle, RejectBank,
                SubmitPayoutTx, RecordRelease, RequestRefund, ApproveRefund, RejectRefund, MarkSent,
                Decide, files
  <2> QED
    BY <1>2, <2>1, AskInTurn
<1>3. ASSUME NEW s \in Sweepers, NEW t \in Payments, Refresh(s, t)
      PROVE  FilesInTurn' /\ UNCHANGED status
  BY <1>3, OthersInTurn DEF Workers
<1>4. ASSUME NEW s \in Workers, Continue(s) \/ Fail(s)
      PROVE  FilesInTurn' /\ (\A f \in Files : status[f] \in Ends => status'[f] = status[f])
  BY <1>4, WritesInTurn, OthersInTurn DEF Continue
<1> QED
  BY <1>1, <1>2, <1>3, <1>4, WorldInTurn DEF Next

LEMMA FilesInTurnAlways == Spec /\ []RowsApart => []FilesInTurn
<1>1. RowsApart /\ IInv /\ FilesInTurn /\ [Next]_vars => FilesInTurn'
  BY FilesNext
<1> QED
  BY <1>1, FilesInit, InvariantHolds, PTL DEF Spec

(* While no two handlers write one row at a time, the bank records at most  *)
(* one rial payment per settlement, even if workers die half-way.           *)
THEOREM ReceiptOnceInTurn == Spec /\ []RowsApart => []ReceiptOnce
<1>1. FilesInTurn => ReceiptOnce
  BY DEF FilesInTurn, FileTurn, ReceiptOnce
<1> QED
  BY <1>1, FilesInTurnAlways, PTL

(* While no two handlers write one row at a time, what is settled or        *)
(* rejected is never reopened.                                              *)
THEOREM EndsAreFinalInTurn == Spec /\ []RowsApart => EndsAreFinal
<1>1. RowsApart /\ IInv /\ FilesInTurn /\ [Next]_vars
        => [\A f \in Files : status[f] \in {"SETTLED", "REJECTED"} => status'[f] = status[f]]_status
  BY FilesNext DEF Ends
<1> QED
  BY <1>1, InvariantHolds, FilesInTurnAlways, PTL DEF Spec, EndsAreFinal

-----------------------------------------------------------------------------
(* The daily limit, when a merchant's requests too come one by one: the sum *)
(* a request was measured against has not grown by the time it is written.  *)

LimitInTurn ==
  /\ WithinDailyLimit
  /\ \A s \in Workers : work[s].op = "submit" /\ work[s].at = "commit" =>
       AmountOf(Counted \cap Direct) + AmountOf({work[s].on}) <= Limit

(* What files ask for together.                                             *)
LEMMA AmountsAreNumbers ==
  /\ \A S \in SUBSET Files : IsFiniteSet(S) /\ AmountOf(S) \in Nat
  /\ \A f \in Files : Amount[f] \in Nat
<1>1. \A f \in Files : Amount[f] \in Nat
  <2> SUFFICES ASSUME NEW f \in Files PROVE Amount[f] \in Nat
    OBVIOUS
  <2>1. f \in Trades /\ Gross[f] \in Nat
    BY ConstantsAssumption DEF Files, Trades, Invoices
  <2>2. CASE f \in Direct
    BY <2>1, <2>2 DEF Amount
  <2>3. CASE f \notin Direct
    <3>1. f \in Invoices
      BY <2>3 DEF Files, Invoices
    <3> QED
      BY <2>1, <2>3, <3>1, SplitFacts DEF Amount, Net, PaidSplit
  <2> QED
    BY <2>2, <2>3
<1>2. ASSUME NEW S \in SUBSET Files
      PROVE  IsFiniteSet(S) /\ AmountOf(S) \in Nat
  <2>1. IsFiniteSet(S) /\ \A f \in S : Amount[f] \in Nat
    BY <1>1, ConstantsAssumption, FS_Subset
  <2> QED
    BY <2>1, SumIsNat DEF AmountOf
<1> QED
  BY <1>1, <1>2

LEMMA AmountOfMore ==
  ASSUME NEW S \in SUBSET Files, NEW T \in SUBSET S
  PROVE  AmountOf(T) <= AmountOf(S)
<1>1. IsFiniteSet(S) /\ \A f \in S : Amount[f] \in Nat
  BY AmountsAreNumbers
<1> QED
  BY <1>1, SumMonotone DEF AmountOf

LEMMA AmountOfOneMore ==
  ASSUME NEW S \in SUBSET Files, NEW f \in Files
  PROVE  AmountOf(S \cup {f}) <= AmountOf(S) + AmountOf({f})
<1>1. IsFiniteSet(S) /\ AmountOf(S) \in Nat /\ AmountOf({f}) \in Nat
  BY AmountsAreNumbers
<1>2. CASE f \in S
  <2>1. AmountOf(S \cup {f}) = AmountOf(S)
    <3>1. S \cup {f} = S
      BY <1>2
    <3> QED
      BY <3>1, Zenon
  <2> QED
    BY <1>1, <2>1
<1>3. CASE f \notin S
  <2>1. \A x \in S \cup {f} : Amount[x] \in Int
    BY AmountsAreNumbers
  <2>2. AmountOf(S \cup {f}) = AmountOf(S) + Amount[f]
    BY <1>1, <1>3, <2>1, SumAdds DEF AmountOf
  <2>3. SumFunctionOnSet(Amount, {} \cup {f}) = SumFunctionOnSet(Amount, {}) + Amount[f]
    BY <2>1, FS_EmptySet, SumAdds
  <2>4. AmountOf({f}) = Amount[f]
    <3>1. {} \cup {f} = {f} /\ Amount[f] \in Int
      BY <2>1
    <3> QED
      BY <2>3, <3>1, SumEmpty DEF AmountOf
  <2> QED
    BY <1>1, <2>2, <2>4
<1> QED
  BY <1>2, <1>3

(* Nothing more is counted, and every request about to be written was        *)
(* already under way or fits.                                               *)
LEMMA LimitStays ==
  ASSUME IInv, LimitInTurn, Counted' \cap Direct \in SUBSET (Counted \cap Direct),
         \A r \in Workers : work'[r].op = "submit" /\ work'[r].at = "commit" =>
           \/ work'[r] = work[r]
           \/ work'[r].on \in Files /\ AmountOf(Counted \cap Direct) + AmountOf({work'[r].on}) <= Limit
  PROVE  LimitInTurn'
<1> PICK C : C = Counted \cap Direct
  OBVIOUS
<1> PICK D : D = Counted' \cap Direct
  OBVIOUS
<1>1. /\ C \in SUBSET Files /\ D \in SUBSET Files /\ D \in SUBSET C
      /\ AmountOf(C) \in Nat /\ AmountOf(D) \in Nat /\ AmountOf(C) <= Limit /\ Limit \in Nat
  BY AmountsAreNumbers, ConstantsAssumption DEF LimitInTurn, WithinDailyLimit, Counted
<1>2. AmountOf(D) <= AmountOf(C)
  BY <1>1, AmountOfMore
<1>3. AmountOf(D) <= Limit
  BY <1>1, <1>2
<1>4. ASSUME NEW r \in Workers, work'[r].op = "submit", work'[r].at = "commit"
      PROVE  AmountOf(D) + AmountOf({work'[r].on}) <= Limit
  <2> PICK f : f = work'[r].on
    OBVIOUS
  <2>1. f \in Files /\ AmountOf(C) + AmountOf({f}) <= Limit
    <3>1. CASE work'[r] = work[r]
      BY <1>4, <3>1 DEF LimitInTurn, IInv, DecisionsHold, JobHolds, SettlementJob, SettlementOps
    <3>2. CASE work'[r] # work[r]
      BY <1>4, <3>2
    <3> QED
      BY <3>1, <3>2
  <2>2. {f} \in SUBSET Files
    BY <2>1
  <2>3. AmountOf({f}) \in Nat
    BY <2>2, AmountsAreNumbers
  <2> QED
    BY <1>1, <1>2, <2>1, <2>3
<1> QED
  BY <1>3, <1>4 DEF LimitInTurn, WithinDailyLimit

LEMMA AskLimit ==
  ASSUME IInv, LimitInTurn, NEW s \in Slots, Ask(s)
  PROVE  LimitInTurn'
<1>1. s \in Workers /\ work \in [Workers -> Jobs]
  BY DEF Workers, IInv, TypeOK
<1>2. ASSUME NEW j, work' = [work EXCEPT ![s] = j], UNCHANGED status,
             j.op = "submit" => /\ j.on \in Files
                                /\ AmountOf(Counted \cap Direct) + AmountOf({j.on}) <= Limit
      PROVE  LimitInTurn'
  <2>1. Counted' = Counted
    BY <1>2 DEF Counted
  <2>2. \A r \in Workers : work'[r] = IF r = s THEN j ELSE work[r]
    BY <1>1, <1>2
  <2> QED
    BY <1>2, <2>1, <2>2, LimitStays
<1>3. ASSUME NEW op, NEW x, NEW y, NEW to, Decide(s, Job(op, x, y, to)), op # "submit"
      PROVE  LimitInTurn'
  <2> PICK j : j = Job(op, x, y, to)
    OBVIOUS
  <2>1. j.op = op
    BY DEF Job
  <2> QED
    BY <1>2, <1>3, <2>1 DEF Decide, Begin, files
<1>4. ASSUME NEW d \in Direct, Submit(s, d)
      PROVE  LimitInTurn'
  <2> PICK j : j = Job("submit", d, None, "AWAITING_ADMIN")
    OBVIOUS
  <2>1. j.on = d /\ d \in Files /\ {d} \in SUBSET Files
    BY DEF Job, Files
  <2>2. AmountOf(Counted \cap Direct) + AmountOf({d}) <= Limit
    <3>1. Counted \in SUBSET Files /\ Counted \cap Direct \in SUBSET Counted
      BY DEF Counted
    <3>2. AmountOf(Counted \cap Direct) <= AmountOf(Counted)
      BY <3>1, AmountOfMore
    <3>3. AmountOf(Counted \cap Direct) \in Nat /\ AmountOf(Counted) \in Nat /\ AmountOf({d}) \in Nat
      BY <2>1, <3>1, AmountsAreNumbers
    <3>4. AmountOf(Counted) + AmountOf({d}) <= Limit /\ Limit \in Nat
      BY <1>4, ConstantsAssumption DEF Submit
    <3> QED
      BY <3>2, <3>3, <3>4
  <2> QED
    BY <1>2, <1>4, <2>1, <2>2 DEF Submit, Decide, Begin, files
<1>5. ASSUME NEW f \in Files,
             \/ SetPayoutAccount(s, f) \/ ApproveAdmin(s, f) \/ RejectAdmin(s, f)
             \/ LockRate(s, f) \/ Settle(s, f) \/ RejectBank(s, f)
      PROVE  LimitInTurn'
  BY <1>3, <1>5 DEF SetPayoutAccount, ApproveAdmin, RejectAdmin, LockRate, Settle, RejectBank
<1>6. ASSUME NEW d \in Direct, NEW t \in Payments, SubmitPayoutTx(s, d, t)
      PROVE  LimitInTurn'
  <2> PICK to : to = IF mined[t] = "final" THEN "CRYPTO_CONFIRMED" ELSE "CRYPTO_RECEIVED"
    OBVIOUS
  <2> PICK j : j = Job("submitPayoutTx", d, t, to)
    OBVIOUS
  <2>1. j.op # "submit"
    BY DEF Job
  <2> QED
    BY <1>2, <1>6, <2>1 DEF SubmitPayoutTx, Begin, files
<1>7. ASSUME NEW i \in Invoices, NEW n \in 1 .. MaxReleases, RecordRelease(s, i, n)
      PROVE  LimitInTurn'
  <2> PICK j : j = [Job("recordRelease", i, None, "none") EXCEPT !.n = n]
    OBVIOUS
  <2>1. j.op # "submit"
    BY DEF Job
  <2> QED
    BY <1>2, <1>7, <2>1 DEF RecordRelease, Decide, Begin, files
<1>8. ASSUME NEW r \in Refunds,
             RequestRefund(s, r) \/ ApproveRefund(s, r) \/ RejectRefund(s, r) \/ MarkSent(s, r)
      PROVE  LimitInTurn'
  BY <1>3, <1>8 DEF RequestRefund, ApproveRefund, RejectRefund, MarkSent
<1> QED
  BY <1>4, <1>5, <1>6, <1>7, <1>8 DEF Ask

LEMMA WriteLimit ==
  ASSUME SubmitsApart, IInv, FilesInTurn, LimitInTurn, NEW s \in Workers, CommitSettlement(s)
  PROVE  LimitInTurn'
<1> PICK w : w = work[s]
  OBVIOUS
<1> PICK f : f = w.on
  OBVIOUS
<1>1. /\ w \in Jobs /\ w.op \in SettlementOps /\ w.at = "commit" /\ TypeOK
      /\ SettlementJob(w) /\ f \in Files
  BY DEF CommitSettlement, IInv, TypeOK, DecisionsHold, JobHolds, SettlementJob
<1>2. SettlementTurn(w)
  <2>1. JobTurn(w)
    BY DEF FilesInTurn
  <2> QED
    BY <1>1, <2>1 DEF JobTurn
<1> PICK j : j = work'[s]
  OBVIOUS
<1>3. /\ work' = [work EXCEPT ![s] = j]
      /\ ~(j.op = "submit" /\ j.at = "commit")
      /\ status' = [status EXCEPT ![f] = w.to] \/ UNCHANGED status
  <2>1. work' = [work EXCEPT ![s] = Idle] \/ work' = [work EXCEPT ![s] = NextStep(w)]
    BY DEF CommitSettlement
  <2>2. ~(Idle.op = "submit") /\ ~(NextStep(w).op = "submit" /\ NextStep(w).at = "commit")
    BY <1>1 DEF Idle, NextStep, Jobs
  <2>3. status' = [status EXCEPT ![f] = w.to] \/ UNCHANGED status
    BY DEF CommitSettlement, files
  <2> QED
    BY <1>1, <2>1, <2>2, <2>3 DEF TypeOK
<1>4. \A r \in Workers : r # s => work'[r] = work[r]
  BY <1>1, <1>3 DEF TypeOK
<1> PICK C : C = Counted \cap Direct
  OBVIOUS
<1> PICK D : D = Counted' \cap Direct
  OBVIOUS
<1>5. CASE w.op # "submit"
  <2>1. f \in Direct => f \in C
    BY <1>1, <1>2, <1>5 DEF SettlementTurn, Counted, Ends
  <2>2. D \in SUBSET C
    BY <1>1, <1>3, <2>1 DEF Counted, TypeOK
  <2> QED
    BY <1>3, <1>4, <2>2, LimitStays
<1>6. CASE w.op = "submit"
  <2>1. \A r \in Workers : ~(work'[r].op = "submit" /\ work'[r].at = "commit")
    <3> SUFFICES ASSUME NEW r \in Workers PROVE ~(work'[r].op = "submit" /\ work'[r].at = "commit")
      OBVIOUS
    <3>1. CASE r = s
      BY <1>3, <3>1
    <3>2. CASE r # s
      BY <1>1, <1>4, <1>6, <3>2 DEF SubmitsApart, Rivals, Writing
    <3> QED
      BY <3>1, <3>2
  <2>2. /\ C \in SUBSET Files /\ D \in SUBSET (C \cup {f}) /\ C \cup {f} \in SUBSET Files
        /\ {f} \in SUBSET Files
    BY <1>1, <1>3 DEF Counted, TypeOK
  <2>3. AmountOf(D) <= AmountOf(C \cup {f})
    BY <2>2, AmountOfMore
  <2>4. AmountOf(C \cup {f}) <= AmountOf(C) + AmountOf({f})
    BY <1>1, <2>2, AmountOfOneMore
  <2>5. AmountOf(D) \in Nat /\ AmountOf(C \cup {f}) \in Nat /\ AmountOf(C) \in Nat /\ AmountOf({f}) \in Nat
    BY <2>2, AmountsAreNumbers
  <2>6. AmountOf(C) + AmountOf({f}) <= Limit /\ Limit \in Nat
    BY <1>1, <1>6, ConstantsAssumption DEF LimitInTurn
  <2>7. AmountOf(D) <= Limit
    BY <2>3, <2>4, <2>5, <2>6
  <2> QED
    BY <2>1, <2>7 DEF LimitInTurn, WithinDailyLimit
<1> QED
  BY <1>5, <1>6

LEMMA OthersLimit ==
  ASSUME IInv, LimitInTurn, NEW s \in Workers,
         \/ CommitRelease(s) \/ CommitRefund(s) \/ FindSettlement(s) \/ CheckPosted(s) \/ Post(s) \/ Fail(s)
         \/ \E t \in Payments : Refresh(s, t)
  PROVE  LimitInTurn'
<1> PICK w : w = work[s]
  OBVIOUS
<1>1. w \in Jobs /\ JobHolds(w) /\ work \in [Workers -> Jobs]
  BY DEF IInv, TypeOK, DecisionsHold
<1>2. ASSUME NEW j, work' = [work EXCEPT ![s] = j], ~(j.op = "submit" /\ j.at = "commit"), UNCHANGED status
      PROVE  LimitInTurn'
  <2>1. Counted' = Counted
    BY <1>2 DEF Counted
  <2>2. \A r \in Workers : work'[r] = IF r = s THEN j ELSE work[r]
    BY <1>1, <1>2
  <2> QED
    BY <1>2, <2>1, <2>2, LimitStays
<1>3. ASSUME work' = [work EXCEPT ![s] = Idle], UNCHANGED status
      PROVE  LimitInTurn'
  <2> PICK j : j = Idle
    OBVIOUS
  <2>1. j.op # "submit"
    BY DEF Idle
  <2> QED
    BY <1>2, <1>3, <2>1
<1>4. CASE CommitRelease(s) \/ CommitRefund(s)
  <2> PICK j : j = NextStep(w)
    OBVIOUS
  <2>1. ~(j.op = "submit" /\ j.at = "commit")
    BY <1>1 DEF Idle, NextStep, Jobs
  <2> QED
    BY <1>2, <1>4, <2>1 DEF CommitRelease, CommitRefund, files
<1>5. CASE FindSettlement(s)
  <2>1. ASSUME NEW d, work' = [work EXCEPT ![s] = [w EXCEPT !.on = d, !.at = "commit"]]
        PROVE  LimitInTurn'
    <3> PICK j : j = [w EXCEPT !.on = d, !.at = "commit"]
      OBVIOUS
    <3>1. j.op = "promote"
      BY <1>1, <1>5 DEF FindSettlement, JobHolds, Jobs
    <3> QED
      BY <1>2, <1>5, <2>1, <3>1 DEF FindSettlement, files
  <2>2. \/ work' = [work EXCEPT ![s] = Idle]
        \/ \E d : work' = [work EXCEPT ![s] = [w EXCEPT !.on = d, !.at = "commit"]]
    BY <1>5 DEF FindSettlement
  <2>3. UNCHANGED status
    BY <1>5 DEF FindSettlement, files
  <2> QED
    BY <1>3, <2>1, <2>2, <2>3
<1>6. CASE CheckPosted(s)
  <2> PICK j : j = [w EXCEPT !.at = "post"]
    OBVIOUS
  <2>1. j.at = "post"
    BY <1>1 DEF Jobs
  <2>2. /\ work' = [work EXCEPT ![s] = Idle] \/ work' = [work EXCEPT ![s] = j]
        /\ UNCHANGED status
    BY <1>6 DEF CheckPosted, files
  <2> QED
    BY <1>2, <1>3, <2>1, <2>2
<1>7. CASE Post(s) \/ Fail(s)
  BY <1>3, <1>7 DEF Post, Fail, files
<1>8. ASSUME NEW t \in Payments, Refresh(s, t)
      PROVE  LimitInTurn'
  <2> PICK j : j = [Job("promote", None, t, "CRYPTO_CONFIRMED") EXCEPT !.at = "find"]
    OBVIOUS
  <2>1. j.op = "promote"
    BY DEF Job
  <2> QED
    BY <1>2, <1>8, <2>1 DEF Refresh, Begin, files
<1> QED
  BY <1>4, <1>5, <1>6, <1>7, <1>8

LEMMA LimitNext ==
  ASSUME SubmitsApart
  PROVE  IInv /\ FilesInTurn /\ LimitInTurn /\ [Next]_vars => LimitInTurn'
<1> SUFFICES ASSUME IInv, FilesInTurn, LimitInTurn, [Next]_vars
             PROVE  LimitInTurn'
  OBVIOUS
<1>1. CASE UNCHANGED vars
  BY <1>1 DEF vars, files, LimitInTurn, WithinDailyLimit, Counted
<1>2. ASSUME NEW s \in Sweepers, NEW t \in Payments, Refresh(s, t)
      PROVE  LimitInTurn'
  BY <1>2, OthersLimit DEF Workers
<1>3. ASSUME NEW s \in Workers, Continue(s) \/ Fail(s)
      PROVE  LimitInTurn'
  BY <1>3, WriteLimit, OthersLimit DEF Continue
<1>4. CASE World
  <2>1. Counted' \cap Direct = Counted \cap Direct /\ UNCHANGED work
    <3>1. ASSUME NEW i \in Invoices, InvoicePaid(i)
          PROVE  Counted' \cap Direct = Counted \cap Direct /\ UNCHANGED work
      <4>1. status \in [Files -> Statuses \cup {"none"}] /\ i \notin Direct
        BY ConstantsAssumption DEF IInv, TypeOK
      <4>2. UNCHANGED work /\ \A f \in Direct : status'[f] = status[f]
        BY <3>1, <4>1 DEF InvoicePaid, Files
      <4> QED
        BY <4>2 DEF Counted, Files
    <3>2. ASSUME \/ \E p \in Percents : SetPercent(p)
                 \/ \E i \in Invoices : LatePayment(i) \/ Release(i)
                 \/ \E t \in Payments : Transfer(t) \/ Finalize(t) \/ Scan(t)
          PROVE  UNCHANGED <<status, work>>
      BY <3>2 DEF SetPercent, LatePayment, Release, Transfer, Finalize, Scan, files
    <3> QED
      BY <1>4, <3>1, <3>2 DEF World, Counted
  <2> QED
    BY <2>1, LimitStays
<1> QED
  BY <1>1, <1>2, <1>3, <1>4, AskLimit DEF Next

LEMMA LimitInit == Init => LimitInTurn
<1> SUFFICES ASSUME Init PROVE LimitInTurn
  OBVIOUS
<1>1. Counted \cap Direct = {}
  BY DEF Init, Counted
<1>2. AmountOf({}) = 0
  BY SumEmpty DEF AmountOf
<1>3. AmountOf(Counted \cap Direct) = 0
  BY <1>1, <1>2, Zenon
<1>4. \A s \in Workers : work[s].op # "submit"
  BY DEF Init, Idle
<1> QED
  BY <1>3, <1>4, ConstantsAssumption DEF LimitInTurn, WithinDailyLimit

(* While, besides, a merchant has one request under way at a time, what     *)
(* they ask for and the bank does not refuse stays within the daily limit.  *)
THEOREM WithinDailyLimitInTurn == Spec /\ []RowsApart /\ []SubmitsApart => []WithinDailyLimit
<1>1. SubmitsApart /\ IInv /\ FilesInTurn /\ LimitInTurn /\ [Next]_vars => LimitInTurn'
  BY LimitNext
<1>2. LimitInTurn => WithinDailyLimit
  BY DEF LimitInTurn
<1> QED
  BY <1>1, <1>2, LimitInit, InvariantHolds, FilesInTurnAlways, PTL DEF Spec

-----------------------------------------------------------------------------
(* While no worker has died, what has happened is booked or being booked,   *)
(* and each account stands where the groups in the ledger put it.           *)

Booking(w) == w.at \in {"check", "post"}
Entry(w) == <<w.kind, Subject(w)>>
Pending == {Entry(work[s]) : s \in {r \in Workers : Booking(work[r])}}

(* No group is being booked by two workers.                                 *)
EntriesApart ==
  \A s, r \in Workers : s # r /\ Booking(work[s]) /\ Booking(work[r]) => Entry(work[s]) # Entry(work[r])

Happened(k, x) ==
  \/ k = "SETTLEMENT_FUNDED" /\ x \in Direct /\ funding[x] # None
  \/ k = "SETTLEMENT_SETTLED" /\ x \in Files /\ status[x] = "SETTLED"
  \/ k = "DEPOSIT_RELEASED" /\ x \in Invoices /\ swept[x]
  \/ k = "REFUND_SENT" /\ x \in Refunds /\ refund[x] = "SENT"

LedgerInTurn ==
  /\ EntriesApart
  /\ Pending \cap posted = {}
  /\ \A k \in Kinds, x \in Trades \cup Refunds : Happened(k, x) <=> <<k, x>> \in posted \cup Pending

PaidFirst == \A i \in Invoices : held[i] > 0 \/ releases[i] # <<>> \/ swept[i] => paid[i]

RefundPosted(i) == \E r \in Refunds : RefundOf[r] = i /\ <<"REFUND_SENT", r>> \in posted
CameIn(f) == IF f \in Exports THEN paid[f] ELSE <<"SETTLEMENT_FUNDED", f>> \in posted
WentOut(f) == <<"SETTLEMENT_SETTLED", f>> \in posted

FileBooks(f) ==
  (f \in Exports => ~RefundPosted(f)) =>
    books[f].MERCHANT_PAYABLE = (IF CameIn(f) THEN Net(f) ELSE 0) - (IF WentOut(f) THEN Net(f) ELSE 0)

(* Of invoice i the tokens and the fees are booked, less those of a payout. *)
Holds(i, total, s) ==
  /\ books[i].DEPOSIT_HELD = Gross[i] - total
  /\ books[i].GATEWAY_SHARE = PaidSplit(i).gateway - s.gateway
  /\ books[i].FREEZONE_SHARE = PaidSplit(i).freezone - s.freezone
NoShares == [gateway |-> 0, freezone |-> 0]

AddressBooks(i) ==
  ~RefundPosted(i) =>
    \/ /\ ~paid[i]
       /\ books[i].DEPOSIT_HELD = 0 /\ books[i].GATEWAY_SHARE = 0 /\ books[i].FREEZONE_SHARE = 0
    \/ paid[i] /\ <<"DEPOSIT_RELEASED", i>> \notin posted /\ Holds(i, 0, NoShares)
    \/ /\ <<"DEPOSIT_RELEASED", i>> \in posted
       /\ \E n \in DOMAIN releases[i] : Holds(i, releases[i][n], Split(Terms[i], releases[i][n]))

BooksInTurn ==
  /\ LedgerInTurn
  /\ PaidFirst
  /\ \A f \in Files : FileBooks(f)
  /\ \A i \in Invoices : AddressBooks(i)

(* One worker goes on: what the others are booking stays.                   *)
Mine(w) == IF Booking(w) THEN {Entry(w)} ELSE {}
Others(s) == {Entry(work[r]) : r \in {q \in Workers \ {s} : Booking(work[q])}}

LEMMA PendingMoves ==
  ASSUME LedgerInTurn, work \in [Workers -> Jobs], NEW s \in Workers, NEW j,
         work' = [work EXCEPT ![s] = j]
  PROVE  /\ Pending = Others(s) \cup Mine(work[s]) /\ Others(s) \cap Mine(work[s]) = {}
         /\ Pending' = Others(s) \cup Mine(j)
         /\ Others(s) \cap Mine(j) = {} => EntriesApart'
<1> PICK O : O = Others(s)
  OBVIOUS
<1> USE DEF Others
<1>1. \A r \in Workers : work'[r] = IF r = s THEN j ELSE work[r]
  OBVIOUS
<1>2. Pending = O \cup Mine(work[s])
  BY DEF Pending, Mine
<1>3. Pending' = O \cup Mine(j)
  <2>1. Pending' = {Entry(work'[q]) : q \in {r \in Workers : Booking(work'[r])}}
    BY DEF Pending, Booking, Entry, Subject
  <2> QED
    BY <1>1, <2>1 DEF Mine
<1>4. O \cap Mine(work[s]) = {}
  BY DEF LedgerInTurn, EntriesApart, Mine
<1>5. ASSUME O \cap Mine(j) = {}
      PROVE  EntriesApart'
  <2>1. ASSUME NEW r \in Workers, NEW q \in Workers, r # q, Booking(work'[r]), Booking(work'[q])
        PROVE  Entry(work'[r]) # Entry(work'[q])
    <3>1. CASE r # s /\ q # s
      BY <1>1, <2>1, <3>1 DEF LedgerInTurn, EntriesApart
    <3>2. CASE r = s
      <4>1. work'[r] = j /\ work'[q] = work[q] /\ q # s
        BY <1>1, <2>1, <3>2
      <4>2. Entry(work[q]) \in O
        BY <2>1, <4>1
      <4> QED
        BY <1>5, <2>1, <4>1, <4>2 DEF Mine
    <3>3. CASE q = s
      <4>1. work'[q] = j /\ work'[r] = work[r] /\ r # s
        BY <1>1, <2>1, <3>3
      <4>2. Entry(work[r]) \in O
        BY <2>1, <4>1
      <4> QED
        BY <1>5, <2>1, <4>1, <4>2 DEF Mine
    <3> QED
      BY <3>1, <3>2, <3>3
  <2> QED
    BY <2>1 DEF EntriesApart, Booking, Entry, Subject
<1> QED
  BY <1>2, <1>3, <1>4, <1>5

LEMMA LedgerStays ==
  ASSUME LedgerInTurn, posted' = posted, Pending' = Pending, EntriesApart',
         \A k \in Kinds, x \in Trades \cup Refunds : Happened(k, x)' <=> Happened(k, x)
  PROVE  LedgerInTurn'
BY DEF LedgerInTurn

(* Something happens and its booking is begun.                              *)
LEMMA LedgerGrows ==
  ASSUME LedgerInTurn, posted' = posted, EntriesApart',
         NEW k \in Kinds, NEW x \in Trades \cup Refunds, Pending' = Pending \cup {<<k, x>>},
         ~Happened(k, x), Happened(k, x)',
         \A l \in Kinds, y \in Trades \cup Refunds :
           <<l, y>> # <<k, x>> => (Happened(l, y)' <=> Happened(l, y))
  PROVE  LedgerInTurn'
<1>1. <<k, x>> \notin posted
  BY DEF LedgerInTurn
<1>2. Pending' \cap posted' = {}
  BY <1>1 DEF LedgerInTurn
<1>3. ASSUME NEW l \in Kinds, NEW y \in Trades \cup Refunds
      PROVE  Happened(l, y)' <=> <<l, y>> \in posted' \cup Pending'
  <2>1. CASE <<l, y>> = <<k, x>>
    <3>1. l = k /\ y = x
      BY <2>1
    <3> QED
      BY <3>1
  <2>2. CASE <<l, y>> # <<k, x>>
    BY <2>2 DEF LedgerInTurn
  <2> QED
    BY <2>1, <2>2
<1> QED
  BY <1>2, <1>3 DEF LedgerInTurn

(* A step that books nothing.                                               *)
LEMMA BooksStay ==
  ASSUME BooksInTurn, LedgerInTurn', PaidFirst', UNCHANGED <<paid, books, posted>>,
         \A i \in Invoices : \A n \in DOMAIN releases[i] :
           n \in DOMAIN releases'[i] /\ releases'[i][n] = releases[i][n]
  PROVE  BooksInTurn'
<1>1. \A f \in Files : FileBooks(f)'
  BY DEF BooksInTurn, FileBooks, RefundPosted, CameIn, WentOut
<1>2. ASSUME NEW i \in Invoices
      PROVE  AddressBooks(i)'
  <2>1. AddressBooks(i) /\ (RefundPosted(i)' <=> RefundPosted(i))
    BY DEF BooksInTurn, RefundPosted
  <2>2. \A t, u : Holds(i, t, u)' <=> Holds(i, t, u)
    BY DEF Holds
  <2> QED
    BY <2>1, <2>2 DEF AddressBooks
<1> QED
  BY <1>1, <1>2 DEF BooksInTurn

LEMMA QuietInTurn ==
  ASSUME IInv, BooksInTurn, NEW s \in Workers, ~Booking(work[s]),
         NEW j, work' = [work EXCEPT ![s] = j], ~Booking(j),
         UNCHANGED <<status, funding, paid, held, releases, swept, refund, books, posted>>
  PROVE  BooksInTurn'
<1>1. Pending' = Pending /\ EntriesApart'
  <2>1. LedgerInTurn /\ work \in [Workers -> Jobs] /\ Mine(work[s]) = {} /\ Mine(j) = {}
    BY DEF Mine, BooksInTurn, IInv, TypeOK
  <2> QED
    BY <2>1, PendingMoves
<1>2. LedgerInTurn'
  BY <1>1, LedgerStays DEF BooksInTurn, Happened
<1>3. PaidFirst'
  BY DEF BooksInTurn, PaidFirst
<1> QED
  BY <1>2, <1>3, BooksStay

LEMMA AskBooksInTurn ==
  ASSUME IInv, BooksInTurn, NEW s \in Slots, Ask(s)
  PROVE  BooksInTurn'
<1>1. s \in Workers
  BY DEF Workers
<1>2. UNCHANGED <<status, funding, paid, held, releases, swept, refund, books, posted>>
  BY DEF Ask, Submit, SetPayoutAccount, ApproveAdmin, RejectAdmin, LockRate, Settle, RejectBank,
         SubmitPayoutTx, RecordRelease, RequestRefund, ApproveRefund, RejectRefund, MarkSent,
         Decide, Begin, files, deposits, ledger
<1>3. ASSUME NEW j, Begin(s, j), j.at = "commit"
      PROVE  BooksInTurn'
  <2>1. ~Booking(work[s]) /\ ~Booking(j)
    BY <1>3 DEF Begin, Booking, Idle
  <2> QED
    BY <1>1, <1>2, <1>3, <2>1, QuietInTurn DEF Begin
<1>4. ASSUME NEW op, NEW x, NEW y, NEW to, Begin(s, Job(op, x, y, to))
      PROVE  BooksInTurn'
  <2> PICK j : j = Job(op, x, y, to)
    OBVIOUS
  <2>1. j.at = "commit"
    BY DEF Job
  <2> QED
    BY <1>3, <1>4, <2>1
<1>5. ASSUME NEW f \in Files,
             \/ SetPayoutAccount(s, f) \/ ApproveAdmin(s, f) \/ RejectAdmin(s, f)
             \/ LockRate(s, f) \/ Settle(s, f) \/ RejectBank(s, f)
      PROVE  BooksInTurn'
  BY <1>4, <1>5 DEF SetPayoutAccount, ApproveAdmin, RejectAdmin, LockRate, Settle, RejectBank, Decide
<1>6. ASSUME NEW d \in Direct, Submit(s, d) \/ \E t \in Payments : SubmitPayoutTx(s, d, t)
      PROVE  BooksInTurn'
  BY <1>4, <1>6 DEF Submit, SubmitPayoutTx, Decide
<1>7. ASSUME NEW i \in Invoices, NEW n \in 1 .. MaxReleases, RecordRelease(s, i, n)
      PROVE  BooksInTurn'
  <2> PICK j : j = [Job("recordRelease", i, None, "none") EXCEPT !.n = n]
    OBVIOUS
  <2>1. j.at = "commit"
    BY DEF Job
  <2> QED
    BY <1>3, <1>7, <2>1 DEF RecordRelease, Decide
<1>8. ASSUME NEW r \in Refunds,
             RequestRefund(s, r) \/ ApproveRefund(s, r) \/ RejectRefund(s, r) \/ MarkSent(s, r)
      PROVE  BooksInTurn'
  BY <1>4, <1>8 DEF RequestRefund, ApproveRefund, RejectRefund, MarkSent, Decide
<1> QED
  BY <1>5, <1>6, <1>7, <1>8 DEF Ask

LEMMA SweepBooksInTurn ==
  ASSUME IInv, BooksInTurn, NEW s \in Workers,
         FindSettlement(s) \/ \E t \in Payments : Refresh(s, t)
  PROVE  BooksInTurn'
<1>1. UNCHANGED <<status, funding, paid, held, releases, swept, refund, books, posted>>
  BY DEF FindSettlement, Refresh, files, deposits, ledger
<1> PICK w : w = work[s]
  OBVIOUS
<1>2. w \in Jobs /\ work \in [Workers -> Jobs]
  BY DEF IInv, TypeOK
<1>3. ASSUME ~Booking(w), NEW j, work' = [work EXCEPT ![s] = j], j.at \in {"commit", "find"}
      PROVE  BooksInTurn'
  BY <1>1, <1>3, QuietInTurn DEF Booking
<1>4. CASE FindSettlement(s)
  <2>1. ~Booking(w)
    BY <1>4 DEF FindSettlement, Booking
  <2>2. ASSUME work' = [work EXCEPT ![s] = Idle]
        PROVE  BooksInTurn'
    <3> PICK j : j = Idle
      OBVIOUS
    <3>1. j.at = "commit"
      BY DEF Idle
    <3> QED
      BY <1>3, <2>1, <2>2, <3>1
  <2>3. ASSUME NEW d, work' = [work EXCEPT ![s] = [w EXCEPT !.on = d, !.at = "commit"]]
        PROVE  BooksInTurn'
    <3> PICK j : j = [w EXCEPT !.on = d, !.at = "commit"]
      OBVIOUS
    <3>1. j.at = "commit"
      BY <1>2 DEF Jobs
    <3> QED
      BY <1>3, <2>1, <2>3, <3>1
  <2> QED
    BY <1>4, <2>2, <2>3 DEF FindSettlement
<1>5. ASSUME NEW t \in Payments, Refresh(s, t)
      PROVE  BooksInTurn'
  <2> PICK j : j = [Job("promote", None, t, "CRYPTO_CONFIRMED") EXCEPT !.at = "find"]
    OBVIOUS
  <2>1. j.at = "find" /\ ~Booking(w)
    BY <1>5 DEF Job, Refresh, Begin, Booking, Idle
  <2> QED
    BY <1>3, <1>5, <2>1 DEF Refresh, Begin
<1> QED
  BY <1>4, <1>5

(* A group asked for is not in the ledger, so it goes on to be posted.      *)
LEMMA CheckPostedInTurn ==
  ASSUME IInv, BooksInTurn, NEW s \in Workers, CheckPosted(s)
  PROVE  BooksInTurn'
<1> PICK w : w = work[s]
  OBVIOUS
<1> PICK j : j = [w EXCEPT !.at = "post"]
  OBVIOUS
<1>1. w \in Jobs /\ w.at = "check" /\ work \in [Workers -> Jobs]
  BY DEF CheckPosted, IInv, TypeOK
<1>2. UNCHANGED <<status, funding, paid, held, releases, swept, refund, books, posted>>
  BY DEF CheckPosted, files, deposits, ledger
<1>3. Entry(w) \in Pending /\ Entry(w) \notin posted
  BY <1>1 DEF Booking, Pending, BooksInTurn, LedgerInTurn
<1>4. work' = [work EXCEPT ![s] = j]
  BY <1>1, <1>3 DEF CheckPosted, Entry
<1>5. Pending' = Pending /\ EntriesApart'
  <2>1. j.at = "post" /\ j.kind = w.kind /\ j.on = w.on /\ j.by = w.by
    BY <1>1 DEF Jobs
  <2>2. Mine(j) = Mine(w) /\ LedgerInTurn
    BY <1>1, <2>1 DEF Booking, Entry, Subject, Mine, BooksInTurn
  <2>3. /\ Pending = Others(s) \cup Mine(w) /\ Others(s) \cap Mine(w) = {}
        /\ Pending' = Others(s) \cup Mine(j)
        /\ Others(s) \cap Mine(j) = {} => EntriesApart'
    BY <1>1, <1>4, <2>2, PendingMoves
  <2> QED
    BY <2>2, <2>3
<1>6. LedgerInTurn'
  BY <1>2, <1>5, LedgerStays DEF BooksInTurn, Happened
<1>7. PaidFirst'
  BY <1>2 DEF BooksInTurn, PaidFirst
<1> QED
  BY <1>2, <1>6, <1>7, BooksStay

-----------------------------------------------------------------------------
(* A write is one of the things that happen, or none, and is booked as it.  *)
Booked(w) == IF Books(w) = "REFUND_SENT" THEN w.by ELSE w.on

LEMMA WriteIsBooked ==
  ASSUME IInv, BooksInTurn, NEW s \in Workers, NEW w \in Jobs, work[s] = w,
         w.at = "commit", w.op # "idle", work' = [work EXCEPT ![s] = NextStep(w)],
         UNCHANGED <<paid, held, releases, books, posted>>, PaidFirst',
         Books(w) # "none" => ~Happened(Books(w), Booked(w)),
         \A k \in Kinds, x \in Trades \cup Refunds :
           Happened(k, x)' <=> Happened(k, x) \/ (k = Books(w) /\ x = Booked(w))
  PROVE  BooksInTurn'
<1>1. JobHolds(w) /\ work \in [Workers -> Jobs]
  BY DEF IInv, DecisionsHold, TypeOK
<1> PICK j : j = NextStep(w)
  OBVIOUS
<1>2. j \in Jobs /\ JobHolds(j)
  BY <1>1, NextStepHolds
<1>3. Pending' = Pending \cup Mine(j) /\ (Pending \cap Mine(j) = {} => EntriesApart')
  <2>1. Mine(w) = {} /\ LedgerInTurn
    BY DEF Booking, Mine, BooksInTurn
  <2>2. /\ Pending = Others(s) \cup Mine(w)
        /\ Pending' = Others(s) \cup Mine(j)
        /\ Others(s) \cap Mine(j) = {} => EntriesApart'
    BY <1>1, PendingMoves, <2>1
  <2> QED
    BY <2>1, <2>2
<1>4. CASE Books(w) = "none"
  <2>1. Mine(j) = {}
    BY <1>4 DEF NextStep, Idle, Booking, Mine
  <2>2. \A k \in Kinds, x \in Trades \cup Refunds : Happened(k, x)' <=> Happened(k, x)
    BY <1>4 DEF Kinds
  <2>3. LedgerInTurn'
    BY <1>3, <2>1, <2>2, LedgerStays DEF BooksInTurn
  <2> QED
    BY <2>3, BooksStay
<1>5. CASE Books(w) # "none"
  <2> PICK k : k = Books(w)
    OBVIOUS
  <2> PICK x : x = Booked(w)
    OBVIOUS
  <2>1. j.kind = k /\ j.at = "check" /\ j.on = w.on /\ j.by = w.by
    BY <1>5 DEF NextStep, Jobs
  <2>2. Subject(j) = x
    BY <2>1 DEF Subject, Booked
  <2>3. k \in Kinds /\ x \in Trades \cup Refunds
    BY <1>2, <2>1, <2>2, BookingFits DEF Subject, Kinds, Trades, Files, Invoices
  <2>4. Mine(j) = {<<k, x>>}
    BY <2>1, <2>2 DEF Booking, Entry, Mine
  <2>5. Happened(k, x)' /\ ~Happened(k, x)
    BY <1>5, <2>3
  <2>6. \A l \in Kinds, y \in Trades \cup Refunds :
          <<l, y>> # <<k, x>> => (Happened(l, y)' <=> Happened(l, y))
    OBVIOUS
  <2>7. Pending' = Pending \cup {<<k, x>>} /\ EntriesApart'
    <3>1. <<k, x>> \notin Pending
      BY <2>3, <2>5 DEF BooksInTurn, LedgerInTurn
    <3> QED
      BY <1>3, <2>4, <3>1
  <2>8. LedgerInTurn'
    BY <2>3, <2>5, <2>6, <2>7, LedgerGrows DEF BooksInTurn
  <2> QED
    BY <2>8, BooksStay
<1> QED
  BY <1>4, <1>5

LEMMA ReleaseWriteInTurn ==
  ASSUME IInv, FilesInTurn, BooksInTurn, NEW s \in Workers, CommitRelease(s)
  PROVE  BooksInTurn'
<1> PICK w : w = work[s]
  OBVIOUS
<1>1. /\ w \in Jobs /\ w.op = "recordRelease" /\ w.at = "commit" /\ JobHolds(w) /\ JobTurn(w)
      /\ swept' = [swept EXCEPT ![w.on] = TRUE] /\ swept \in [Invoices -> BOOLEAN]
      /\ work' = [work EXCEPT ![s] = NextStep(w)]
      /\ UNCHANGED <<status, funding, paid, held, releases, refund, books, posted>>
  BY DEF CommitRelease, IInv, TypeOK, DecisionsHold, FilesInTurn, files, ledger
<1>2. w.on \in Invoices /\ w.to = "none" /\ w.n \in DOMAIN releases[w.on] /\ ~swept[w.on]
  BY <1>1 DEF JobHolds, JobTurn
<1>3. Books(w) = "DEPOSIT_RELEASED" /\ Booked(w) = w.on
  BY <1>1, <1>2 DEF Books, Booked
<1>4. paid[w.on]
  <2>1. releases[w.on] # <<>>
    BY <1>2
  <2> QED
    BY <1>2, <2>1 DEF BooksInTurn, PaidFirst
<1>5. PaidFirst'
  BY <1>1, <1>2, <1>4 DEF BooksInTurn, PaidFirst
<1>6. ~Happened(Books(w), Booked(w))
  BY <1>2, <1>3 DEF Happened
<1>7. \A k \in Kinds, x \in Trades \cup Refunds :
        Happened(k, x)' <=> Happened(k, x) \/ (k = Books(w) /\ x = Booked(w))
  BY <1>1, <1>2, <1>3 DEF Happened
<1> QED
  BY <1>1, <1>5, <1>6, <1>7, WriteIsBooked

LEMMA RefundWriteInTurn ==
  ASSUME IInv, FilesInTurn, BooksInTurn, NEW s \in Workers, CommitRefund(s)
  PROVE  BooksInTurn'
<1> PICK w : w = work[s]
  OBVIOUS
<1>1. /\ w \in Jobs /\ w.op \in RefundOps /\ w.at = "commit" /\ JobHolds(w) /\ JobTurn(w)
      /\ refund' = [refund EXCEPT ![w.by] = w.to] /\ refund \in [Refunds -> RefundStatuses \cup {"none"}]
      /\ work' = [work EXCEPT ![s] = NextStep(w)]
      /\ UNCHANGED <<status, funding, paid, held, releases, swept, books, posted>>
  BY DEF CommitRefund, IInv, TypeOK, DecisionsHold, FilesInTurn, files, deposits, ledger
<1>2. w.by \in Refunds /\ w.to \in RefundStatuses /\ refund[w.by] # "SENT"
  BY <1>1 DEF JobHolds, JobTurn
<1>3. w.op # "idle" /\ w.op # "submitPayoutTx" /\ w.op # "recordRelease" /\ w.to # "SETTLED"
  BY <1>1, <1>2 DEF RefundOps, RefundStatuses
<1>4. Books(w) = (IF w.to = "SENT" THEN "REFUND_SENT" ELSE "none") /\ (w.to = "SENT" => Booked(w) = w.by)
  BY <1>3 DEF Books, Booked
<1>5. PaidFirst'
  BY <1>1 DEF BooksInTurn, PaidFirst
<1>6. Books(w) # "none" => ~Happened(Books(w), Booked(w))
  BY <1>2, <1>4 DEF Happened
<1>7. \A k \in Kinds, x \in Trades \cup Refunds :
        Happened(k, x)' <=> Happened(k, x) \/ (k = Books(w) /\ x = Booked(w))
  <2> SUFFICES ASSUME NEW k \in Kinds, NEW x \in Trades \cup Refunds
               PROVE  Happened(k, x)' <=> Happened(k, x) \/ (k = Books(w) /\ x = Booked(w))
    OBVIOUS
  <2>1. CASE k = "REFUND_SENT"
    <3>1. x \in Refunds => (refund'[x] = "SENT" <=> IF x = w.by THEN w.to = "SENT" ELSE refund[x] = "SENT")
      BY <1>1, <1>2
    <3> QED
      BY <1>2, <1>4, <2>1, <3>1 DEF Happened
  <2>2. CASE k # "REFUND_SENT"
    BY <1>1, <1>4, <2>2 DEF Happened, Kinds
  <2> QED
    BY <2>1, <2>2
<1> QED
  BY <1>1, <1>3, <1>5, <1>6, <1>7, WriteIsBooked

LEMMA SettlementWriteInTurn ==
  ASSUME IInv, FilesInTurn, BooksInTurn, NEW s \in Workers, CommitSettlement(s)
  PROVE  BooksInTurn'
<1> PICK w : w = work[s]
  OBVIOUS
<1> PICK f : f = w.on
  OBVIOUS
<1>1. /\ w \in Jobs /\ w.op \in SettlementOps /\ w.at = "commit" /\ TypeOK
      /\ SettlementJob(w) /\ f \in Files /\ w.to \in Statuses
  BY DEF CommitSettlement, IInv, TypeOK, DecisionsHold, JobHolds, SettlementJob
<1>2. SettlementTurn(w) /\ FileTurn(f)
  BY <1>1 DEF FilesInTurn, JobTurn
<1>3. UNCHANGED <<paid, held, releases, swept, refund, books, posted>>
  BY DEF CommitSettlement, deposits, ledger
<1>4. PaidFirst'
  BY <1>3 DEF BooksInTurn, PaidFirst
<1>5. CASE w.op = "submitPayoutTx" /\ Taken(f, w.by)
  <2>1. UNCHANGED <<status, funding>> /\ work' = [work EXCEPT ![s] = Idle]
    BY <1>5 DEF CommitSettlement, files
  <2> PICK j : j = Idle
    OBVIOUS
  <2>2. ~Booking(work[s]) /\ ~Booking(j)
    BY <1>1 DEF Booking, Idle
  <2> QED
    BY <1>3, <2>1, <2>2, QuietInTurn
<1>6. CASE ~(w.op = "submitPayoutTx" /\ Taken(f, w.by))
  <2>1. /\ status' = [status EXCEPT ![f] = w.to]
        /\ funding' = [d \in Direct |-> IF w.op = "submitPayoutTx" /\ d = f THEN w.by ELSE funding[d]]
        /\ work' = [work EXCEPT ![s] = NextStep(w)]
    BY <1>6 DEF CommitSettlement
  <2>2. /\ status[f] # "SETTLED" /\ status'[f] = w.to
        /\ \A g \in Files : g # f => status'[g] = status[g]
    BY <1>1, <1>2, <2>1 DEF SettlementTurn, Ends, TypeOK
  <2>3. w.op = "submitPayoutTx" => /\ f \in Direct /\ w.by # None /\ funding[f] = None /\ w.to # "SETTLED"
    BY <1>1, <1>2, ConstantsAssumption DEF SettlementJob, SettlementTurn, FileTurn, Ends
  <2>4. w.op # "idle" /\ w.op # "recordRelease" /\ w.to # "SENT"
    BY <1>1 DEF SettlementOps, Statuses
  <2>5. /\ Books(w) = IF w.op = "submitPayoutTx" THEN "SETTLEMENT_FUNDED"
                      ELSE IF w.to = "SETTLED" THEN "SETTLEMENT_SETTLED" ELSE "none"
        /\ Booked(w) = f
    <3>1. CASE w.op = "submitPayoutTx"
      BY <2>3, <2>4, <3>1 DEF Books, Booked
    <3>2. CASE w.op # "submitPayoutTx" /\ w.to = "SETTLED"
      BY <2>4, <3>2 DEF Books, Booked
    <3>3. CASE w.op # "submitPayoutTx" /\ w.to # "SETTLED"
      BY <2>4, <3>3 DEF Books, Booked
    <3> QED
      BY <3>1, <3>2, <3>3
  <2>6. Books(w) # "none" => ~Happened(Books(w), Booked(w))
    BY <2>2, <2>3, <2>5 DEF Happened
  <2>7. ASSUME NEW k \in Kinds, NEW x \in Trades \cup Refunds
        PROVE  Happened(k, x)' <=> Happened(k, x) \/ (k = Books(w) /\ x = Booked(w))
    <3>1. CASE k = "SETTLEMENT_FUNDED"
      <4>1. x \in Direct => (funding'[x] # None <=> funding[x] # None \/ (w.op = "submitPayoutTx" /\ x = f))
        BY <2>1, <2>3
      <4>2. k = Books(w) <=> w.op = "submitPayoutTx"
        BY <2>5, <3>1
      <4> QED
        BY <2>3, <2>5, <3>1, <4>1, <4>2 DEF Happened
    <3>2. CASE k = "SETTLEMENT_SETTLED"
      <4>1. x \in Files => (status'[x] = "SETTLED" <=> status[x] = "SETTLED" \/ (w.to = "SETTLED" /\ x = f))
        BY <2>2
      <4>2. k = Books(w) <=> w.to = "SETTLED"
        BY <2>3, <2>5, <3>2
      <4> QED
        BY <1>1, <2>5, <3>2, <4>1, <4>2 DEF Happened
    <3>3. CASE k \notin {"SETTLEMENT_FUNDED", "SETTLEMENT_SETTLED"}
      BY <1>3, <2>5, <3>3 DEF Happened, Kinds
    <3> QED
      BY <3>1, <3>2, <3>3
  <2> QED
    BY <1>1, <1>3, <1>4, <2>1, <2>4, <2>6, <2>7, WriteIsBooked
<1> QED
  BY <1>5, <1>6

-----------------------------------------------------------------------------
(* Posting.                                                                 *)
LEMMA NetIsNumber ==
  ASSUME NEW f \in Files
  PROVE  Net(f) \in Int
<1>1. f \in Trades /\ Gross[f] \in Int
  BY ConstantsAssumption DEF Files, Trades, Invoices
<1>2. CASE f \in Direct
  BY <1>1, <1>2, ConstantsAssumption DEF Net
<1>3. CASE f \notin Direct
  <2>1. f \in Invoices /\ Gross[f] \in Nat
    BY <1>3, ConstantsAssumption DEF Files, Invoices, Trades
  <2> QED
    BY <1>3, <2>1, SplitFacts DEF Net, PaidSplit
<1> QED
  BY <1>2, <1>3

LEMMA SharesAreNumbers ==
  ASSUME NEW i \in Invoices
  PROVE  /\ Gross[i] \in Int
         /\ PaidSplit(i).gateway \in Int /\ PaidSplit(i).freezone \in Int
<1>1. Gross[i] \in Nat
  BY ConstantsAssumption DEF Trades, Invoices
<1> QED
  BY <1>1, SplitFacts DEF PaidSplit

LEMMA BalancesAreNumbers ==
  ASSUME NEW b \in Balances
  PROVE  /\ b.MERCHANT_PAYABLE \in Int /\ b.DEPOSIT_HELD \in Int
         /\ b.GATEWAY_SHARE \in Int /\ b.FREEZONE_SHARE \in Int
BY DEF Balances, Accounts

LEMMA PlusAddsEach ==
  ASSUME NEW b, NEW g
  PROVE  /\ Plus(b, g).MERCHANT_PAYABLE = b.MERCHANT_PAYABLE + g.MERCHANT_PAYABLE
         /\ Plus(b, g).DEPOSIT_HELD = b.DEPOSIT_HELD + g.DEPOSIT_HELD
         /\ Plus(b, g).GATEWAY_SHARE = b.GATEWAY_SHARE + g.GATEWAY_SHARE
         /\ Plus(b, g).FREEZONE_SHARE = b.FREEZONE_SHARE + g.FREEZONE_SHARE
BY DEF Plus, Accounts

LEMMA SettledMoves ==
  ASSUME NEW f
  PROVE  /\ SettledGroup(f).MERCHANT_PAYABLE = -Net(f) /\ SettledGroup(f).DEPOSIT_HELD = 0
         /\ SettledGroup(f).GATEWAY_SHARE = 0 /\ SettledGroup(f).FREEZONE_SHARE = 0
BY DEF SettledGroup, Nothing, Accounts

LEMMA FundedMoves ==
  ASSUME NEW d
  PROVE  FundedGroup(d).MERCHANT_PAYABLE = Net(d)
BY DEF FundedGroup, Nothing, Accounts

LEMMA ReleasedMoves ==
  ASSUME NEW i, NEW total, NEW t, t = Split(Terms[i], total)
  PROVE  /\ ReleasedGroup(i, total).MERCHANT_PAYABLE = 0
         /\ ReleasedGroup(i, total).DEPOSIT_HELD = -total
         /\ ReleasedGroup(i, total).GATEWAY_SHARE = -t.gateway
         /\ ReleasedGroup(i, total).FREEZONE_SHARE = -t.freezone
BY DEF ReleasedGroup, Nothing, Accounts

LEMMA PaidMoves ==
  ASSUME NEW i
  PROVE  /\ InvoicePaidGroup(i).MERCHANT_PAYABLE = IF i \in Exports THEN PaidSplit(i).beneficiary ELSE 0
         /\ InvoicePaidGroup(i).DEPOSIT_HELD = Gross[i]
         /\ InvoicePaidGroup(i).GATEWAY_SHARE = PaidSplit(i).gateway
         /\ InvoicePaidGroup(i).FREEZONE_SHARE = PaidSplit(i).freezone
BY DEF InvoicePaidGroup, Nothing, Accounts

LEMMA PostInTurn ==
  ASSUME IInv, FilesInTurn, BooksInTurn, NEW s \in Workers, Post(s)
  PROVE  BooksInTurn'
<1> PICK w : w = work[s]
  OBVIOUS
<1> PICK x : x = w.on
  OBVIOUS
<1> PICK g : g = Group(w)
  OBVIOUS
<1> PICK b : b = books[x]
  OBVIOUS
<1>1. /\ w \in Jobs /\ JobHolds(w) /\ JobTurn(w) /\ w.at = "post"
      /\ work \in [Workers -> Jobs] /\ releases \in [Invoices -> Seq(Nat)]
      /\ books \in [Trades -> Balances]
  BY DEF Post, IInv, TypeOK, DecisionsHold, FilesInTurn
<1>2. /\ books' = [books EXCEPT ![x] = Plus(@, g)]
      /\ posted' = posted \cup {Entry(w)}
      /\ work' = [work EXCEPT ![s] = Idle]
      /\ UNCHANGED <<status, funding, paid, held, releases, swept, refund>>
  BY DEF Post, Entry, files, deposits
<1>3. /\ \/ w.kind = "DEPOSIT_RELEASED" /\ x \in Invoices /\ w.n \in DOMAIN releases[x]
         \/ w.kind = "SETTLEMENT_FUNDED" /\ x \in Direct
         \/ w.kind = "SETTLEMENT_SETTLED" /\ x \in Files
         \/ w.kind = "REFUND_SENT" /\ x \in Invoices /\ w.by \in Refunds
      /\ x \in Trades
  BY <1>1, BookingFits DEF Trades, Files, Invoices
<1>4. Entry(w) \notin posted /\ LedgerInTurn'
  <2> PICK j : j = Idle
    OBVIOUS
  <2>1. Mine(w) = {Entry(w)} /\ Mine(j) = {}
    BY <1>1 DEF Booking, Idle, Mine
  <2> PICK O : O = Others(s)
    OBVIOUS
  <2>3. /\ Pending = O \cup {Entry(w)} /\ O \cap {Entry(w)} = {} /\ Pending' = O
        /\ EntriesApart'
    <3>1. work' = [work EXCEPT ![s] = j] /\ LedgerInTurn
      BY <1>2 DEF BooksInTurn
    <3>2. /\ Pending = Others(s) \cup Mine(w) /\ Others(s) \cap Mine(w) = {}
          /\ Pending' = Others(s) \cup Mine(j)
          /\ Others(s) \cap Mine(j) = {} => EntriesApart'
      BY <1>1, <3>1, PendingMoves
    <3> QED
      BY <2>1, <3>2
  <2>2. \A k \in Kinds, y \in Trades \cup Refunds : Happened(k, y)' <=> Happened(k, y)
    BY <1>2 DEF Happened
  <2> QED
    BY <1>2, <2>2, <2>3 DEF BooksInTurn, LedgerInTurn
<1>5. PaidFirst'
  BY <1>2 DEF BooksInTurn, PaidFirst
<1>6. /\ b \in Balances /\ books'[x] = Plus(b, g)
      /\ \A y \in Trades : y # x => books'[y] = books[y]
  BY <1>1, <1>2, <1>3
<1>7. /\ b.MERCHANT_PAYABLE \in Int /\ b.DEPOSIT_HELD \in Int
      /\ b.GATEWAY_SHARE \in Int /\ b.FREEZONE_SHARE \in Int
      /\ books'[x].MERCHANT_PAYABLE = b.MERCHANT_PAYABLE + g.MERCHANT_PAYABLE
      /\ books'[x].DEPOSIT_HELD = b.DEPOSIT_HELD + g.DEPOSIT_HELD
      /\ books'[x].GATEWAY_SHARE = b.GATEWAY_SHARE + g.GATEWAY_SHARE
      /\ books'[x].FREEZONE_SHARE = b.FREEZONE_SHARE + g.FREEZONE_SHARE
  BY <1>6, BalancesAreNumbers, PlusAddsEach
(* Which groups are in the ledger now.                                      *)
<1>8. \A k, y : <<k, y>> \in posted' <=> <<k, y>> \in posted \/ (k = w.kind /\ y = Subject(w))
  BY <1>2 DEF Entry
<1>9. \A y : RefundPosted(y)' <=> RefundPosted(y) \/ (w.kind = "REFUND_SENT" /\ y = x)
  <2>1. w.kind = "REFUND_SENT" => w.by \in Refunds /\ x = RefundOf[w.by] /\ Subject(w) = w.by
    <3>1. ASSUME w.kind = "REFUND_SENT"
          PROVE  w.op \in RefundOps
      <4>1. w.kind = Books(w) /\ w.op \in Ops /\ w.op # "idle"
        BY <1>1 DEF JobHolds, Jobs
      <4>2. CASE w.op \in SettlementOps
        <5>1. w.op # "recordRelease" /\ w.to # "SENT" /\ (w.op = "submitPayoutTx" => w.to # "SETTLED")
          BY <1>1, <4>2 DEF SettlementOps, JobHolds, SettlementJob, Statuses
        <5>2. CASE w.op = "submitPayoutTx"
          BY <3>1, <4>1, <5>1, <5>2 DEF Books
        <5>3. CASE w.op # "submitPayoutTx"
          BY <3>1, <4>1, <5>1, <5>3 DEF Books
        <5> QED
          BY <5>2, <5>3
      <4>3. CASE w.op = "recordRelease"
        <5>1. w.to = "none"
          BY <1>1, <4>3 DEF JobHolds
        <5> QED
          BY <3>1, <4>1, <4>3, <5>1 DEF Books
      <4> QED
        BY <4>1, <4>2, <4>3 DEF Ops
    <3> QED
      BY <1>1, <1>3, <3>1 DEF JobTurn, Subject
  <2> QED
    BY <1>8, <2>1 DEF RefundPosted
<1>10. ASSUME NEW f \in Files
       PROVE  FileBooks(f)'
  <2>1. FileBooks(f) /\ f \in Trades /\ (f \in Direct => f \notin Exports)
    BY ConstantsAssumption DEF BooksInTurn, Files, Trades, Invoices
  <2>2. CASE f # x
    <3>1. (CameIn(f)' <=> CameIn(f)) /\ (WentOut(f)' <=> WentOut(f)) /\ (RefundPosted(f)' <=> RefundPosted(f))
      BY <1>2, <1>8, <1>9, <2>2 DEF CameIn, WentOut, Subject
    <3> QED
      BY <1>6, <2>1, <2>2, <3>1 DEF FileBooks
  <2>3. CASE f = x
    <3> PICK n : n = Net(f)
      OBVIOUS
    <3>1. n \in Int
      BY NetIsNumber
    <3>2. CASE w.kind = "SETTLEMENT_FUNDED" /\ x \in Direct
      <4>1. g.MERCHANT_PAYABLE = n
        BY <2>3, <3>2, FundedMoves DEF Group
      <4>2. ~CameIn(f) /\ CameIn(f)' /\ (WentOut(f)' <=> WentOut(f)) /\ f \notin Exports
        BY <1>4, <1>8, <2>1, <2>3, <3>2 DEF CameIn, WentOut, Entry, Subject
      <4> QED
        BY <1>7, <2>1, <2>3, <3>1, <4>1, <4>2 DEF FileBooks
    <3>3. CASE w.kind = "SETTLEMENT_SETTLED"
      <4>1. g.MERCHANT_PAYABLE = -n
        BY <2>3, <3>3, SettledMoves DEF Group
      <4>2. ~WentOut(f) /\ WentOut(f)' /\ (CameIn(f)' <=> CameIn(f)) /\ (RefundPosted(f)' <=> RefundPosted(f))
        BY <1>2, <1>4, <1>8, <1>9, <2>3, <3>3 DEF CameIn, WentOut, Entry, Subject
      <4> QED
        BY <1>7, <2>1, <2>3, <3>1, <4>1, <4>2 DEF FileBooks
    <3>4. CASE w.kind = "DEPOSIT_RELEASED"
      <4>1. g.MERCHANT_PAYABLE = 0
        BY <3>4, ReleasedMoves DEF Group
      <4>2. (CameIn(f)' <=> CameIn(f)) /\ (WentOut(f)' <=> WentOut(f)) /\ (RefundPosted(f)' <=> RefundPosted(f))
        BY <1>2, <1>8, <1>9, <3>4 DEF CameIn, WentOut
      <4>3. books'[f].MERCHANT_PAYABLE = books[f].MERCHANT_PAYABLE
        BY <1>7, <2>3, <4>1
      <4> QED
        BY <2>1, <4>2, <4>3 DEF FileBooks
    <3>5. CASE w.kind = "REFUND_SENT" /\ x \in Invoices
      <4>1. f \in Exports /\ RefundPosted(f)'
        BY <1>9, <2>3, <3>5, ConstantsAssumption DEF Files
      <4> QED
        BY <4>1 DEF FileBooks
    <3> QED
      BY <1>3, <3>2, <3>3, <3>4, <3>5
  <2> QED
    BY <2>2, <2>3
<1>11. ASSUME NEW i \in Invoices
       PROVE  AddressBooks(i)'
  <2>1. AddressBooks(i) /\ i \in Trades /\ i \notin Direct
    BY ConstantsAssumption DEF BooksInTurn, Trades
  <2> PICK rel : rel = releases[i]
    OBVIOUS
  <2>2. ASSUME books'[i].DEPOSIT_HELD = books[i].DEPOSIT_HELD,
               books'[i].GATEWAY_SHARE = books[i].GATEWAY_SHARE,
               books'[i].FREEZONE_SHARE = books[i].FREEZONE_SHARE,
               ~(w.kind = "DEPOSIT_RELEASED" /\ Subject(w) = i), RefundPosted(i)' <=> RefundPosted(i)
        PROVE  AddressBooks(i)'
    <3>1. \A t, u : Holds(i, t, u)' <=> Holds(i, t, u)
      BY <2>2 DEF Holds
    <3>2. <<"DEPOSIT_RELEASED", i>> \in posted' <=> <<"DEPOSIT_RELEASED", i>> \in posted
      BY <1>8, <2>2
    <3> QED
      BY <1>2, <2>1, <2>2, <3>1, <3>2 DEF AddressBooks
  <2>3. CASE i # x
    <3>1. ~(w.kind = "DEPOSIT_RELEASED" /\ Subject(w) = i) /\ (RefundPosted(i)' <=> RefundPosted(i))
      BY <1>9, <2>3 DEF Subject
    <3>2. books'[i] = books[i]
      BY <1>6, <2>1, <2>3
    <3> QED
      BY <2>2, <3>1, <3>2
  <2>4. CASE i = x
    <3>1. CASE w.kind = "SETTLEMENT_SETTLED"
      <4>1. g.DEPOSIT_HELD = 0 /\ g.GATEWAY_SHARE = 0 /\ g.FREEZONE_SHARE = 0
        BY <3>1, SettledMoves DEF Group
      <4>2. /\ books'[i].DEPOSIT_HELD = books[i].DEPOSIT_HELD
            /\ books'[i].GATEWAY_SHARE = books[i].GATEWAY_SHARE
            /\ books'[i].FREEZONE_SHARE = books[i].FREEZONE_SHARE
        BY <1>7, <2>4, <4>1
      <4>3. RefundPosted(i)' <=> RefundPosted(i)
        BY <1>9, <3>1
      <4> QED
        BY <2>2, <3>1, <4>2, <4>3
    <3>2. CASE w.kind = "DEPOSIT_RELEASED" /\ w.n \in DOMAIN releases[x]
      <4> PICK total : total = rel[w.n]
        OBVIOUS
      <4> PICK t : t = Split(Terms[i], total)
        OBVIOUS
      <4>1. w.n \in DOMAIN rel /\ rel # <<>> /\ total \in Nat
        BY <1>1, <2>4, <3>2
      <4>2. t.gateway \in Nat /\ t.freezone \in Nat
        BY <4>1, SplitFacts
      <4>3. /\ g.DEPOSIT_HELD = -total
            /\ g.GATEWAY_SHARE = -t.gateway /\ g.FREEZONE_SHARE = -t.freezone
        <5>1. g = ReleasedGroup(i, total)
          BY <2>4, <3>2 DEF Group
        <5> QED
          BY <5>1, ReleasedMoves
      <4>4. <<"DEPOSIT_RELEASED", i>> \notin posted /\ <<"DEPOSIT_RELEASED", i>> \in posted'
        BY <1>4, <1>8, <2>4, <3>2 DEF Entry, Subject
      <4>5. paid[i]
        BY <4>1 DEF BooksInTurn, PaidFirst
      <4>6. RefundPosted(i)' <=> RefundPosted(i)
        BY <1>9, <3>2
      <4>7. ASSUME ~RefundPosted(i)
            PROVE  Holds(i, total, t)'
        <5>1. Holds(i, 0, NoShares)
          BY <2>1, <4>4, <4>5, <4>7 DEF AddressBooks
        <5> PICK p : p = PaidSplit(i)
          OBVIOUS
        <5>2. Gross[i] \in Int /\ p.gateway \in Int /\ p.freezone \in Int
          BY SharesAreNumbers
        <5>3. /\ b.DEPOSIT_HELD = Gross[i] - 0
              /\ b.GATEWAY_SHARE = p.gateway - 0 /\ b.FREEZONE_SHARE = p.freezone - 0
          BY <2>4, <5>1 DEF Holds, NoShares
        <5>4. /\ books'[i].DEPOSIT_HELD = Gross[i] - total
              /\ books'[i].GATEWAY_SHARE = p.gateway - t.gateway
              /\ books'[i].FREEZONE_SHARE = p.freezone - t.freezone
          <6>1. books'[i].DEPOSIT_HELD = Gross[i] - total
            BY <1>7, <2>4, <4>1, <4>3, <5>2, <5>3
          <6>2. books'[i].GATEWAY_SHARE = p.gateway - t.gateway
            BY <1>7, <2>4, <4>2, <4>3, <5>2, <5>3
          <6>3. books'[i].FREEZONE_SHARE = p.freezone - t.freezone
            BY <1>7, <2>4, <4>2, <4>3, <5>2, <5>3
          <6> QED
            BY <6>1, <6>2, <6>3
        <5> QED
          BY <5>4 DEF Holds
      <4>8. releases'[i] = rel
        BY <1>2
      <4> QED
        BY <4>1, <4>4, <4>6, <4>7, <4>8 DEF AddressBooks
    <3>3. CASE w.kind = "REFUND_SENT"
      <4>1. RefundPosted(i)'
        BY <1>9, <2>4, <3>3
      <4> QED
        BY <4>1 DEF AddressBooks
    <3> QED
      BY <1>3, <2>1, <2>4, <3>1, <3>2, <3>3
  <2> QED
    BY <2>3, <2>4
<1> QED
  BY <1>4, <1>5, <1>10, <1>11 DEF BooksInTurn

(* An invoice is paid: its first group, and no release before it.           *)
LEMMA PaidBooksInTurn ==
  ASSUME IInv, BooksInTurn, NEW i \in Invoices, InvoicePaid(i)
  PROVE  BooksInTurn'
<1> PICK g : g = InvoicePaidGroup(i)
  OBVIOUS
<1> PICK b : b = books[i]
  OBVIOUS
<1>1. /\ ~paid[i] /\ paid' = [paid EXCEPT ![i] = TRUE] /\ paid \in [Invoices -> BOOLEAN]
      /\ held' = [held EXCEPT ![i] = @ + Gross[i]]
      /\ books' = [books EXCEPT ![i] = Plus(@, g)] /\ books \in [Trades -> Balances]
      /\ held \in [Invoices -> Nat] /\ status \in [Files -> Statuses \cup {"none"}]
      /\ status' = IF i \in Exports THEN [status EXCEPT ![i] = "AWAITING_BANK"] ELSE status
      /\ UNCHANGED <<funding, releases, swept, refund, posted, work>>
  BY DEF InvoicePaid, IInv, TypeOK
<1>2. /\ i \in Trades /\ i \notin Direct
      /\ i \in Exports => i \in Files /\ status[i] = "none"
  BY <1>1, ConstantsAssumption DEF Files, Trades, Invoices, IInv, DecisionsHold, FileHolds
<1>3. held[i] = 0 /\ releases[i] = <<>> /\ ~swept[i]
  BY <1>1 DEF BooksInTurn, PaidFirst
<1>4. /\ b \in Balances /\ books'[i] = Plus(b, g)
      /\ \A y \in Trades : y # i => books'[y] = books[y]
  BY <1>1, <1>2
<1>5. /\ b.MERCHANT_PAYABLE \in Int /\ b.DEPOSIT_HELD \in Int
      /\ b.GATEWAY_SHARE \in Int /\ b.FREEZONE_SHARE \in Int
      /\ books'[i].MERCHANT_PAYABLE = b.MERCHANT_PAYABLE + g.MERCHANT_PAYABLE
      /\ books'[i].DEPOSIT_HELD = b.DEPOSIT_HELD + g.DEPOSIT_HELD
      /\ books'[i].GATEWAY_SHARE = b.GATEWAY_SHARE + g.GATEWAY_SHARE
      /\ books'[i].FREEZONE_SHARE = b.FREEZONE_SHARE + g.FREEZONE_SHARE
  BY <1>4, BalancesAreNumbers, PlusAddsEach
<1>6. \A k \in Kinds, x \in Trades \cup Refunds : Happened(k, x)' <=> Happened(k, x)
  <2>1. \A f \in Files : status'[f] = "SETTLED" <=> status[f] = "SETTLED"
    BY <1>1, <1>2
  <2> QED
    BY <1>1, <2>1 DEF Happened
<1>7. LedgerInTurn'
  <2>1. Pending' = Pending /\ EntriesApart'
    <3>1. EntriesApart
      BY DEF BooksInTurn, LedgerInTurn
    <3> QED
      BY <1>1, <3>1 DEF Pending, EntriesApart, Booking, Entry, Subject
  <2> QED
    BY <1>1, <1>6, <2>1, LedgerStays DEF BooksInTurn
<1>8. PaidFirst'
  BY <1>1 DEF BooksInTurn, PaidFirst
<1>9. \A y : RefundPosted(y)' <=> RefundPosted(y)
  BY <1>1 DEF RefundPosted
<1>10. ASSUME NEW f \in Files
       PROVE  FileBooks(f)'
  <2>1. FileBooks(f) /\ f \in Trades
    BY DEF BooksInTurn, Files, Trades, Invoices
  <2>2. CASE f # i
    <3>1. (CameIn(f)' <=> CameIn(f)) /\ (WentOut(f)' <=> WentOut(f)) /\ books'[f] = books[f]
      BY <1>1, <1>4, <2>1, <2>2 DEF CameIn, WentOut, Invoices
    <3> QED
      BY <1>9, <2>1, <3>1 DEF FileBooks
  <2>3. CASE f = i
    <3>1. i \in Exports
      BY <1>2, <2>3 DEF Files
    <3>2. ~CameIn(f) /\ CameIn(f)'
      BY <1>1, <2>3, <3>1 DEF CameIn
    <3>3. ~WentOut(f) /\ ~WentOut(f)'
      <4>1. ~Happened("SETTLEMENT_SETTLED", i)
        BY <1>2, <3>1 DEF Happened
      <4>2. <<"SETTLEMENT_SETTLED", i>> \notin posted
        BY <1>2, <4>1 DEF BooksInTurn, LedgerInTurn, Kinds
      <4> QED
        BY <1>1, <2>3, <4>2 DEF WentOut
    <3> PICK n : n = Net(f)
      OBVIOUS
    <3>4. n \in Int /\ g.MERCHANT_PAYABLE = n
      BY <1>2, <2>3, <3>1, NetIsNumber, PaidMoves DEF Net
    <3> QED
      BY <1>5, <1>9, <2>1, <2>3, <3>2, <3>3, <3>4 DEF FileBooks
  <2> QED
    BY <2>2, <2>3
<1>11. ASSUME NEW j \in Invoices
       PROVE  AddressBooks(j)'
  <2>1. AddressBooks(j) /\ j \in Trades
    BY DEF BooksInTurn, Trades
  <2>2. CASE j # i
    <3>1. books'[j] = books[j] /\ (paid'[j] <=> paid[j]) /\ releases'[j] = releases[j]
      BY <1>1, <1>4, <2>1, <2>2
    <3>2. \A t, u : Holds(j, t, u)' <=> Holds(j, t, u)
      BY <3>1 DEF Holds
    <3> QED
      BY <1>1, <1>9, <2>1, <3>1, <3>2 DEF AddressBooks
  <2>3. CASE j = i
    <3>1. paid'[i]
      BY <1>1
    <3>2. <<"DEPOSIT_RELEASED", i>> \notin posted'
      <4>1. ~Happened("DEPOSIT_RELEASED", i)
        BY <1>3 DEF Happened
      <4> QED
        BY <1>1, <1>2, <4>1 DEF BooksInTurn, LedgerInTurn, Kinds
    <3>3. ASSUME ~RefundPosted(i)
          PROVE  Holds(i, 0, NoShares)'
      <4>1. b.DEPOSIT_HELD = 0 /\ b.GATEWAY_SHARE = 0 /\ b.FREEZONE_SHARE = 0
        BY <1>1, <1>3, <2>1, <2>3, <3>3 DEF AddressBooks
      <4> PICK p : p = PaidSplit(i)
        OBVIOUS
      <4>2. Gross[i] \in Int /\ p.gateway \in Int /\ p.freezone \in Int
        BY SharesAreNumbers
      <4>3. g.DEPOSIT_HELD = Gross[i] /\ g.GATEWAY_SHARE = p.gateway /\ g.FREEZONE_SHARE = p.freezone
        BY PaidMoves
      <4>4. /\ books'[i].DEPOSIT_HELD = Gross[i] - 0
            /\ books'[i].GATEWAY_SHARE = p.gateway - 0
            /\ books'[i].FREEZONE_SHARE = p.freezone - 0
        BY <1>5, <4>1, <4>2, <4>3
      <4> QED
        BY <4>4 DEF Holds, NoShares
    <3> QED
      BY <1>9, <2>3, <3>1, <3>2, <3>3 DEF AddressBooks
  <2> QED
    BY <2>2, <2>3
<1> QED
  BY <1>7, <1>8, <1>10, <1>11 DEF BooksInTurn

LEMMA WorldBooksInTurn ==
  ASSUME IInv, BooksInTurn, World
  PROVE  BooksInTurn'
<1>1. ASSUME UNCHANGED <<status, funding, paid, swept, refund, books, posted, work>>, PaidFirst',
             \A i \in Invoices : \A n \in DOMAIN releases[i] :
               n \in DOMAIN releases'[i] /\ releases'[i][n] = releases[i][n]
      PROVE  BooksInTurn'
  <2>1. Pending' = Pending /\ EntriesApart'
    <3>1. EntriesApart
      BY DEF BooksInTurn, LedgerInTurn
    <3> QED
      BY <1>1, <3>1 DEF Pending, EntriesApart, Booking, Entry, Subject
  <2>2. LedgerInTurn'
    BY <1>1, <2>1, LedgerStays DEF BooksInTurn, Happened
  <2> QED
    BY <1>1, <2>2, BooksStay
<1>2. ASSUME NEW i \in Invoices, LatePayment(i)
      PROVE  BooksInTurn'
  <2>1. /\ UNCHANGED <<status, funding, paid, releases, swept, refund, books, posted, work>>
        /\ paid[i] /\ held' = [held EXCEPT ![i] = @ + 1] /\ held \in [Invoices -> Nat]
    BY <1>2 DEF LatePayment, files, ledger, IInv, TypeOK
  <2>2. PaidFirst'
    BY <2>1 DEF BooksInTurn, PaidFirst
  <2> QED
    BY <1>1, <2>1, <2>2
<1>3. ASSUME NEW i \in Invoices, Release(i)
      PROVE  BooksInTurn'
  <2>1. /\ UNCHANGED <<status, funding, paid, swept, refund, books, posted, work>>
        /\ held[i] > 0 /\ held' = [held EXCEPT ![i] = 0] /\ held \in [Invoices -> Nat]
        /\ releases' = [releases EXCEPT ![i] = Append(@, held[i])] /\ releases \in [Invoices -> Seq(Nat)]
    BY <1>3 DEF Release, files, ledger, IInv, TypeOK
  <2>2. paid[i]
    BY <2>1 DEF BooksInTurn, PaidFirst
  <2>3. PaidFirst'
    BY <2>1, <2>2 DEF BooksInTurn, PaidFirst
  <2>4. ASSUME NEW j \in Invoices, NEW n \in DOMAIN releases[j]
        PROVE  n \in DOMAIN releases'[j] /\ releases'[j][n] = releases[j][n]
    <3>1. CASE j = i
      <4>1. releases'[i] = Append(releases[i], held[i]) /\ releases[i] \in Seq(Nat) /\ held[i] \in Nat
        BY <2>1
      <4> QED
        BY <2>4, <3>1, <4>1
    <3>2. CASE j # i
      BY <2>1, <2>4, <3>2
    <3> QED
      BY <3>1, <3>2
  <2> QED
    BY <1>1, <2>1, <2>3, <2>4
<1>4. ASSUME \/ \E p \in Percents : SetPercent(p)
             \/ \E t \in Payments : Transfer(t) \/ Finalize(t) \/ Scan(t)
      PROVE  BooksInTurn'
  <2>1. UNCHANGED <<status, funding, paid, held, releases, swept, refund, books, posted, work>>
    BY <1>4 DEF SetPercent, Transfer, Finalize, Scan, files, deposits, ledger
  <2>2. PaidFirst'
    BY <2>1 DEF BooksInTurn, PaidFirst
  <2> QED
    BY <1>1, <2>1, <2>2
<1> QED
  BY <1>2, <1>3, <1>4, PaidBooksInTurn DEF World

-----------------------------------------------------------------------------
LEMMA BooksInit == Init => BooksInTurn
<1> SUFFICES ASSUME Init PROVE BooksInTurn
  OBVIOUS
<1>1. LedgerInTurn
  <2>1. Pending = {}
    BY DEF Init, Pending, Booking, Idle
  <2>2. \A k \in Kinds, x \in Trades \cup Refunds : ~Happened(k, x)
    BY DEF Init, Happened
  <2>3. posted = {} /\ EntriesApart
    BY DEF Init, EntriesApart, Booking, Idle
  <2> QED
    BY <2>1, <2>2, <2>3 DEF LedgerInTurn
<1>2. PaidFirst
  BY DEF Init, PaidFirst
<1>3. ASSUME NEW x \in Trades
      PROVE  /\ books[x].MERCHANT_PAYABLE = 0 /\ books[x].DEPOSIT_HELD = 0
             /\ books[x].GATEWAY_SHARE = 0 /\ books[x].FREEZONE_SHARE = 0
  BY <1>3 DEF Init, Nothing, Accounts
<1>4. \A f \in Files : FileBooks(f)
  <2>1. \A f \in Files : ~CameIn(f) /\ ~WentOut(f) /\ f \in Trades
    BY DEF Init, CameIn, WentOut, Files, Trades, Invoices
  <2> QED
    BY <1>3, <2>1 DEF FileBooks
<1>5. \A i \in Invoices : AddressBooks(i)
  BY <1>3 DEF Init, AddressBooks, Trades
<1> QED
  BY <1>1, <1>2, <1>4, <1>5 DEF BooksInTurn

(* The books are in turn as long as no worker has died.                     *)
Undisturbed == failures = 0 => BooksInTurn

LEMMA BooksNext == IInv /\ FilesInTurn /\ Undisturbed /\ [Next]_vars => Undisturbed'
<1> SUFFICES ASSUME IInv, FilesInTurn, Undisturbed, [Next]_vars, failures' = 0
             PROVE  BooksInTurn'
  BY DEF Undisturbed
<1> USE DEF Undisturbed
<1>1. CASE UNCHANGED vars
  <2>1. /\ failures = 0
        /\ UNCHANGED <<status, funding, paid, held, releases, swept, refund, books, posted, work>>
    BY <1>1 DEF vars, files, deposits, ledger
  <2>2. Pending' = Pending /\ EntriesApart'
    <3>1. EntriesApart
      BY <2>1 DEF BooksInTurn, LedgerInTurn
    <3> QED
      BY <2>1, <3>1 DEF Pending, EntriesApart, Booking, Entry, Subject
  <2>3. LedgerInTurn'
    BY <2>1, <2>2, LedgerStays DEF BooksInTurn, Happened
  <2>4. PaidFirst'
    BY <2>1 DEF BooksInTurn, PaidFirst
  <2> QED
    BY <2>1, <2>3, <2>4, BooksStay
<1>2. ASSUME NEW s \in Slots, Ask(s)
      PROVE  BooksInTurn'
  <2>1. failures' = failures
    BY <1>2 DEF Ask, Submit, SetPayoutAccount, ApproveAdmin, RejectAdmin, LockRate, Settle, RejectBank,
                SubmitPayoutTx, RecordRelease, RequestRefund, ApproveRefund, RejectRefund, MarkSent, Decide
  <2> QED
    BY <1>2, <2>1, AskBooksInTurn
<1>3. ASSUME NEW s \in Sweepers, NEW t \in Payments, Refresh(s, t)
      PROVE  BooksInTurn'
  <2>1. failures = 0
    BY <1>3 DEF Refresh
  <2> QED
    BY <1>3, <2>1, SweepBooksInTurn DEF Workers
<1>4. ASSUME NEW s \in Workers, Continue(s)
      PROVE  BooksInTurn'
  <2>1. CASE CommitSettlement(s)
    BY <2>1, SettlementWriteInTurn DEF CommitSettlement
  <2>2. CASE CommitRelease(s)
    BY <2>2, ReleaseWriteInTurn DEF CommitRelease
  <2>3. CASE CommitRefund(s)
    BY <2>3, RefundWriteInTurn DEF CommitRefund
  <2>4. CASE FindSettlement(s)
    BY <2>4, SweepBooksInTurn DEF FindSettlement
  <2>5. CASE CheckPosted(s)
    BY <2>5, CheckPostedInTurn DEF CheckPosted
  <2>6. CASE Post(s)
    BY <2>6, PostInTurn DEF Post
  <2> QED
    BY <1>4, <2>1, <2>2, <2>3, <2>4, <2>5, <2>6 DEF Continue
<1>5. ASSUME NEW s \in Workers, Fail(s)
      PROVE  FALSE
  BY <1>5 DEF Fail, IInv, TypeOK
<1>6. CASE World
  <2>1. failures = 0
    BY <1>6 DEF World, SetPercent, InvoicePaid, LatePayment, Release, Transfer, Finalize, Scan
  <2> QED
    BY <1>6, <2>1, WorldBooksInTurn
<1> QED
  BY <1>1, <1>2, <1>3, <1>4, <1>5, <1>6 DEF Next

LEMMA UndisturbedAlways == Spec /\ []RowsApart => []Undisturbed
<1>1. Init => Undisturbed
  BY BooksInit DEF Undisturbed
<1>2. IInv /\ FilesInTurn /\ Undisturbed /\ [Next]_vars => Undisturbed'
  BY BooksNext
<1> QED
  BY <1>1, <1>2, InvariantHolds, FilesInTurnAlways, PTL DEF Spec

(* While no two handlers write one row at a time, and as long as no worker  *)
(* has died half-way: with nothing in progress the books owe the merchant   *)
(* the net of each file that came in and was not settled, and nothing once  *)
(* it was.                                                                  *)
THEOREM BooksAgreeInTurn ==
  Spec /\ []RowsApart => [](failures = 0 => BooksAgreeWithFiles)
<1>1. IInv /\ FilesInTurn /\ Undisturbed => (failures = 0 => BooksAgreeWithFiles)
  <2> SUFFICES ASSUME IInv, FilesInTurn, BooksInTurn, Resting,
                      NEW f \in Files, f \in Exports => ~Returned(f)
               PROVE  books[f].MERCHANT_PAYABLE = IF Came(f) /\ status[f] # "SETTLED" THEN Net(f) ELSE 0
    BY DEF Undisturbed, BooksAgreeWithFiles
  <2>1. Pending = {}
    BY DEF Resting, Pending, Booking, Idle
  <2>2. \A k \in Kinds, x \in Trades \cup Refunds : Happened(k, x) <=> <<k, x>> \in posted
    BY <2>1 DEF BooksInTurn, LedgerInTurn
  <2>3. f \in Trades /\ (f \in Direct <=> f \notin Exports)
    BY ConstantsAssumption DEF Files, Trades, Invoices
  <2>4. f \in Exports => ~RefundPosted(f)
    <3>1. \A r \in Refunds : <<"REFUND_SENT", r>> \in posted => refund[r] = "SENT"
      BY <2>2 DEF Happened, Kinds
    <3> QED
      BY <3>1 DEF RefundPosted, Returned
  <2>5. CameIn(f) <=> Came(f)
    <3>1. f \notin Exports => (<<"SETTLEMENT_FUNDED", f>> \in posted <=> funding[f] # None)
      BY <2>2, <2>3 DEF Happened, Kinds
    <3> QED
      BY <3>1 DEF CameIn, Came
  <2>6. WentOut(f) <=> status[f] = "SETTLED"
    BY <2>2, <2>3 DEF WentOut, Happened, Kinds
  <2>7. status[f] = "SETTLED" => Came(f)
    <3>1. FileTurn(f) /\ FileHolds(f)
      BY DEF FilesInTurn, IInv, DecisionsHold
    <3> QED
      BY <2>3, <3>1 DEF FileTurn, FileHolds, Came, Handed
  <2> PICK n : n = Net(f)
    OBVIOUS
  <2>8. n \in Int
    BY NetIsNumber
  <2>9. books[f].MERCHANT_PAYABLE = (IF Came(f) THEN n ELSE 0) - (IF status[f] = "SETTLED" THEN n ELSE 0)
    BY <2>4, <2>5, <2>6 DEF BooksInTurn, FileBooks
  <2> QED
    BY <2>7, <2>8, <2>9
<1> QED
  BY <1>1, InvariantHolds, FilesInTurnAlways, UndisturbedAlways, PTL

(* Under the same hypotheses a deposit of the invoice's own sum, released   *)
(* and recorded, leaves no tokens and no fee on the books: the split the    *)
(* payout makes is the one that was booked when the invoice was paid.       *)
THEOREM ReleaseClearsInTurn ==
  Spec /\ []RowsApart => [](failures = 0 => ReleaseClearsShares)
<1>1. IInv /\ FilesInTurn /\ Undisturbed => (failures = 0 => ReleaseClearsShares)
  <2> SUFFICES ASSUME IInv, BooksInTurn, Resting,
                      NEW i \in Invoices, swept[i], releases[i] = <<Gross[i]>>, ~Returned(i)
               PROVE  books[i].DEPOSIT_HELD = 0 /\ books[i].GATEWAY_SHARE = 0 /\ books[i].FREEZONE_SHARE = 0
    BY DEF Undisturbed, ReleaseClearsShares
  <2>1. Pending = {}
    BY DEF Resting, Pending, Booking, Idle
  <2>2. \A k \in Kinds, x \in Trades \cup Refunds : Happened(k, x) <=> <<k, x>> \in posted
    BY <2>1 DEF BooksInTurn, LedgerInTurn
  <2>3. i \in Trades
    BY DEF Trades
  <2>4. ~RefundPosted(i)
    <3>1. \A r \in Refunds : <<"REFUND_SENT", r>> \in posted => refund[r] = "SENT"
      BY <2>2 DEF Happened, Kinds
    <3> QED
      BY <3>1 DEF RefundPosted, Returned
  <2>5. <<"DEPOSIT_RELEASED", i>> \in posted /\ paid[i]
    BY <2>2, <2>3 DEF Happened, Kinds, BooksInTurn, PaidFirst
  <2> PICK n : n \in DOMAIN releases[i] /\ Holds(i, releases[i][n], Split(Terms[i], releases[i][n]))
    BY <2>4, <2>5 DEF BooksInTurn, AddressBooks
  <2>6. releases[i][n] = Gross[i]
    OBVIOUS
  <2>7. Holds(i, Gross[i], PaidSplit(i))
    BY <2>6 DEF PaidSplit
  <2> PICK p : p = PaidSplit(i)
    OBVIOUS
  <2>8. Gross[i] \in Int /\ p.gateway \in Int /\ p.freezone \in Int
    BY SharesAreNumbers
  <2>9. /\ books[i].DEPOSIT_HELD = Gross[i] - Gross[i]
        /\ books[i].GATEWAY_SHARE = p.gateway - p.gateway
        /\ books[i].FREEZONE_SHARE = p.freezone - p.freezone
    BY <2>7 DEF Holds
  <2> QED
    BY <2>8, <2>9
<1> QED
  BY <1>1, InvariantHolds, FilesInTurnAlways, UndisturbedAlways, PTL

(* The hypotheses are met where one worker serves everything, in turn.      *)
LEMMA OneWorkerIsApart ==
  ASSUME NEW w, Workers = {w}
  PROVE  RowsApart /\ SubmitsApart
BY DEF RowsApart, SubmitsApart, Rivals

=============================================================================
