----------------------- MODULE InvoiceLifecycle_proofs -----------------------
(***************************************************************************)
(* The properties of InvoiceLifecycle, for any number of invoices,          *)
(* transfers, requests in flight and watcher passes.  First those that do   *)
(* not depend on how handlers meet.                                         *)
(*                                                                          *)
(* RialLegInOrder and PaidIsBacked are not inductive: a handler writes by   *)
(* id what it decided from an older read.  What saves them is that the      *)
(* facts they rest on only ever become true, which DecisionsStayTrue says   *)
(* of every job in flight.                                                  *)
(*                                                                          *)
(* The last sections are about handlers that meet at no invoice: then a     *)
(* guard still holds at the write, and they implement InvoicePromise.       *)
(***************************************************************************)
EXTENDS InvoiceLifecycle, TLAPS

IInv == TypeOK /\ DecisionsStayTrue /\ RialLegInOrder /\ PaidIsBacked /\ PayoutAfterBooks

-----------------------------------------------------------------------------
(* Idling is a job too.                                                     *)
LEMMA IdleIsJob == Idle \in Jobs
BY DEF Idle, Jobs, Ops, Statuses

(* What an invoice requires is a number, and what is owed for it.           *)
LEMMA RequiredIsOwed ==
  ASSUME direction \in [Invoices -> Directions], NEW i \in Invoices
  PROVE  Required(i) \in Nat /\ Required(i) = Owed(i)
BY ConstantsAssumption DEF Required, Owed, Directions

(* What was seen on the chain at an address only grows.                     *)
LEMMA MinedGrows ==
  ASSUME NEW i \in Invoices, \A t \in Transfers : mined[t] # "no" => mined'[t] # "no"
  PROVE  /\ AmountOf(Mined(i)) \in Nat
         /\ AmountOf(Mined(i)') \in Nat
         /\ AmountOf(Mined(i)) <= AmountOf(Mined(i)')
<1>1. Mined(i) \in SUBSET Transfers /\ Mined(i)' \in SUBSET Transfers /\ Mined(i) \subseteq Mined(i)'
  BY DEF Mined
<1> QED
  BY <1>1, ConstantsAssumption

-----------------------------------------------------------------------------
(* What the invariant says once only work in flight, the deposit row and    *)
(* the ChainTx rows have moved.                                             *)
LEMMA BeginKeeps ==
  ASSUME IInv, NEW s \in Workers,
         NEW op \in Ops, NEW i \in Invoices, NEW t \in Transfers \cup {None},
         NEW to \in Statuses, NEW n \in Nat,
         Begin(s, Job(op, i, t, to, n)), RialJob(op, i, to), PaidJob(op, i, to, n),
         deposit' \in [Invoices -> BOOLEAN],
         row' \in [Transfers -> {"none", "CONFIRMING", "CONFIRMED"}],
         \A u \in Transfers : row'[u] # "none" => mined[u] # "no",
         UNCHANGED <<direction, fields, mined, matched, books, failures>>
  PROVE  IInv'
<1> DEFINE job == Job(op, i, t, to, n)
<1>1. /\ job \in Jobs
      /\ job.op = op /\ job.inv = i /\ job.to = to /\ job.amount = n /\ job.at = "commit"
  BY DEF Job, Jobs
<1>2. work' = [work EXCEPT ![s] = job] /\ work \in [Workers -> Jobs]
  BY DEF Begin, IInv, TypeOK
<1> HIDE DEF job
<1>3. TypeOK'
  BY <1>1, <1>2 DEF IInv, TypeOK, fields, books
<1>4. DecisionsStayTrue'
  <2>1. \A u \in Transfers : row'[u] # "none" => mined'[u] # "no"
    OBVIOUS
  <2> SUFFICES ASSUME NEW r \in Workers, work'[r] # Idle
               PROVE  /\ work'[r].inv \in Invoices
                      /\ RialJob(work[r].op, work[r].inv, work[r].to)'
                      /\ PaidJob(work[r].op, work[r].inv, work[r].to, work[r].amount)'
                      /\ work'[r].at = "payout" => posted'[work'[r].inv] > 0
    BY <2>1 DEF DecisionsStayTrue
  <2>2. \A o, k, v, m : RialJob(o, k, v)' = RialJob(o, k, v) /\ PaidJob(o, k, v, m)' = PaidJob(o, k, v, m)
    <3>1. \A k : Owed(k)' = Owed(k) /\ Mined(k)' = Mined(k)
      BY DEF Owed, Mined
    <3> QED
      BY <3>1 DEF RialJob, PaidJob, fields
  <2>3. CASE r = s
    BY <1>1, <1>2, <2>2, <2>3
  <2>4. CASE r # s
    BY <1>2, <2>2, <2>4 DEF IInv, DecisionsStayTrue, books
  <2> QED
    BY <2>3, <2>4
<1>5. RialLegInOrder' /\ PayoutAfterBooks'
  BY DEF IInv, RialLegInOrder, PayoutAfterBooks, fields, books
<1>6. PaidIsBacked'
  <2>1. \A k : Owed(k)' = Owed(k) /\ Mined(k)' = Mined(k)
    BY DEF Owed, Mined
  <2> QED
    BY <2>1 DEF IInv, PaidIsBacked, fields
<1> QED
  BY <1>3, <1>4, <1>5, <1>6 DEF IInv

(* The same, for a handler that writes nothing before its own update.       *)
LEMMA QuietBeginKeeps ==
  ASSUME IInv, NEW s \in Workers,
         NEW op \in Ops, NEW i \in Invoices, NEW to \in Statuses,
         Begin(s, Job(op, i, None, to, 0)), RialJob(op, i, to), to # "PAID",
         UNCHANGED <<direction, deposit, fields, chain, books, failures>>
  PROVE  IInv'
<1>1. /\ deposit' \in [Invoices -> BOOLEAN]
      /\ row' \in [Transfers -> {"none", "CONFIRMING", "CONFIRMED"}]
      /\ \A u \in Transfers : row'[u] # "none" => mined[u] # "no"
      /\ UNCHANGED <<direction, fields, mined, matched, books, failures>>
  BY DEF IInv, TypeOK, DecisionsStayTrue, chain
<1>2. PaidJob(op, i, to, 0)
  BY DEF PaidJob
<1> QED
  BY <1>1, <1>2, BeginKeeps

(* No request, however stale what it read, begins a job that would break    *)
(* the invariant.                                                           *)
LEMMA RequestKeeps ==
  ASSUME IInv, NEW s \in Slots, NEW i \in Invoices, Request(s, i)
  PROVE  IInv'
<1> s \in Workers
  BY DEF Workers
<1> USE DEF Ops, Statuses, RialJob
<1>1. CASE Approve(s, i)
  <2>1. /\ deposit' \in [Invoices -> BOOLEAN]
        /\ row' \in [Transfers -> {"none", "CONFIRMING", "CONFIRMED"}]
        /\ \A u \in Transfers : row'[u] # "none" => mined[u] # "no"
        /\ UNCHANGED <<direction, fields, mined, matched, books, failures>>
    BY <1>1 DEF Approve, IInv, TypeOK, DecisionsStayTrue, chain
  <2>2. Begin(s, Job("approve", i, None, "APPROVED", 0)) /\ PaidJob("approve", i, "APPROVED", 0)
    BY <1>1 DEF Approve, PaidJob
  <2> QED
    BY <2>1, <2>2, BeginKeeps
<1>2. CASE Reject(s, i)
  BY <1>2, QuietBeginKeeps DEF Reject
<1>3. CASE LockRate(s, i)
  BY <1>3, QuietBeginKeeps DEF LockRate
<1>4. CASE ConfirmRialDeposit(s, i)
  <2>1. rateSet[i]
    BY <1>4 DEF ConfirmRialDeposit, IInv, RialLegInOrder
  <2> QED
    BY <1>4, <2>1, QuietBeginKeeps DEF ConfirmRialDeposit
<1>5. CASE StartPayment(s, i)
  BY <1>5, QuietBeginKeeps DEF StartPayment
<1>6. ASSUME NEW t \in Transfers, ConfirmPayment(s, i, t)
      PROVE  IInv'
  <2>1. AmountOf({t}) \in Nat /\ AmountOf({t}) <= AmountOf(Mined(i))
    <3>1. {t} \in SUBSET Transfers /\ Mined(i) \in SUBSET Transfers /\ {t} \subseteq Mined(i)
      BY <1>6 DEF ConfirmPayment, Mined
    <3> QED
      BY <3>1, ConstantsAssumption
  <2>2. PaidJob("confirmPayment", i, "PAID", AmountOf({t}))
    BY <1>6, <2>1, RequiredIsOwed DEF ConfirmPayment, PaidJob, IInv, TypeOK
  <2>3. /\ row' \in [Transfers -> {"none", "CONFIRMING", "CONFIRMED"}]
        /\ \A u \in Transfers : row'[u] # "none" => mined[u] # "no"
        /\ deposit' \in [Invoices -> BOOLEAN]
    BY <1>6 DEF ConfirmPayment, IInv, TypeOK, DecisionsStayTrue
  <2>4. /\ Begin(s, Job("confirmPayment", i, t, "PAID", AmountOf({t})))
        /\ UNCHANGED <<direction, fields, mined, matched, books, failures>>
    BY <1>6 DEF ConfirmPayment
  <2> QED
    BY <2>1, <2>2, <2>3, <2>4, BeginKeeps
<1>7. CASE Expire(s, i)
  BY <1>7, QuietBeginKeeps DEF Expire
<1>8. CASE RequestCancel(s, i)
  <2>1. /\ status[i] = "BANK_RATE_LOCKED" => rateSet[i]
        /\ status[i] = "RIAL_RECEIVED" => rialIn[i]
    BY DEF IInv, RialLegInOrder
  <2> QED
    BY <1>8, <2>1, QuietBeginKeeps DEF RequestCancel
<1>9. CASE Cancel(s, i)
  <2>1. status[i] = "RIAL_RECEIVED" => rialIn[i]
    BY DEF IInv, RialLegInOrder
  <2> QED
    BY <1>9, <2>1, QuietBeginKeeps DEF Cancel
<1>10. CASE ConfirmRialReturn(s, i)
  <2>1. rialIn[i]
    BY <1>10 DEF ConfirmRialReturn, IInv, RialLegInOrder
  <2> QED
    BY <1>10, <2>1, QuietBeginKeeps DEF ConfirmRialReturn
<1> QED
  BY <1>1, <1>2, <1>3, <1>4, <1>5, <1>6, <1>7, <1>8, <1>9, <1>10 DEF Request

(* Nor does the watcher: what it credits is on the chain.                   *)
LEMMA SweepKeeps ==
  ASSUME IInv, NEW s \in Sweepers,
         (\E t \in Transfers : MatchInvoice(s, t)) \/ (\E i \in Invoices : ExpireStale(s, i))
  PROVE  IInv'
<1> s \in Workers
  BY DEF Workers
<1> USE DEF Ops, Statuses, RialJob
<1>1. ASSUME NEW t \in Transfers, MatchInvoice(s, t)
      PROVE  IInv'
  <2> DEFINE i == Pays[t]
             total == AmountOf(Confirmed(i))
             to == IF total < Required(i) THEN "PAYMENT_PENDING" ELSE "PAID"
  <2>1. i \in Invoices
    BY ConstantsAssumption
  <2>2. total \in Nat /\ total <= AmountOf(Mined(i))
    <3>1. /\ Confirmed(i) \in SUBSET Transfers /\ Mined(i) \in SUBSET Transfers
          /\ Confirmed(i) \subseteq Mined(i)
      BY DEF Confirmed, Mined, IInv, DecisionsStayTrue
    <3> QED
      BY <3>1, ConstantsAssumption
  <2>3. PaidJob("match", i, to, total)
    <3>1. Required(i) \in Nat /\ Required(i) = Owed(i)
      BY <2>1, RequiredIsOwed DEF IInv, TypeOK
    <3> QED
      BY <2>2, <3>1 DEF PaidJob
  <2>4. /\ deposit' \in [Invoices -> BOOLEAN]
        /\ row' \in [Transfers -> {"none", "CONFIRMING", "CONFIRMED"}]
        /\ \A u \in Transfers : row'[u] # "none" => mined[u] # "no"
        /\ UNCHANGED <<direction, fields, mined, matched, books, failures>>
    BY <1>1 DEF MatchInvoice, IInv, TypeOK, DecisionsStayTrue, chain
  <2>5. Begin(s, Job("match", i, t, to, total))
    BY <1>1 DEF MatchInvoice
  <2>6. to \in Statuses /\ RialJob("match", i, to)
    OBVIOUS
  <2> HIDE DEF i, total, to
  <2> QED
    BY <2>1, <2>2, <2>3, <2>4, <2>5, <2>6, BeginKeeps
<1>2. ASSUME NEW i \in Invoices, ExpireStale(s, i)
      PROVE  IInv'
  BY <1>2, QuietBeginKeeps DEF ExpireStale
<1> QED
  BY <1>1, <1>2

-----------------------------------------------------------------------------
(* A handler's write, made by id over whatever the record has become.       *)
LEMMA CommitKeeps ==
  ASSUME IInv, NEW s \in Workers, Commit(s)
  PROVE  IInv'
<1> DEFINE w == work[s]
           i == w.inv
<1>1. /\ w \in Jobs /\ w # Idle /\ w.at = "commit" /\ i \in Invoices
      /\ RialJob(w.op, i, w.to) /\ PaidJob(w.op, i, w.to, w.amount)
  BY DEF Commit, IInv, TypeOK, DecisionsStayTrue
<1>2. /\ status' = [status EXCEPT ![i] = w.to]
      /\ window' = [window EXCEPT ![i] = IF w.op = "lockRate" THEN "open" ELSE @]
      /\ shown' = [shown EXCEPT ![i] = @ \/ w.op = "approve"]
      /\ rateSet' = [rateSet EXCEPT ![i] = @ \/ w.op = "lockRate"]
      /\ rialIn' = [rialIn EXCEPT ![i] = @ \/ w.op = "confirmRialDeposit"]
      /\ rialBack' = [rialBack EXCEPT ![i] = (@ \/ w.op = "confirmRialReturn")
                                               /\ ~(w.op = "cancel" /\ w.to = "CANCELLED")]
      /\ cancelAsked' = [cancelAsked EXCEPT ![i] = @ \/ w.op = "requestCancel"]
      /\ received' = [received EXCEPT ![i] = IF w.op \in {"confirmPayment", "match"} THEN w.amount ELSE @]
      /\ pending' = [pending EXCEPT ![i] = IF w.op = "match" THEN 0 ELSE @]
      /\ matched' = [t \in Transfers |-> matched[t] \/ (w.op = "match" /\ w.to = "PAID" /\ t = w.tx)]
      /\ work' = [work EXCEPT ![s] = IF w.to = "PAID" THEN [w EXCEPT !.at = "check"] ELSE Idle]
      /\ UNCHANGED <<direction, deposit, mined, row, posted, payout, failures>>
  BY DEF Commit, books
<1> DEFINE next == IF w.to = "PAID" THEN [w EXCEPT !.at = "check"] ELSE Idle
<1>3. /\ next \in Jobs
      /\ next # Idle => next.op = w.op /\ next.inv = i /\ next.to = w.to
                        /\ next.amount = w.amount /\ next.at = "check"
  BY <1>1, IdleIsJob DEF Jobs
<1>4. work' = [work EXCEPT ![s] = next]
  BY <1>2
<1> HIDE DEF w, i, next
<1>5. TypeOK'
  <2>1. w.to \in Statuses /\ w.amount \in Nat
    BY <1>1 DEF Jobs
  <2>2. /\ status' \in [Invoices -> Statuses]
        /\ window' \in [Invoices -> Windows]
        /\ shown' \in [Invoices -> BOOLEAN]
        /\ rateSet' \in [Invoices -> BOOLEAN]
        /\ rialIn' \in [Invoices -> BOOLEAN]
        /\ rialBack' \in [Invoices -> BOOLEAN]
        /\ cancelAsked' \in [Invoices -> BOOLEAN]
    BY <1>1, <1>2, <2>1 DEF IInv, TypeOK, Windows
  <2>3. /\ received' \in [Invoices -> Nat]
        /\ pending' \in [Invoices -> Nat]
        /\ matched' \in [Transfers -> BOOLEAN]
    BY <1>1, <1>2, <2>1 DEF IInv, TypeOK
  <2>4. work' \in [Workers -> Jobs]
    BY <1>3, <1>4 DEF IInv, TypeOK
  <2> QED
    BY <1>2, <2>2, <2>3, <2>4 DEF IInv, TypeOK
<1>6. RialLegInOrder'
  BY <1>1, <1>2 DEF IInv, TypeOK, RialLegInOrder, RialJob
<1>7. \A k \in Invoices : (rateSet[k] => rateSet'[k]) /\ (rialIn[k] => rialIn'[k])
  BY <1>1, <1>2 DEF IInv, TypeOK
<1>8. PaidIsBacked'
  <2> SUFFICES ASSUME NEW k \in Invoices, status'[k] = "PAID"
               PROVE  received'[k] >= Owed(k) /\ received'[k] <= AmountOf(Mined(k))
    <3>1. \A j : Owed(j)' = Owed(j) /\ Mined(j)' = Mined(j)
      BY <1>2 DEF Owed, Mined
    <3> QED
      BY <3>1 DEF PaidIsBacked
  <2>1. CASE k = i
    BY <1>1, <1>2, <2>1 DEF IInv, TypeOK, PaidJob
  <2>2. CASE k # i
    BY <1>1, <1>2, <2>2 DEF IInv, TypeOK, PaidIsBacked
  <2> QED
    BY <2>1, <2>2
<1>9. PayoutAfterBooks'
  BY <1>2 DEF IInv, PayoutAfterBooks
<1>10. DecisionsStayTrue'
  <2> SUFFICES ASSUME NEW r \in Workers, work'[r] # Idle
               PROVE  /\ work'[r].inv \in Invoices
                      /\ RialJob(work[r].op, work[r].inv, work[r].to)'
                      /\ PaidJob(work[r].op, work[r].inv, work[r].to, work[r].amount)'
                      /\ work'[r].at = "payout" => posted'[work'[r].inv] > 0
    BY <1>2 DEF DecisionsStayTrue, IInv
  <2>1. /\ work[r] \in Jobs /\ work[r] # Idle /\ work[r].inv \in Invoices
        /\ RialJob(work[r].op, work[r].inv, work[r].to)
        /\ PaidJob(work[r].op, work[r].inv, work[r].to, work[r].amount)
        /\ work[r].at = "payout" => posted[work[r].inv] > 0
    BY <1>1, <1>3, <1>4 DEF IInv, TypeOK, DecisionsStayTrue, w
  <2>2. /\ work'[r].op = work[r].op /\ work'[r].inv = work[r].inv /\ work'[r].to = work[r].to
        /\ work'[r].amount = work[r].amount
        /\ work'[r].at = "payout" => work[r].at = "payout"
    BY <1>3, <1>4 DEF IInv, TypeOK, w, i
  <2>3. work[r].amount \in Nat
    BY <2>1 DEF Jobs
  <2>4. /\ RialJob(work[r].op, work[r].inv, work[r].to)'
        /\ PaidJob(work[r].op, work[r].inv, work[r].to, work[r].amount)'
    <3>1. RialJob(work[r].op, work[r].inv, work[r].to)'
      BY <1>2, <1>7, <2>1, <2>2 DEF RialJob
    <3>2. \A k : Owed(k)' = Owed(k) /\ Mined(k)' = Mined(k)
      BY <1>2 DEF Owed, Mined
    <3>3. PaidJob(work[r].op, work[r].inv, work[r].to, work[r].amount)'
      BY <2>1, <2>2, <3>2 DEF PaidJob
    <3> QED
      BY <3>1, <3>3
  <2> QED
    BY <1>2, <2>1, <2>2, <2>4
<1> QED
  BY <1>5, <1>6, <1>8, <1>9, <1>10 DEF IInv

(* A step that leaves every record and decision alone, moves one worker on  *)
(* (or lets it go) and may add a booking or a payout.                       *)
LEMMA AdvanceKeeps ==
  ASSUME IInv, NEW s \in Workers, work[s] # Idle, NEW next \in Jobs,
         work' = [work EXCEPT ![s] = next],
         next # Idle => /\ next.op = work[s].op /\ next.inv = work[s].inv /\ next.to = work[s].to
                        /\ next.amount = work[s].amount
                        /\ next.at = "payout" => posted'[work[s].inv] > 0,
         posted' \in [Invoices -> Nat], payout' \in [Invoices -> Nat], failures' \in Nat,
         \A i \in Invoices : posted[i] > 0 => posted'[i] > 0,
         PayoutAfterBooks',
         UNCHANGED <<direction, deposit, fields, chain>>
  PROVE  IInv'
<1>1. TypeOK'
  BY DEF IInv, TypeOK, fields, chain
<1>2. \A j : Owed(j)' = Owed(j) /\ Mined(j)' = Mined(j)
  BY DEF Owed, Mined, chain
<1>3. RialLegInOrder' /\ PaidIsBacked'
  BY <1>2 DEF IInv, RialLegInOrder, PaidIsBacked, fields
<1>4. DecisionsStayTrue'
  <2>1. \A t \in Transfers : row'[t] # "none" => mined'[t] # "no"
    BY DEF IInv, DecisionsStayTrue, chain
  <2> SUFFICES ASSUME NEW r \in Workers, work'[r] # Idle
               PROVE  /\ work'[r].inv \in Invoices
                      /\ RialJob(work[r].op, work[r].inv, work[r].to)'
                      /\ PaidJob(work[r].op, work[r].inv, work[r].to, work[r].amount)'
                      /\ work'[r].at = "payout" => posted'[work'[r].inv] > 0
    BY <2>1 DEF DecisionsStayTrue
  <2>2. /\ work[r] \in Jobs /\ work[r] # Idle /\ work[r].inv \in Invoices
        /\ RialJob(work[r].op, work[r].inv, work[r].to)
        /\ PaidJob(work[r].op, work[r].inv, work[r].to, work[r].amount)
        /\ work[r].at = "payout" => posted[work[r].inv] > 0
    BY DEF IInv, TypeOK, DecisionsStayTrue
  <2>3. /\ work'[r].op = work[r].op /\ work'[r].inv = work[r].inv /\ work'[r].to = work[r].to
        /\ work'[r].amount = work[r].amount
        /\ work'[r].at = "payout" => work[r].at = "payout" \/ posted'[work[r].inv] > 0
    BY DEF IInv, TypeOK
  <2>4. RialJob(work[r].op, work[r].inv, work[r].to)'
    BY <2>2, <2>3 DEF RialJob, fields
  <2>5. PaidJob(work[r].op, work[r].inv, work[r].to, work[r].amount)'
    BY <1>2, <2>2, <2>3 DEF PaidJob
  <2> QED
    BY <2>2, <2>3, <2>4, <2>5
<1> QED
  BY <1>1, <1>3, <1>4 DEF IInv

(* Booking, paying out and dying half-way are such steps.                   *)
LEMMA ContinueKeeps ==
  ASSUME IInv, NEW s \in Workers, Continue(s) \/ Fail(s)
  PROVE  IInv'
<1>1. /\ work \in [Workers -> Jobs] /\ work[s] \in Jobs
      /\ posted \in [Invoices -> Nat] /\ payout \in [Invoices -> Nat] /\ failures \in Nat
      /\ PayoutAfterBooks
      /\ work[s] # Idle => work[s].inv \in Invoices
      /\ work[s] # Idle /\ work[s].at = "payout" => posted[work[s].inv] > 0
  BY DEF IInv, TypeOK, DecisionsStayTrue
<1>2. CASE Commit(s)
  BY <1>2, CommitKeeps
<1>3. CASE CheckPosted(s)
  <2> DEFINE next == [work[s] EXCEPT !.at = IF posted[work[s].inv] > 0 THEN "payout" ELSE "post"]
  <2>1. /\ next \in Jobs
        /\ next.op = work[s].op /\ next.inv = work[s].inv /\ next.to = work[s].to
        /\ next.amount = work[s].amount
        /\ next.at = "payout" => posted[work[s].inv] > 0
    BY <1>1 DEF Jobs
  <2>2. work' = [work EXCEPT ![s] = next]
    BY <1>1, <1>3 DEF CheckPosted
  <2>3. work[s] # Idle /\ UNCHANGED <<direction, deposit, fields, chain, posted, payout, failures>>
    BY <1>3 DEF CheckPosted, books
  <2>4. PayoutAfterBooks'
    BY <1>1, <2>3 DEF PayoutAfterBooks
  <2> HIDE DEF next
  <2> QED
    BY <1>1, <2>1, <2>2, <2>3, <2>4, AdvanceKeeps
<1>4. CASE PostInvoicePaid(s)
  <2> DEFINE next == [work[s] EXCEPT !.at = "payout"]
  <2>1. /\ next \in Jobs
        /\ next.op = work[s].op /\ next.inv = work[s].inv /\ next.to = work[s].to
        /\ next.amount = work[s].amount
    BY <1>1 DEF Jobs
  <2>2. work' = [work EXCEPT ![s] = next]
    BY <1>1, <1>4 DEF PostInvoicePaid
  <2>3. /\ work[s] # Idle
        /\ posted' = [posted EXCEPT ![work[s].inv] = @ + 1]
        /\ UNCHANGED <<direction, deposit, fields, chain, payout, failures>>
    BY <1>4 DEF PostInvoicePaid
  <2>4. /\ posted' \in [Invoices -> Nat]
        /\ \A i \in Invoices : posted[i] > 0 => posted'[i] > 0
        /\ posted'[work[s].inv] > 0
    BY <1>1, <2>3
  <2>5. PayoutAfterBooks'
    BY <1>1, <2>3, <2>4 DEF PayoutAfterBooks
  <2> HIDE DEF next
  <2> QED
    BY <1>1, <2>1, <2>2, <2>3, <2>4, <2>5, AdvanceKeeps
<1>5. CASE RaisePayout(s)
  <2>1. /\ work[s] # Idle /\ work[s].at = "payout" /\ work' = [work EXCEPT ![s] = Idle]
        /\ payout' = [payout EXCEPT ![work[s].inv] =
                        IF direction[work[s].inv] = "EXPORT" /\ @ = 0 THEN 1 ELSE @]
        /\ UNCHANGED <<direction, deposit, fields, chain, posted, failures>>
    BY <1>5 DEF RaisePayout
  <2>2. payout' \in [Invoices -> Nat]
    BY <1>1, <2>1
  <2>3. PayoutAfterBooks'
    BY <1>1, <2>1 DEF PayoutAfterBooks
  <2> QED
    BY <1>1, <2>1, <2>2, <2>3, IdleIsJob, AdvanceKeeps
<1>6. CASE Fail(s)
  <2>1. /\ work[s] # Idle /\ work' = [work EXCEPT ![s] = Idle] /\ failures' = failures + 1
        /\ UNCHANGED <<direction, deposit, fields, chain, posted, payout>>
    BY <1>6 DEF Fail, books
  <2>2. PayoutAfterBooks' /\ failures' \in Nat
    BY <1>1, <2>1 DEF PayoutAfterBooks
  <2> QED
    BY <1>1, <2>1, <2>2, IdleIsJob, AdvanceKeeps
<1> QED
  BY <1>2, <1>3, <1>4, <1>5, <1>6 DEF Continue

-----------------------------------------------------------------------------
(* Payers, the chain, the clock and what the watcher notes of the chain:    *)
(* none takes back what a decision rests on.                                *)
LEMMA WorldKeeps ==
  ASSUME IInv, TypeOK',
         UNCHANGED <<direction, status, rateSet, rialIn, rialBack, received, books, work>>,
         \A t \in Transfers : mined[t] # "no" => mined'[t] # "no",
         \A t \in Transfers : row'[t] # "none" => mined'[t] # "no"
  PROVE  IInv'
<1>1. \A i \in Invoices : /\ Owed(i)' = Owed(i) /\ Owed(i) \in Nat
                          /\ AmountOf(Mined(i)) \in Nat /\ AmountOf(Mined(i)') \in Nat
                          /\ AmountOf(Mined(i)) <= AmountOf(Mined(i)')
  BY MinedGrows, RequiredIsOwed DEF IInv, TypeOK, Owed
<1>2. RialLegInOrder' /\ PayoutAfterBooks'
  BY DEF IInv, RialLegInOrder, PayoutAfterBooks, books
<1>3. PaidIsBacked'
  <2> SUFFICES ASSUME NEW i \in Invoices, status[i] = "PAID"
               PROVE  received[i] >= Owed(i) /\ received[i] <= AmountOf(Mined(i)')
    BY <1>1 DEF PaidIsBacked
  <2>1. received[i] >= Owed(i) /\ received[i] <= AmountOf(Mined(i)) /\ received[i] \in Nat
    BY DEF IInv, PaidIsBacked, TypeOK
  <2> QED
    BY <1>1, <2>1
<1>4. DecisionsStayTrue'
  <2> SUFFICES ASSUME NEW r \in Workers, work[r] # Idle
               PROVE  /\ work[r].inv \in Invoices
                      /\ RialJob(work[r].op, work[r].inv, work[r].to)'
                      /\ PaidJob(work[r].op, work[r].inv, work[r].to, work[r].amount)'
                      /\ work[r].at = "payout" => posted'[work[r].inv] > 0
    BY DEF DecisionsStayTrue
  <2>1. /\ work[r].amount \in Nat /\ work[r].inv \in Invoices
        /\ RialJob(work[r].op, work[r].inv, work[r].to)
        /\ PaidJob(work[r].op, work[r].inv, work[r].to, work[r].amount)
        /\ work[r].at = "payout" => posted[work[r].inv] > 0
    BY DEF IInv, TypeOK, DecisionsStayTrue, Jobs
  <2>2. RialJob(work[r].op, work[r].inv, work[r].to)'
    BY <2>1 DEF RialJob
  <2>3. PaidJob(work[r].op, work[r].inv, work[r].to, work[r].amount)'
    BY <1>1, <2>1 DEF PaidJob
  <2> QED
    BY <2>1, <2>2, <2>3 DEF books
<1> QED
  BY <1>2, <1>3, <1>4 DEF IInv

LEMMA ChainAndClockKeep ==
  ASSUME IInv,
         \/ \E t \in Transfers : SeeTransfer(t) \/ Transfer(t) \/ Finalize(t)
         \/ \E i \in Invoices : Lapse(i)
  PROVE  IInv'
<1>1. ASSUME NEW t \in Transfers, SeeTransfer(t)
      PROVE  IInv'
  <2>1. AmountOf(Confirming(Pays[t]) \cup {t}) \in Nat
    <3>1. (Confirming(Pays[t]) \cup {t}) \in SUBSET Transfers
      BY DEF Confirming
    <3> QED
      BY <3>1, ConstantsAssumption
  <2>2. pending' \in [Invoices -> Nat]
    BY <1>1, <2>1 DEF SeeTransfer, IInv, TypeOK
  <2>3. /\ row' \in [Transfers -> {"none", "CONFIRMING", "CONFIRMED"}]
        /\ \A u \in Transfers : row'[u] # "none" => mined'[u] # "no"
    BY <1>1 DEF SeeTransfer, IInv, TypeOK, DecisionsStayTrue
  <2>4. UNCHANGED <<direction, status, window, deposit, shown, rateSet, rialIn, rialBack, cancelAsked,
                    received, mined, matched, posted, payout, work, failures>>
    BY <1>1 DEF SeeTransfer, books
  <2>5. TypeOK'
    BY <2>2, <2>3, <2>4 DEF IInv, TypeOK
  <2> QED
    BY <2>3, <2>4, <2>5, WorldKeeps DEF books
<1>2. ASSUME NEW t \in Transfers, Transfer(t) \/ Finalize(t)
      PROVE  IInv'
  <2>1. /\ mined' \in [Transfers -> {"no", "yes", "final"}]
        /\ \A u \in Transfers : mined[u] # "no" => mined'[u] # "no"
        /\ UNCHANGED <<direction, deposit, fields, row, matched, books, work, failures>>
    BY <1>2 DEF Transfer, Finalize, IInv, TypeOK
  <2>2. TypeOK'
    BY <2>1 DEF IInv, TypeOK, fields, books
  <2>3. \A u \in Transfers : row'[u] # "none" => mined'[u] # "no"
    BY <2>1 DEF IInv, DecisionsStayTrue
  <2> QED
    BY <2>1, <2>2, <2>3, WorldKeeps DEF fields
<1>3. ASSUME NEW i \in Invoices, Lapse(i)
      PROVE  IInv'
  <2>1. /\ window' \in [Invoices -> Windows]
        /\ UNCHANGED <<direction, status, deposit, shown, rateSet, rialIn, rialBack, cancelAsked,
                       received, pending, mined, row, matched, posted, payout, work, failures>>
    BY <1>3 DEF Lapse, IInv, TypeOK, Windows, chain, books
  <2>2. TypeOK'
    BY <2>1 DEF IInv, TypeOK
  <2>3. \A u \in Transfers : row'[u] # "none" => mined'[u] # "no"
    BY <2>1 DEF IInv, DecisionsStayTrue
  <2> QED
    BY <2>1, <2>2, <2>3, WorldKeeps DEF books
<1> QED
  BY <1>1, <1>2, <1>3

-----------------------------------------------------------------------------
LEMMA InitHolds == Init => IInv
<1> SUFFICES ASSUME Init PROVE IInv
  OBVIOUS
<1>1. TypeOK
  BY IdleIsJob, ConstantsAssumption DEF Init, TypeOK, Directions, Statuses, Windows
<1>2. DecisionsStayTrue /\ RialLegInOrder /\ PaidIsBacked /\ PayoutAfterBooks
  BY DEF Init, DecisionsStayTrue, RialLegInOrder, PaidIsBacked, PayoutAfterBooks
<1> QED
  BY <1>1, <1>2 DEF IInv

LEMMA StepKeeps == IInv /\ [Next]_vars => IInv'
<1> SUFFICES ASSUME IInv, [Next]_vars PROVE IInv'
  OBVIOUS
<1>1. CASE UNCHANGED vars
  <2>1. /\ TypeOK'
        /\ UNCHANGED <<direction, status, rateSet, rialIn, rialBack, received, books, work, mined, row>>
    BY <1>1 DEF IInv, TypeOK, vars, fields, chain, books
  <2>2. \A t \in Transfers : row[t] # "none" => mined[t] # "no"
    BY DEF IInv, DecisionsStayTrue
  <2> QED
    BY <2>1, <2>2, WorldKeeps
<1>2. CASE \E s \in Slots, i \in Invoices : Request(s, i)
  BY <1>2, RequestKeeps
<1>3. CASE \/ \E s \in Sweepers, t \in Transfers : MatchInvoice(s, t)
           \/ \E s \in Sweepers, i \in Invoices : ExpireStale(s, i)
  BY <1>3, SweepKeeps
<1>4. CASE \E s \in Workers : Continue(s) \/ Fail(s)
  BY <1>4, ContinueKeeps
<1>5. CASE \/ \E t \in Transfers : SeeTransfer(t) \/ Transfer(t) \/ Finalize(t)
           \/ \E i \in Invoices : Lapse(i)
  BY <1>5, ChainAndClockKeep
<1> QED
  BY <1>1, <1>2, <1>3, <1>4, <1>5 DEF Next

(* The inductive invariant holds, whatever overlaps and dies.               *)
THEOREM InvariantHolds == Spec => []IInv
BY InitHolds, StepKeeps, PTL DEF Spec

(* Every variable keeps its type.                                           *)
THEOREM TypeCorrect == Spec => []TypeOK
BY InvariantHolds, PTL DEF IInv

(* What a handler read and acts on late is still true where it matters.     *)
THEOREM DecisionsStayTrueAlways == Spec => []DecisionsStayTrue
BY InvariantHolds, PTL DEF IInv

(* Rial is recorded in only against a locked rate of an import, and back    *)
(* only after it came in, however handlers overlap.                         *)
THEOREM RialLegInOrderAlways == Spec => []RialLegInOrder
BY InvariantHolds, PTL DEF IInv

(* PAID always stands on transfers at the invoice's own address that cover  *)
(* it in full.                                                              *)
THEOREM PaidIsBackedAlways == Spec => []PaidIsBacked
BY InvariantHolds, PTL DEF IInv

(* No payout precedes the booking, and none is raised twice.                *)
THEOREM PayoutAfterBooksAlways == Spec => []PayoutAfterBooks
BY InvariantHolds, PTL DEF IInv
-----------------------------------------------------------------------------
(* Handlers of one invoice that take turns to write it.  As long as they    *)
(* do, nothing moves an invoice between the read a handler decided from and *)
(* its write, so the guard it passed still holds; and what it writes is     *)
(* then one of the moves InvoicePromise allows.  Only the write itself      *)
(* needs the hypothesis, and only of the state it is made in.               *)

(* What a job about to be written was decided from, and decided.            *)
Guarded(op, i, to) ==
  /\ op # "idle"
  /\ op = "approve" => status[i] = "PENDING" /\ to = "APPROVED"
  /\ op = "reject" => status[i] \in {"PENDING", "APPROVED"} /\ to = "REJECTED"
  /\ op = "lockRate" => status[i] = "APPROVED" /\ to = "BANK_RATE_LOCKED"
  /\ op = "confirmRialDeposit" => status[i] = "BANK_RATE_LOCKED" /\ to = "RIAL_RECEIVED"
  /\ op = "startPayment" => status[i] \in {"APPROVED", "RIAL_RECEIVED"} /\ to = "PAYMENT_PENDING"
  /\ op = "confirmPayment" =>
       status[i] \in {"APPROVED", "RIAL_RECEIVED", "PAYMENT_PENDING"} /\ to = "PAID"
  /\ op \in {"expire", "expireStale"} =>
       status[i] \in {"PENDING", "APPROVED", "PAYMENT_PENDING"} /\ to = "EXPIRED"
  /\ op = "requestCancel" => status[i] \in {"BANK_RATE_LOCKED", "RIAL_RECEIVED"} /\ to = status[i]
  /\ op = "cancel" => \/ status[i] = "BANK_RATE_LOCKED" /\ to = "CANCELLED"
                      \/ status[i] = "RIAL_RECEIVED" /\ to = "CANCELLING"
  /\ op = "confirmRialReturn" => status[i] = "CANCELLING" /\ to = "CANCELLED"
  /\ op = "match" => status[i] \notin Closed \cup {"PENDING"} /\ to \in {"PAYMENT_PENDING", "PAID"}

GuardsStand ==
  \A s \in Workers : work[s] # Idle /\ work[s].at = "commit" =>
    Guarded(work[s].op, work[s].inv, work[s].to)

(* Where the importer's rial can be, by status.                             *)
RialByStatus ==
  \A i \in Invoices :
    /\ rialIn[i] => status[i] \notin {"PENDING", "APPROVED", "BANK_RATE_LOCKED", "REJECTED"}
    /\ rialBack[i] => status[i] = "CANCELLED"
    /\ status[i] = "CANCELLED" /\ rialIn[i] => rialBack[i]

(* Nobody can have paid an invoice still in review.                         *)
PaidOnceShown ==
  /\ \A i \in Invoices : status[i] = "PENDING" => ~shown[i]
  /\ \A t \in Transfers : mined[t] # "no" => shown[Pays[t]]

TurnInv == GuardsStand /\ RialByStatus /\ PaidOnceShown

(* A handler begins with its guard true of what it read.                    *)
LEMMA BeginInTurn ==
  ASSUME IInv, TurnInv, NEW s \in Workers,
         NEW op, NEW i, NEW t, NEW to, NEW n,
         Begin(s, Job(op, i, t, to, n)), Guarded(op, i, to),
         UNCHANGED <<fields, mined>>
  PROVE  TurnInv'
<1>1. work'[s] = Job(op, i, t, to, n)
  BY DEF Begin, IInv, TypeOK
<1>2. work'[s].op = op /\ work'[s].inv = i /\ work'[s].to = to
  BY <1>1 DEF Job
<1>3. Guarded(op, i, to)'
  BY DEF Guarded, fields
<1>4. GuardsStand'
  <2> SUFFICES ASSUME NEW r \in Workers, work'[r] # Idle, work'[r].at = "commit"
               PROVE  Guarded(work[r].op, work[r].inv, work[r].to)'
    BY DEF GuardsStand
  <2>1. CASE r = s
    BY <1>2, <1>3, <2>1
  <2>2. CASE r # s
    <3>1. work'[r] = work[r]
      BY <2>2 DEF Begin, IInv, TypeOK
    <3>2. Guarded(work[r].op, work[r].inv, work[r].to)
      BY <3>1 DEF TurnInv, GuardsStand
    <3> QED BY <3>1, <3>2 DEF Guarded, fields
  <2> QED BY <2>1, <2>2
<1>5. RialByStatus' /\ PaidOnceShown'
  BY DEF TurnInv, RialByStatus, PaidOnceShown, fields
<1> QED BY <1>4, <1>5 DEF TurnInv

LEMMA RequestInTurn ==
  ASSUME IInv, TurnInv, NEW s \in Slots, NEW i \in Invoices, Request(s, i)
  PROVE  TurnInv'
<1> s \in Workers
  BY DEF Workers
<1>1. CASE Approve(s, i)
  BY <1>1, BeginInTurn DEF Approve, Guarded, chain
<1>2. CASE Reject(s, i)
  BY <1>2, BeginInTurn DEF Reject, Guarded, chain
<1>3. CASE LockRate(s, i)
  BY <1>3, BeginInTurn DEF LockRate, Guarded, chain
<1>4. CASE ConfirmRialDeposit(s, i)
  BY <1>4, BeginInTurn DEF ConfirmRialDeposit, Guarded, chain
<1>5. CASE StartPayment(s, i)
  BY <1>5, BeginInTurn DEF StartPayment, Guarded, chain
<1>6. ASSUME NEW t \in Transfers, ConfirmPayment(s, i, t)
      PROVE  TurnInv'
  BY <1>6, BeginInTurn DEF ConfirmPayment, Guarded
<1>7. CASE Expire(s, i)
  BY <1>7, BeginInTurn DEF Expire, Guarded, chain
<1>8. CASE RequestCancel(s, i)
  BY <1>8, BeginInTurn DEF RequestCancel, Guarded, chain
<1>9. CASE Cancel(s, i)
  <2>1. PICK to : /\ to = IF status[i] = "RIAL_RECEIVED" THEN "CANCELLING" ELSE "CANCELLED"
                  /\ Begin(s, Job("cancel", i, None, to, 0))
    BY <1>9 DEF Cancel
  <2>2. Guarded("cancel", i, to)
    BY <1>9, <2>1 DEF Cancel, Guarded
  <2> QED BY <1>9, <2>1, <2>2, BeginInTurn DEF Cancel, chain
<1>10. CASE ConfirmRialReturn(s, i)
  BY <1>10, BeginInTurn DEF ConfirmRialReturn, Guarded, chain
<1> QED BY <1>1, <1>2, <1>3, <1>4, <1>5, <1>6, <1>7, <1>8, <1>9, <1>10 DEF Request

LEMMA SweepInTurn ==
  ASSUME IInv, TurnInv, NEW s \in Sweepers,
         (\E t \in Transfers : MatchInvoice(s, t)) \/ (\E i \in Invoices : ExpireStale(s, i))
  PROVE  TurnInv'
<1> s \in Workers
  BY DEF Workers
<1>1. ASSUME NEW t \in Transfers, MatchInvoice(s, t)
      PROVE  TurnInv'
  <2>1. PICK to \in {"PAYMENT_PENDING", "PAID"} :
          Begin(s, Job("match", Pays[t], t, to, AmountOf(Confirmed(Pays[t]))))
    BY <1>1 DEF MatchInvoice
  <2>2. Pays[t] \in Invoices /\ row[t] = "CONFIRMED" /\ status[Pays[t]] \notin Closed
    BY <1>1, ConstantsAssumption DEF MatchInvoice
  <2>3. shown[Pays[t]]
    BY <2>2 DEF IInv, DecisionsStayTrue, TurnInv, PaidOnceShown
  <2>4. Guarded("match", Pays[t], to)
    BY <2>2, <2>3 DEF Guarded, TurnInv, PaidOnceShown
  <2> QED BY <1>1, <2>1, <2>4, BeginInTurn DEF MatchInvoice, chain
<1>2. ASSUME NEW i \in Invoices, ExpireStale(s, i)
      PROVE  TurnInv'
  <2>1. status[i] \in {"PENDING", "APPROVED", "PAYMENT_PENDING"}
    BY <1>2 DEF ExpireStale, Stale, Expirable
  <2> QED BY <1>2, <2>1, BeginInTurn DEF ExpireStale, Guarded, chain
<1> QED BY <1>1, <1>2

(* What one handler's write does to the invoice it is for, and to no other. *)
LEMMA CommitWrites ==
  ASSUME IInv, TurnInv, NEW s \in Workers, Commit(s)
  PROVE  LET w == work[s]
             i == w.inv
         IN  /\ w \in Jobs /\ i \in Invoices /\ Guarded(w.op, i, w.to)
             /\ status'[i] = w.to
             /\ rialIn'[i] <=> (rialIn[i] \/ w.op = "confirmRialDeposit")
             /\ rialBack'[i] <=> /\ rialBack[i] \/ w.op = "confirmRialReturn"
                                 /\ ~(w.op = "cancel" /\ w.to = "CANCELLED")
             /\ \A k \in Invoices : k # i => /\ status'[k] = status[k]
                                             /\ rialIn'[k] = rialIn[k]
                                             /\ rialBack'[k] = rialBack[k]
             /\ \A k \in Invoices : shown[k] => shown'[k]
             /\ work'[s] = Idle \/ work'[s].at = "check"
             /\ mined' = mined
<1> DEFINE w == work[s]
           i == w.inv
<1>1. /\ w \in Jobs /\ w # Idle /\ w.at = "commit" /\ i \in Invoices /\ Guarded(w.op, i, w.to)
  BY DEF Commit, IInv, TypeOK, DecisionsStayTrue, TurnInv, GuardsStand
<1>2. /\ status' = [status EXCEPT ![i] = w.to]
      /\ shown' = [shown EXCEPT ![i] = @ \/ w.op = "approve"]
      /\ rialIn' = [rialIn EXCEPT ![i] = @ \/ w.op = "confirmRialDeposit"]
      /\ rialBack' = [rialBack EXCEPT ![i] = (@ \/ w.op = "confirmRialReturn")
                                               /\ ~(w.op = "cancel" /\ w.to = "CANCELLED")]
      /\ work' = [work EXCEPT ![s] = IF w.to = "PAID" THEN [w EXCEPT !.at = "check"] ELSE Idle]
      /\ mined' = mined
  BY DEF Commit
<1>3. work'[s] = Idle \/ work'[s].at = "check"
  BY <1>1, <1>2 DEF IInv, TypeOK, Jobs
<1> HIDE DEF w, i
<1>4. /\ status'[i] = w.to
      /\ rialIn'[i] <=> (rialIn[i] \/ w.op = "confirmRialDeposit")
      /\ rialBack'[i] <=> /\ rialBack[i] \/ w.op = "confirmRialReturn"
                          /\ ~(w.op = "cancel" /\ w.to = "CANCELLED")
      /\ \A k \in Invoices : k # i => /\ status'[k] = status[k]
                                      /\ rialIn'[k] = rialIn[k]
                                      /\ rialBack'[k] = rialBack[k]
      /\ \A k \in Invoices : shown[k] => shown'[k]
  BY <1>1, <1>2 DEF IInv, TypeOK
<1> QED BY <1>1, <1>2, <1>3, <1>4 DEF w, i

LEMMA CommitInTurn ==
  ASSUME IInv, TurnInv, OneAtATime, NEW s \in Workers, Commit(s)
  PROVE  TurnInv'
<1> DEFINE w == work[s]
           i == w.inv
<1>1. /\ w \in Jobs /\ i \in Invoices /\ Guarded(w.op, i, w.to)
      /\ status'[i] = w.to
      /\ rialIn'[i] <=> (rialIn[i] \/ w.op = "confirmRialDeposit")
      /\ rialBack'[i] <=> /\ rialBack[i] \/ w.op = "confirmRialReturn"
                          /\ ~(w.op = "cancel" /\ w.to = "CANCELLED")
      /\ \A k \in Invoices : k # i => /\ status'[k] = status[k]
                                      /\ rialIn'[k] = rialIn[k]
                                      /\ rialBack'[k] = rialBack[k]
      /\ \A k \in Invoices : shown[k] => shown'[k]
      /\ work'[s] = Idle \/ work'[s].at = "check"
      /\ mined' = mined
  BY CommitWrites
<1>2. PICK op \in Ops : op = w.op
  BY <1>1 DEF Jobs
<1>3. PICK to : to = w.to
  OBVIOUS
<1> HIDE DEF w, i
<1>4. Guarded(op, i, to)
  BY <1>1, <1>2, <1>3
<1>5. GuardsStand'
  <2> SUFFICES ASSUME NEW r \in Workers, work'[r] # Idle, work'[r].at = "commit"
               PROVE  Guarded(work[r].op, work[r].inv, work[r].to)'
    BY DEF GuardsStand
  <2>1. r # s /\ work'[r] = work[r]
    BY <1>1 DEF Commit, IInv, TypeOK
  <2>2. Guarded(work[r].op, work[r].inv, work[r].to)
    BY <2>1 DEF TurnInv, GuardsStand
  <2>3. work[r].inv \in Invoices /\ work[r].inv # i
    BY <2>1 DEF OneAtATime, Writing, Commit, IInv, DecisionsStayTrue, w, i
  <2>4. status'[work[r].inv] = status[work[r].inv]
    BY <1>1, <2>3
  <2> QED BY <2>1, <2>2, <2>4 DEF Guarded
<1>6. RialByStatus'
  <2> SUFFICES ASSUME NEW k \in Invoices
               PROVE  /\ rialIn'[k] => status'[k] \notin {"PENDING", "APPROVED", "BANK_RATE_LOCKED", "REJECTED"}
                      /\ rialBack'[k] => status'[k] = "CANCELLED"
                      /\ status'[k] = "CANCELLED" /\ rialIn'[k] => rialBack'[k]
    BY DEF RialByStatus
  <2>1. CASE k # i
    BY <1>1, <2>1 DEF TurnInv, RialByStatus
  <2>2. CASE k = i
    <3>1. /\ rialIn[i] => status[i] \notin {"PENDING", "APPROVED", "BANK_RATE_LOCKED", "REJECTED"}
          /\ rialBack[i] => status[i] = "CANCELLED"
      BY <1>1 DEF TurnInv, RialByStatus
    <3> QED BY <1>1, <1>2, <1>3, <1>4, <2>2, <3>1 DEF Guarded, Ops, Closed
  <2> QED BY <2>1, <2>2
<1>7. PaidOnceShown'
  <2>1. \A k \in Invoices : status'[k] = "PENDING" => ~shown'[k]
    <3>1. to # "PENDING"
      BY <1>2, <1>4 DEF Guarded, Ops
    <3>2. \A k \in Invoices : k # i => shown'[k] = shown[k]
      BY DEF Commit, IInv, TypeOK, w, i
    <3> QED BY <1>1, <1>3, <3>1, <3>2 DEF TurnInv, PaidOnceShown
  <2>2. \A t \in Transfers : mined'[t] # "no" => shown'[Pays[t]]
    BY <1>1, ConstantsAssumption DEF TurnInv, PaidOnceShown
  <2> QED BY <2>1, <2>2 DEF PaidOnceShown
<1> QED BY <1>5, <1>6, <1>7 DEF TurnInv

(* The rest of a job, the chain, the clock and the payers decide nothing.   *)
LEMMA OtherInTurn ==
  ASSUME IInv, TurnInv,
         \/ \E s \in Workers : CheckPosted(s) \/ PostInvoicePaid(s) \/ RaisePayout(s) \/ Fail(s)
         \/ \E t \in Transfers : SeeTransfer(t) \/ Transfer(t) \/ Finalize(t)
         \/ \E i \in Invoices : Lapse(i)
         \/ UNCHANGED vars
  PROVE  TurnInv'
<1>1. UNCHANGED <<status, shown, rialIn, rialBack>>
  BY DEF CheckPosted, PostInvoicePaid, RaisePayout, Fail, SeeTransfer, Transfer, Finalize, Lapse,
         vars, fields
<1>2. GuardsStand'
  <2>1. \A op, i, to : Guarded(op, i, to)' <=> Guarded(op, i, to)
    BY <1>1 DEF Guarded
  <2>2. CASE work' = work
    BY <2>1, <2>2 DEF TurnInv, GuardsStand
  <2>3. ASSUME NEW s \in Workers, CheckPosted(s) \/ PostInvoicePaid(s) \/ RaisePayout(s) \/ Fail(s)
        PROVE  GuardsStand'
    <3>1. work'[s] = Idle \/ work'[s].at # "commit"
      BY <2>3 DEF CheckPosted, PostInvoicePaid, RaisePayout, Fail, IInv, TypeOK, Jobs
    <3>2. \A r \in Workers : r # s => work'[r] = work[r]
      BY <2>3 DEF CheckPosted, PostInvoicePaid, RaisePayout, Fail, IInv, TypeOK
    <3> QED BY <2>1, <3>1, <3>2 DEF TurnInv, GuardsStand
  <2>4. \/ work' = work
        \/ \E s \in Workers : CheckPosted(s) \/ PostInvoicePaid(s) \/ RaisePayout(s) \/ Fail(s)
    BY DEF SeeTransfer, Transfer, Finalize, Lapse, vars
  <2> QED BY <2>2, <2>3, <2>4
<1>3. RialByStatus'
  BY <1>1 DEF TurnInv, RialByStatus
<1>4. PaidOnceShown'
  <2>1. \A t \in Transfers : mined'[t] # "no" => mined[t] # "no" \/ shown[Pays[t]]
    BY DEF CheckPosted, PostInvoicePaid, RaisePayout, Fail, SeeTransfer, Transfer, Finalize, Lapse,
           vars, chain, IInv, TypeOK
  <2> QED BY <1>1, <2>1 DEF TurnInv, PaidOnceShown
<1> QED BY <1>2, <1>3, <1>4 DEF TurnInv

LEMMA TurnInit == Init => TurnInv
BY DEF Init, TurnInv, GuardsStand, RialByStatus, PaidOnceShown

LEMMA TurnStep ==
  ASSUME IInv, TurnInv, OneAtATime, [Next]_vars
  PROVE  TurnInv'
BY RequestInTurn, SweepInTurn, CommitInTurn, OtherInTurn DEF Next, Continue

LEMMA TurnsKept == Spec /\ []OneAtATime => [](IInv /\ TurnInv)
<1>1. Init => IInv /\ TurnInv
  BY InitHolds, TurnInit
<1>2. IInv /\ TurnInv /\ OneAtATime /\ [Next]_vars => (IInv /\ TurnInv)'
  BY StepKeeps, TurnStep
<1> QED BY <1>1, <1>2, PTL DEF Spec

(* While an invoice is written by one handler at a time, a called-off file  *)
(* holds no rial: cancel shuts it outright only before the rial came in,    *)
(* and confirmRialReturn records the return with the status.                *)
THEOREM ClosedFileHoldsNoRialInTurn == Spec /\ []OneAtATime => []ClosedFileHoldsNoRial
<1>1. TurnInv => ClosedFileHoldsNoRial
  BY DEF TurnInv, RialByStatus, ClosedFileHoldsNoRial
<1> QED BY <1>1, TurnsKept, PTL

-----------------------------------------------------------------------------
(* The refinement.  Only a handler's write moves the file or the rial, and  *)
(* each write is one of the promise's moves, or none.                       *)
File == [i \in Invoices |-> Phase(i)]
Rial == [i \in Invoices |-> Custody(i)]

(* One invoice's file and rial change, and no other's.                      *)
LEMMA OneFileMoves ==
  ASSUME NEW i \in Invoices,
         \A k \in Invoices : k # i => /\ status'[k] = status[k]
                                      /\ rialIn'[k] = rialIn[k]
                                      /\ rialBack'[k] = rialBack[k]
  PROVE  /\ File' = [File EXCEPT ![i] = Phase(i)']
         /\ Rial' = [Rial EXCEPT ![i] = Custody(i)']
         /\ File[i] = Phase(i) /\ Rial[i] = Custody(i)
         /\ Phase(i)' = Phase(i) => File' = File
         /\ Custody(i)' = Custody(i) => Rial' = Rial
<1>1. \A k \in Invoices : k # i => Phase(k)' = Phase(k) /\ Custody(k)' = Custody(k)
  BY DEF Phase, Custody
<1> QED BY <1>1 DEF File, Rial

LEMMA CommitKeepsPromise ==
  ASSUME IInv, TurnInv, NEW s \in Workers, Commit(s)
  PROVE  Promise!Next \/ UNCHANGED <<File, Rial>>
<1> DEFINE w == work[s]
<1>1. PICK i \in Invoices, op \in Ops, to \in Statuses :
        /\ Guarded(op, i, to)
        /\ status'[i] = to
        /\ rialIn'[i] <=> (rialIn[i] \/ op = "confirmRialDeposit")
        /\ rialBack'[i] <=> /\ rialBack[i] \/ op = "confirmRialReturn"
                            /\ ~(op = "cancel" /\ to = "CANCELLED")
        /\ \A k \in Invoices : k # i => /\ status'[k] = status[k]
                                        /\ rialIn'[k] = rialIn[k]
                                        /\ rialBack'[k] = rialBack[k]
  <2>1. w.inv \in Invoices /\ w.op \in Ops /\ w.to \in Statuses
    BY CommitWrites DEF Jobs
  <2> QED BY <2>1, CommitWrites
<1>2. /\ rialIn[i] => status[i] \notin {"PENDING", "APPROVED", "BANK_RATE_LOCKED", "REJECTED"}
      /\ rialBack[i] => status[i] = "CANCELLED"
      /\ status[i] \in {"RIAL_RECEIVED", "CANCELLING"} => rialIn[i]
      /\ status[i] \in Statuses /\ rialIn[i] \in BOOLEAN /\ rialBack[i] \in BOOLEAN
  BY DEF TurnInv, RialByStatus, IInv, TypeOK, RialLegInOrder
<1>3. /\ File' = [File EXCEPT ![i] = Phase(i)']
      /\ Rial' = [Rial EXCEPT ![i] = Custody(i)']
      /\ File[i] = Phase(i) /\ Rial[i] = Custody(i)
      /\ Phase(i)' = Phase(i) => File' = File
      /\ Custody(i)' = Custody(i) => Rial' = Rial
  BY <1>1, OneFileMoves
<1> HIDE DEF w
<1>4. CASE op = "approve"
  <2>1. Phase(i) = "review" /\ Phase(i)' = "open" /\ Custody(i)' = Custody(i)
    BY <1>1, <1>2, <1>4 DEF Guarded, Phase, Custody
  <2>2. Promise!Open(i)
    BY <1>3, <2>1 DEF Promise!Open, Promise!Move, File, Rial
  <2> QED BY <2>2 DEF Promise!Next
<1>5. CASE op = "reject"
  <2>1. /\ Phase(i) \in {"review", "open"} /\ Phase(i)' = "refused"
        /\ Custody(i) = "none" /\ Custody(i)' = Custody(i)
    BY <1>1, <1>2, <1>5 DEF Guarded, Phase, Custody
  <2>2. Promise!Refuse(i)
    BY <1>3, <2>1 DEF Promise!Refuse, Promise!Move, File, Rial
  <2> QED BY <2>2 DEF Promise!Next
<1>6. CASE op = "confirmRialDeposit"
  <2>1. /\ Phase(i) = "open" /\ Phase(i)' = "open"
        /\ Custody(i) = "none" /\ Custody(i)' = "held"
    BY <1>1, <1>2, <1>6 DEF Guarded, Phase, Custody
  <2>2. Promise!TakeRial(i)
    BY <1>3, <2>1 DEF Promise!TakeRial, File, Rial
  <2> QED BY <2>2 DEF Promise!Next
<1>7. CASE op \in {"lockRate", "startPayment", "requestCancel"}
  <2>1. Phase(i)' = Phase(i) /\ Custody(i)' = Custody(i)
    BY <1>1, <1>2, <1>7 DEF Guarded, Phase, Custody
  <2> QED BY <1>3, <2>1
<1>8. CASE op = "confirmPayment"
  <2>1. /\ Phase(i) = "open" /\ Phase(i)' = "paid"
        /\ Custody(i) # "returned" /\ Custody(i)' = Custody(i)
    BY <1>1, <1>2, <1>8 DEF Guarded, Phase, Custody
  <2>2. Promise!Pay(i)
    BY <1>3, <2>1 DEF Promise!Pay, Promise!Move, File, Rial
  <2> QED BY <2>2 DEF Promise!Next
<1>9. CASE op \in {"expire", "expireStale"}
  <2>1. /\ Phase(i) \in {"review", "open"} /\ Phase(i)' = "lapsed"
        /\ Custody(i)' = Custody(i)
    BY <1>1, <1>2, <1>9 DEF Guarded, Phase, Custody
  <2>2. Promise!Lapse(i)
    BY <1>3, <2>1 DEF Promise!Lapse, Promise!Move, File, Rial
  <2> QED BY <2>2 DEF Promise!Next
<1>10. CASE op = "cancel" /\ to = "CANCELLED"
  <2>1. /\ Phase(i) = "open" /\ Phase(i)' = "cancelled"
        /\ Custody(i) = "none" /\ Custody(i)' = Custody(i)
    BY <1>1, <1>2, <1>10 DEF Guarded, Phase, Custody
  <2>2. Promise!CallOff(i)
    BY <1>3, <2>1 DEF Promise!CallOff, Promise!Move, File, Rial
  <2> QED BY <2>2 DEF Promise!Next
<1>11. CASE op = "cancel" /\ to # "CANCELLED"
  <2>1. /\ Phase(i) = "open" /\ Phase(i)' = "unwinding"
        /\ Custody(i) = "held" /\ Custody(i)' = Custody(i)
    BY <1>1, <1>2, <1>11 DEF Guarded, Phase, Custody
  <2>2. Promise!Unwind(i)
    BY <1>3, <2>1 DEF Promise!Unwind, Promise!Move, File, Rial
  <2> QED BY <2>2 DEF Promise!Next
<1>12. CASE op = "confirmRialReturn"
  <2>1. /\ Phase(i) = "unwinding" /\ Phase(i)' = "cancelled"
        /\ Custody(i) = "held" /\ Custody(i)' = "returned"
    BY <1>1, <1>2, <1>12 DEF Guarded, Phase, Custody
  <2>2. Promise!ReturnRial(i)
    BY <1>3, <2>1 DEF Promise!ReturnRial, Promise!Move, File, Rial
  <2> QED BY <2>2 DEF Promise!Next
<1>13. CASE op = "match"
  <2>1. Phase(i) \in {"open", "lapsed"} /\ Custody(i) # "returned" /\ Custody(i)' = Custody(i)
    BY <1>1, <1>2, <1>13 DEF Guarded, Phase, Custody, Closed
  <2>2. CASE to = "PAID"
    <3>1. Phase(i)' = "paid"
      BY <1>1, <2>2 DEF Phase
    <3>2. Promise!Pay(i)
      BY <1>3, <2>1, <3>1 DEF Promise!Pay, Promise!Move, File, Rial
    <3> QED BY <3>2 DEF Promise!Next
  <2>3. CASE to = "PAYMENT_PENDING"
    <3>1. Phase(i)' = "open"
      BY <1>1, <2>3 DEF Phase
    <3>2. CASE Phase(i) = "lapsed"
      <4>1. Promise!Open(i)
        BY <1>3, <2>1, <3>1, <3>2 DEF Promise!Open, Promise!Move, File, Rial
      <4> QED BY <4>1 DEF Promise!Next
    <3>3. CASE Phase(i) = "open"
      BY <1>3, <2>1, <3>1, <3>3
    <3> QED BY <2>1, <3>2, <3>3
  <2> QED BY <1>1, <1>13, <2>2, <2>3 DEF Guarded
<1> QED BY <1>1, <1>4, <1>5, <1>6, <1>7, <1>8, <1>9, <1>10, <1>11, <1>12, <1>13 DEF Guarded, Ops

LEMMA NextKeepsPromise ==
  ASSUME IInv, TurnInv, [Next]_vars
  PROVE  Promise!Next \/ UNCHANGED <<File, Rial>>
<1>1. ASSUME UNCHANGED <<status, rialIn, rialBack>>
      PROVE  UNCHANGED <<File, Rial>>
  BY <1>1 DEF File, Rial, Phase, Custody
<1>2. CASE \E s \in Workers : Commit(s)
  BY <1>2, CommitKeepsPromise
<1>3. CASE ~\E s \in Workers : Commit(s)
  <2>1. ASSUME NEW s, NEW i, Request(s, i)
        PROVE  UNCHANGED <<status, rialIn, rialBack>>
    <3>1. UNCHANGED fields
      BY <2>1, Zenon DEF Request, Approve, Reject, LockRate, ConfirmRialDeposit, StartPayment,
                         ConfirmPayment, Expire, RequestCancel, Cancel, ConfirmRialReturn
    <3> QED BY <3>1 DEF fields
  <2>2. \A s, t, i : MatchInvoice(s, t) \/ ExpireStale(s, i) => UNCHANGED <<status, rialIn, rialBack>>
    BY DEF MatchInvoice, ExpireStale, fields
  <2>3. \A s : CheckPosted(s) \/ PostInvoicePaid(s) \/ RaisePayout(s) \/ Fail(s)
                 => UNCHANGED <<status, rialIn, rialBack>>
    BY DEF CheckPosted, PostInvoicePaid, RaisePayout, Fail, fields
  <2>4. \A t, i : SeeTransfer(t) \/ Transfer(t) \/ Finalize(t) \/ Lapse(i)
                    => UNCHANGED <<status, rialIn, rialBack>>
    BY DEF SeeTransfer, Transfer, Finalize, Lapse, fields
  <2>5. UNCHANGED <<status, rialIn, rialBack>>
    BY <1>3, <2>1, <2>2, <2>3, <2>4 DEF Next, Continue, vars, fields
  <2> QED BY <1>1, <2>5
<1> QED BY <1>2, <1>3

(* While an invoice is written by one handler at a time, the transition     *)
(* route and the watcher give it the life InvoicePromise describes: every   *)
(* write of a status is one of its moves, the rial going where it says.     *)
THEOREM PromiseKeptInTurn == Spec /\ []OneAtATime => KeepsPromise
<1>1. Init => Promise!Init
  BY DEF Init, Promise!Init, Phase, Custody
<1>2. IInv /\ TurnInv /\ [Next]_vars
        => [Promise!Next]_<<[i \in Invoices |-> Phase(i)], [i \in Invoices |-> Custody(i)]>>
  BY NextKeepsPromise DEF File, Rial
<1> QED BY <1>1, <1>2, TurnsKept, PTL DEF Spec, KeepsPromise, Promise!Spec

(* The hypothesis is met where one worker serves everything, in turn.       *)
LEMMA OneWorkerIsApart ==
  ASSUME NEW w, Workers = {w}
  PROVE  OneAtATime
BY DEF OneAtATime

=============================================================================
