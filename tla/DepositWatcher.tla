--------------------------- MODULE DepositWatcher ---------------------------
(***************************************************************************)
(* The deposit watcher against a chain that grows, finalises and sometimes  *)
(* reorganises: runWatcher pass by pass and request by request, the rows    *)
(* and the bookmark it keeps, and the report of a hash that writes the same *)
(* rows, and may mark the invoice paid, beside it.                          *)
(*                                                                          *)
(* Every await is a step of its own, passes overlap (the daemon's and those *)
(* POST /api/chain/watch starts) and any of them may die.  What a match     *)
(* does to an invoice is kept to "paid or not" here and done in one step,   *)
(* the figure the deposits screen shows left out: InvoiceLifecycle has its  *)
(* reads and writes apart, the figures of the invoice and the expiry sweep; *)
(* SettlementDesk has promoteSettlement.                                    *)
(***************************************************************************)
EXTENDS Integers, FiniteSets

CONSTANTS
  Hashes, Logs,          \* transactions, and the token transfers inside them
  HashOf, AddressOf,     \* per log: its transaction, and where it pays
  FirstLog,              \* per hash: the transfer verifyTransfer picks
  Deposits, BankWallets, \* addresses: one per invoice, and the bank's own
  AmountOf(_), Required, \* what a set of logs adds up to; what an invoice needs
  Sweepers, Reporters,
  Batch, MaxRequests,    \* CHAIN_SCAN_BATCH, CHAIN_SCAN_MAX_REQUESTS
  MinConfirmations,      \* CHAIN_MIN_CONFIRMATIONS
  Take,                  \* rows one pass retries
  None,
  MaxBlock, MaxReorgs, MaxFailures   \* bounds: the chain's height, its reorganisations, deaths

ASSUME ConstantsAssumption ==
  /\ IsFiniteSet(Hashes)
  /\ HashOf \in [Logs -> Hashes]
  /\ AddressOf \in [Logs -> Deposits \cup BankWallets]
  /\ FirstLog \in [Hashes -> Logs] /\ \A h \in Hashes : HashOf[FirstLog[h]] = h
  /\ Deposits \cap BankWallets = {}
  /\ Sweepers \cap Reporters = {}
  /\ Required \in [Deposits -> Nat]
  /\ \A S \in SUBSET Logs : AmountOf(S) \in Nat
  /\ \A S, T \in SUBSET Logs : S \subseteq T => AmountOf(S) <= AmountOf(T)
  /\ Batch \in Nat \ {0} /\ MaxRequests \in Nat \ {0}
  /\ MinConfirmations \in Nat /\ Take \in Nat
  /\ None \notin Hashes \cup Logs
  /\ MaxBlock \in Nat /\ MaxReorgs \in Nat /\ MaxFailures \in Nat

VARIABLES
  head, final,   \* the chain's height, and the block below which it cannot change
  place,         \* per hash: the block it is in, 0 when in none
  moved,         \* per hash: a reorganisation took it out of its block (history)
  reorgs,
  file,          \* per deposit address: "none" until allocated, then its invoice
  swept,         \* per deposit address: sweptAt
  reported,      \* per deposit address: the hash a payer's report settled it with (history)
  row,           \* per hash: its ChainTx row
  cursor,        \* ChainCursor.lastScannedBlock
  origin,        \* the highest block a pass that found no cursor began at (history)
  pass,          \* per sweeper: how far its pass has come
  report,        \* per reporter: how far its request has come, the receipt it holds
  failures

chain    == <<head, final, place, moved, reorgs>>
invoices == <<file, swept, reported>>
bookmark == <<cursor, origin>>
vars     == <<chain, invoices, row, bookmark, pass, report, failures>>

NoCursor == -1
NoRow == [status |-> "none", log |-> None, block |-> 0, confirmations |-> 0,
          matched |-> FALSE, seen |-> 0]
NoReport == [pc |-> "idle", hash |-> None, block |-> 0, head |-> 0, final |-> 0]
(* A pass holds only what it still has to use.                              *)
NoPass == [pc |-> "idle", head |-> 0, final |-> 0, from |-> 0, to |-> 0, watched |-> {},
           unasked |-> {}, logs |-> {}, maturing |-> {}, retry |-> {}, due |-> None]

Init ==
  /\ head = 0 /\ final = 0
  /\ place = [h \in Hashes |-> 0]
  /\ moved = [h \in Hashes |-> FALSE]
  /\ reorgs = 0
  /\ file = [d \in Deposits |-> "none"]
  /\ swept = [d \in Deposits |-> FALSE]
  /\ reported = [d \in Deposits |-> None]
  /\ row = [h \in Hashes |-> NoRow]
  /\ cursor = NoCursor
  /\ origin = 0
  /\ pass = [w \in Sweepers |-> NoPass]
  /\ report = [r \in Reporters |-> NoReport]
  /\ failures = 0

-----------------------------------------------------------------------------
(* What the node answers.                                                   *)

(* Wrong on purpose: the newest block is taken for one that cannot change.  *)
IrreversibleHead == {head}

(* The finalized tag, or a count back from the head when the node does not  *)
(* serve it or fails to.                                                    *)
IrreversibleBlock == {final, IF head > MinConfirmations THEN head - MinConfirmations ELSE 0}

(* getLogs: the transfers to these recipients in these blocks.              *)
TransferLogs(window, recipients) ==
  {e \in [log : Logs, block : window[1] .. window[2]] :
     /\ place[HashOf[e.log]] = e.block
     /\ e.block # 0
     /\ AddressOf[e.log] \in recipients}

(* The span is cut into windows up front.                                   *)
Windows(from, to) ==
  {<<s, IF s + Batch - 1 > to THEN to ELSE s + Batch - 1>> :
     s \in {b \in from..to : (b - from) % Batch = 0}}

Lowest(windows) == {q \in windows : \A r \in windows : q[1] <= r[1]}

-----------------------------------------------------------------------------
(* One pass: where to look.                                                 *)

At(w, pc) == pass[w].pc = pc /\ pass[w].due = None
Go(w, p) == pass' = [pass EXCEPT ![w] = p]
Scanned(w) == [NoPass EXCEPT !.pc = "list", !.final = pass[w].final]

(* The head and the irreversible block, before anything else is read.       *)
ReadChain(w) ==
  /\ At(w, "idle")
  /\ \E f \in IrreversibleBlock :
       Go(w, [NoPass EXCEPT !.pc = "bookmark", !.head = head, !.final = f])
  /\ UNCHANGED <<chain, invoices, row, bookmark, report, failures>>

(* From the bookmark, or one batch back on a fresh install, as far as the   *)
(* request budget goes.                                                     *)
ReadCursor(w) ==
  LET p    == pass[w]
      from == IF cursor # NoCursor THEN cursor + 1
              ELSE IF p.head > Batch THEN p.head - Batch ELSE 0
      span == Batch * MaxRequests
      to   == IF from + span > p.head THEN p.head ELSE from + span
  IN  /\ At(w, "bookmark")
      /\ Go(w, IF from > to THEN Scanned(w)
               ELSE [p EXCEPT !.pc = "watch", !.from = from, !.to = to])
      /\ origin' = IF cursor = NoCursor /\ from > origin THEN from ELSE origin
      /\ UNCHANGED <<chain, invoices, row, cursor, report, failures>>

(* The bank's wallets and every address allocated and not yet released.     *)
WatchedAddresses == BankWallets \cup {d \in Deposits : file[d] # "none" /\ ~swept[d]}

ReadWatched(w) ==
  LET p == pass[w]
  IN  /\ At(w, "watch")
      /\ Go(w, [p EXCEPT !.pc = IF WatchedAddresses = {} THEN "record" ELSE "fetch",
                         !.watched = WatchedAddresses, !.unasked = Windows(p.from, p.to)])
      /\ UNCHANGED <<chain, invoices, row, bookmark, report, failures>>

(* One request: answered, or refused - and halved, until a single block is  *)
(* refused and the scan is given up, the cursor where it was.               *)
GetLogs(w) ==
  LET p == pass[w]
  IN  /\ At(w, "fetch")
      /\ \E q \in Lowest(p.unasked) :
           Go(w, [p EXCEPT !.logs = @ \cup TransferLogs(q, p.watched),
                           !.unasked = @ \ {q},
                           !.pc = IF p.unasked = {q} THEN "record" ELSE @])
      /\ UNCHANGED <<chain, invoices, row, bookmark, report, failures>>

Halve(w) ==
  LET p == pass[w]
  IN  /\ At(w, "fetch")
      /\ \E q \in Lowest(p.unasked) :
           LET mid == q[1] + ((q[2] - q[1]) \div 2)
           IN  /\ q[1] < q[2]
               /\ Go(w, [p EXCEPT !.unasked = (@ \ {q}) \cup {<<q[1], mid>>, <<mid + 1, q[2]>>}])
      /\ UNCHANGED <<chain, invoices, row, bookmark, report, failures>>

(* Wrong on purpose: a scan that was refused moves the bookmark on.         *)
GiveUpAndMoveOn(w) ==
  LET p == pass[w]
  IN  /\ At(w, "fetch")
      /\ \E q \in Lowest(p.unasked) : q[1] >= q[2]
      /\ Go(w, Scanned(w))
      /\ cursor' = p.to
      /\ UNCHANGED <<chain, invoices, row, origin, report, failures>>

GiveUp(w) ==
  LET p == pass[w]
  IN  /\ At(w, "fetch")
      /\ \E q \in Lowest(p.unasked) : q[1] >= q[2]
      /\ Go(w, Scanned(w))
      /\ UNCHANGED <<chain, invoices, row, bookmark, report, failures>>

-----------------------------------------------------------------------------
(* One pass: what it writes.                                                *)

StatusOf(confirmed) == IF confirmed THEN "CONFIRMED" ELSE "CONFIRMING"
Known == {h \in Hashes : row[h] # NoRow}

(* A row is created with all of it; found by its hash, only its status and  *)
(* its count are touched.                                                   *)
Upsert(h, log, block, confirmed, confirmations) ==
  IF row[h] = NoRow
    THEN [status |-> StatusOf(confirmed), log |-> log, block |-> block,
          confirmations |-> confirmations, matched |-> FALSE, seen |-> Cardinality(Known) + 1]
    ELSE [row[h] EXCEPT !.status = StatusOf(confirmed), !.confirmations = confirmations]

(* Each transfer fetched, in the order of the blocks: recorded, and due to  *)
(* be matched if it is irreversible and was not.                            *)
Record(w) ==
  LET p == pass[w]
  IN  /\ At(w, "record")
      /\ \E e \in p.logs :
           LET h == HashOf[e.log]
               confirmed == e.block <= p.final
           IN  /\ \A other \in p.logs : e.block <= other.block
               /\ row' = [row EXCEPT ![h] = Upsert(h, e.log, e.block, confirmed, p.head - e.block + 1)]
               /\ Go(w, [p EXCEPT !.logs = @ \ {e},
                                  !.due = IF confirmed /\ ~row[h].matched THEN h ELSE None])
      /\ UNCHANGED <<chain, invoices, bookmark, report, failures>>

(* The bookmark follows once every transfer of the range is written.        *)
WriteCursor(w) ==
  /\ At(w, "record")
  /\ pass[w].logs = {}
  /\ cursor' = pass[w].to
  /\ Go(w, Scanned(w))
  /\ UNCHANGED <<chain, invoices, row, origin, report, failures>>

(* refreshConfirmations reads a head of its own and the rows still maturing *)
(* - the irreversible block stays the one the pass began with.              *)
ListMaturing(w) ==
  /\ At(w, "list")
  /\ Go(w, [pass[w] EXCEPT !.pc = "refresh", !.head = head,
              !.maturing = {[hash |-> h, block |-> row[h].block, matched |-> row[h].matched,
                             confirmations |-> row[h].confirmations] :
                              h \in {g \in Hashes : row[g].status = "CONFIRMING"}}])
  /\ UNCHANGED <<chain, invoices, row, bookmark, report, failures>>

(* A row whose count has not changed is left alone.                         *)
SkipMaturing(w) ==
  LET p == pass[w]
  IN  /\ At(w, "refresh")
      /\ \E tx \in p.maturing : /\ p.head - tx.block + 1 = tx.confirmations
                                /\ Go(w, [p EXCEPT !.maturing = @ \ {tx}])
      /\ UNCHANGED <<chain, invoices, row, bookmark, report, failures>>

(* Any other is recounted, and promoted by the block it was recorded at.    *)
(* MaxBlock stands for every height past it: there the count may have       *)
(* changed or not.                                                          *)
Refresh(w) ==
  LET p == pass[w]
  IN  /\ At(w, "refresh")
      /\ \E tx \in p.maturing :
           LET confirmed == tx.block <= p.final
           IN  /\ p.head - tx.block + 1 # tx.confirmations \/ p.head = MaxBlock
               /\ row' = [row EXCEPT ![tx.hash].status = StatusOf(confirmed),
                                     ![tx.hash].confirmations = p.head - tx.block + 1]
               /\ Go(w, [p EXCEPT !.maturing = @ \ {tx},
                                  !.due = IF confirmed /\ ~tx.matched THEN tx.hash ELSE None])
      /\ UNCHANGED <<chain, invoices, bookmark, report, failures>>

Unmatched == {h \in Hashes : row[h].status = "CONFIRMED" /\ ~row[h].matched}
OldestUnmatched ==
  {h \in Unmatched : Cardinality({g \in Unmatched : row[g].seen < row[h].seen}) < Take}

(* Wrong on purpose: what was missed when it was seen is not tried again.   *)
ListNothing(w) ==
  /\ At(w, "refresh")
  /\ pass[w].maturing = {}
  /\ Go(w, [NoPass EXCEPT !.pc = "retry"])
  /\ UNCHANGED <<chain, invoices, row, bookmark, report, failures>>

(* retryUnmatchedDeposits: the oldest confirmed rows without a match.       *)
ListUnmatched(w) ==
  /\ At(w, "refresh")
  /\ pass[w].maturing = {}
  /\ Go(w, [NoPass EXCEPT !.pc = "retry", !.retry = OldestUnmatched])
  /\ UNCHANGED <<chain, invoices, row, bookmark, report, failures>>

RetryNext(w) ==
  LET p == pass[w]
  IN  /\ At(w, "retry")
      /\ \E h \in p.retry : /\ \A g \in p.retry : row[h].seen <= row[g].seen
                            /\ Go(w, [p EXCEPT !.retry = @ \ {h}, !.due = h])
      /\ UNCHANGED <<chain, invoices, row, bookmark, report, failures>>

Finish(w) ==
  /\ At(w, "retry")
  /\ pass[w].retry = {}
  /\ Go(w, NoPass)
  /\ UNCHANGED <<chain, invoices, row, bookmark, report, failures>>

(* Wrong on purpose: money still settling counts as arrived.                *)
ConfirmedOrSettling(d) == {row[h].log : h \in {g \in Known : AddressOf[row[g].log] = d}}

Confirmed(d) ==
  {row[h].log : h \in {g \in Known : row[g].status = "CONFIRMED" /\ AddressOf[row[g].log] = d}}

(* matchInvoice: add up the address, and mark its open invoice paid - and   *)
(* this row matched - once that covers it.  Only the bank's own wallets     *)
(* have no invoice.                                                         *)
Match(w) ==
  LET h     == pass[w].due
      d     == AddressOf[row[h].log]
      total == AmountOf(IF Confirmed(d) = {} THEN {row[h].log} ELSE Confirmed(d))
      pays  == d \in Deposits /\ file[d] = "open" /\ total >= Required[d]
  IN  /\ h # None
      /\ file' = [a \in Deposits |-> IF a = d /\ pays THEN "paid" ELSE file[a]]
      /\ row' = [row EXCEPT ![h].matched = @ \/ pays]
      /\ Go(w, [pass[w] EXCEPT !.due = None])
      /\ UNCHANGED <<chain, swept, reported, bookmark, report, failures>>

(* The process stops, or a call to the node or the database throws.         *)
Fail(w) ==
  /\ pass[w] # NoPass
  /\ failures < MaxFailures
  /\ failures' = failures + 1
  /\ Go(w, NoPass)
  /\ UNCHANGED <<chain, invoices, row, bookmark, report>>

-----------------------------------------------------------------------------
(* A hash reported by whoever paid: verifyTransfer reads its receipt,       *)
(* recordChainTx writes what was read, the block number included, and       *)
(* confirmPayment has the invoice paid by it, irreversible or not.  A       *)
(* request that dies half-way is one that takes no further step.            *)

(* What the receipt has to show: a transfer to the invoice's address that   *)
(* covers it alone - the invoice was open when it was read, and may be      *)
(* anything by now - or one to the bank, for a settlement.                  *)
Reportable(h) ==
  LET d == AddressOf[FirstLog[h]]
  IN  d \in Deposits => file[d] # "none" /\ AmountOf({FirstLog[h]}) >= Required[d]

(* Wrong on purpose: a transaction still waiting is taken for one of the    *)
(* next block.                                                              *)
ReadPending(r, h) ==
  /\ report[r] = NoReport
  /\ Reportable(h)
  /\ \E f \in IrreversibleBlock :
       report' = [report EXCEPT ![r] = [pc |-> "record", hash |-> h, head |-> head, final |-> f,
                                        block |-> IF place[h] = 0 THEN head + 1 ELSE place[h]]]
  /\ UNCHANGED <<chain, invoices, row, bookmark, pass, failures>>

ReadReceipt(r, h) ==
  /\ report[r] = NoReport
  /\ Reportable(h)
  /\ place[h] # 0
  /\ \E f \in IrreversibleBlock :
       report' = [report EXCEPT ![r] = [pc |-> "record", hash |-> h, block |-> place[h],
                                        head |-> head, final |-> f]]
  /\ UNCHANGED <<chain, invoices, row, bookmark, pass, failures>>

(* The request ends here for a settlement (SettlementDesk promotes it), and *)
(* for a hash that has settled an invoice already.                          *)
RecordChainTx(r) ==
  LET t == report[r]
      goesOn == AddressOf[FirstLog[t.hash]] \in Deposits /\ ~row[t.hash].matched
  IN  /\ t.pc = "record"
      /\ row' = [row EXCEPT ![t.hash] =
                   [Upsert(t.hash, FirstLog[t.hash], t.block, t.block <= t.final, t.head - t.block + 1)
                      EXCEPT !.block = t.block]]
      /\ report' = [report EXCEPT ![r] =
                      IF goesOn THEN [pc |-> "confirm", hash |-> t.hash, block |-> 0, head |-> 0, final |-> 0]
                      ELSE NoReport]
      /\ UNCHANGED <<chain, invoices, bookmark, pass, failures>>

(* By id, whatever has become of the invoice; the row stays unmatched.      *)
ConfirmPayment(r) ==
  LET h == report[r].hash
      d == AddressOf[FirstLog[h]]
  IN  /\ report[r].pc = "confirm"
      /\ file' = [file EXCEPT ![d] = "paid"]
      /\ reported' = [reported EXCEPT ![d] = h]
      /\ report' = [report EXCEPT ![r] = NoReport]
      /\ UNCHANGED <<chain, swept, row, bookmark, pass, failures>>

-----------------------------------------------------------------------------
(* The world: the chain, and what the rest of the program does to a file.   *)

(* Nobody can be told to pay an address before it is allocated.             *)
Payable(h) == \A l \in Logs : HashOf[l] = h => \/ AddressOf[l] \in BankWallets
                                               \/ file[AddressOf[l]] # "none"

(* A block arrives.  The finalised block never lags by more than            *)
(* MinConfirmations: the operator's count is as deep as the chain needs.    *)
(* Below the bound every payment can still become final by either answer.   *)
NewBlock ==
  /\ head < MaxBlock
  /\ head + 1 - final <= MinConfirmations
  /\ head' = head + 1
  /\ \E S \in SUBSET {h \in Hashes : place[h] = 0 /\ Payable(h) /\ head + 1 + MinConfirmations <= MaxBlock} :
       place' = [h \in Hashes |-> IF h \in S THEN head + 1 ELSE place[h]]
  /\ UNCHANGED <<final, moved, reorgs, invoices, row, bookmark, pass, report, failures>>

Finalize ==
  /\ final < head
  /\ final' = final + 1
  /\ UNCHANGED <<head, place, moved, reorgs, invoices, row, bookmark, pass, report, failures>>

(* The blocks from b on are replaced: what they held is elsewhere from b    *)
(* on, or nowhere.                                                          *)
Reorganise(b) ==
  /\ reorgs < MaxReorgs
  /\ b \in final + 1 .. head
  /\ place' \in {p \in [Hashes -> 0..head] :
                   \A h \in Hashes : IF place[h] >= b THEN p[h] = 0 \/ p[h] >= b ELSE p[h] = place[h]}
  /\ moved' = [h \in Hashes |-> moved[h] \/ place'[h] # place[h]]
  /\ reorgs' = reorgs + 1
  /\ UNCHANGED <<head, final, invoices, row, bookmark, pass, report, failures>>

(* Approval allocates an address; a file may be called off; a release is    *)
(* recorded.                                                                *)
Allocate(d) ==
  /\ file[d] = "none"
  /\ file' = [file EXCEPT ![d] = "open"]
  /\ UNCHANGED <<chain, swept, reported, row, bookmark, pass, report, failures>>

CallOff(d) ==
  /\ file[d] = "open"
  /\ file' = [file EXCEPT ![d] = "closed"]
  /\ UNCHANGED <<chain, swept, reported, row, bookmark, pass, report, failures>>

Sweep(d) ==
  /\ file[d] # "none" /\ ~swept[d]
  /\ \E l \in Logs : AddressOf[l] = d /\ place[HashOf[l]] # 0
  /\ swept' = [swept EXCEPT ![d] = TRUE]
  /\ UNCHANGED <<chain, file, reported, row, bookmark, pass, report, failures>>

Scan(w) ==
  \/ ReadChain(w) \/ ReadCursor(w) \/ ReadWatched(w)
  \/ GetLogs(w) \/ Halve(w) \/ GiveUp(w)
  \/ Record(w) \/ WriteCursor(w)
Revisit(w) ==
  \/ ListMaturing(w) \/ SkipMaturing(w) \/ Refresh(w)
  \/ ListUnmatched(w) \/ RetryNext(w) \/ Finish(w)
World ==
  \/ NewBlock \/ Finalize \/ (\E b \in 1..MaxBlock : Reorganise(b))
  \/ \E d \in Deposits : Allocate(d) \/ CallOff(d) \/ Sweep(d)

Next ==
  \/ \E w \in Sweepers : Scan(w) \/ Revisit(w) \/ Match(w) \/ Fail(w)
  \/ \E r \in Reporters : \/ \E h \in Hashes : ReadReceipt(r, h)
                          \/ RecordChainTx(r) \/ ConfirmPayment(r)
  \/ World

Spec == Init /\ [][Next]_vars

(* The daemon sweeps every twenty seconds, so a pass begun runs on and a    *)
(* new one follows; an endpoint that serves logs does not refuse a single   *)
(* block for ever; and the chain goes on, so a maturing row is recounted.   *)
(* Nobody has to pay, to report, or to decide about a file.                 *)
Fairness ==
  /\ WF_vars(NewBlock) /\ WF_vars(Finalize)
  /\ \A w \in Sweepers :
       /\ WF_vars(Scan(w)) /\ WF_vars(Revisit(w)) /\ WF_vars(Match(w))
       /\ SF_vars(Refresh(w))
       /\ <>[][~GiveUp(w)]_vars

FairSpec == Spec /\ Fairness

-----------------------------------------------------------------------------
(* Properties.                                                              *)

Row == [status : {"none", "CONFIRMING", "CONFIRMED"}, log : Logs \cup {None}, block : Nat,
        confirmations : Int, matched : BOOLEAN, seen : Nat]
Maturing == [hash : Hashes, block : Nat, matched : BOOLEAN, confirmations : Int]
Report == [pc : {"idle", "record", "confirm"}, hash : Hashes \cup {None},
           block : Nat, head : Nat, final : Nat]
Pass == [pc : {"idle", "bookmark", "watch", "fetch", "record", "list", "refresh", "retry"},
         head : Nat, final : Nat, from : Nat, to : Nat, watched : SUBSET (Deposits \cup BankWallets),
         unasked : SUBSET (Nat \X Nat), logs : SUBSET [log : Logs, block : Nat],
         maturing : SUBSET Maturing, retry : SUBSET Hashes, due : Hashes \cup {None}]

(* Values of the right kind.                                                *)
TypeOK ==
  /\ head \in Nat /\ final \in Nat
  /\ place \in [Hashes -> Nat]
  /\ moved \in [Hashes -> BOOLEAN]
  /\ reorgs \in Nat /\ failures \in Nat
  /\ file \in [Deposits -> {"none", "open", "paid", "closed"}]
  /\ swept \in [Deposits -> BOOLEAN]
  /\ reported \in [Deposits -> Hashes \cup {None}]
  /\ row \in [Hashes -> Row]
  /\ cursor \in Nat \cup {NoCursor} /\ origin \in Nat
  /\ pass \in [Sweepers -> Pass]
  /\ report \in [Reporters -> Report]

(* The bookmark never runs ahead of the work: whatever passes overlap, are  *)
(* refused or die, every transaction behind it that pays a watched address  *)
(* has its row - unless a reorganisation put it there after the scan, or it *)
(* lies before the block a fresh install began at, which is never scanned.  *)
Behind(h) == place[h] # 0 /\ place[h] >= origin /\ place[h] <= cursor
Paid(a) == IF a \in Deposits THEN ~swept[a] ELSE TRUE
NothingSkipped ==
  \A l \in Logs : Behind(HashOf[l]) /\ Paid(AddressOf[l]) =>
    moved[HashOf[l]] \/ row[HashOf[l]] # NoRow

(* A row says CONFIRMED only of a transaction in a block that cannot        *)
(* change, however stale the figures a pass or a report carried - unless a  *)
(* reorganisation moved it.                                                 *)
ConfirmedIsFinal ==
  \A h \in Hashes : row[h].status = "CONFIRMED" =>
    moved[h] \/ (place[h] # 0 /\ place[h] <= final)

(* An invoice is PAID by irreversible money at its own address that covers  *)
(* it, or by one mined transfer to it that does so alone and was reported - *)
(* unless a reorganisation has moved a transfer to it.                      *)
FinalAt(d) == {l \in Logs : AddressOf[l] = d /\ place[HashOf[l]] # 0 /\ place[HashOf[l]] <= final}
MovedAt(d) == {l \in Logs : AddressOf[l] = d /\ moved[HashOf[l]]}
Vouched(d) == /\ reported[d] # None /\ place[reported[d]] # 0
              /\ AddressOf[FirstLog[reported[d]]] = d
              /\ AmountOf({FirstLog[reported[d]]}) >= Required[d]
PaidIsCovered ==
  \A d \in Deposits : file[d] = "paid" =>
    \/ MovedAt(d) # {}
    \/ AmountOf(FinalAt(d)) >= Required[d]
    \/ Vouched(d)

(* An invoice is not left open if what was paid to it from the first block  *)
(* scanned on is final and covers it: a pass that dies between a row and    *)
(* its match is made good by a later one.  Not promised are what lies       *)
(* before that block, and what is hidden behind as many rows of other       *)
(* addresses as a pass retries.                                             *)
Scannable(d) == {l \in FinalAt(d) : place[HashOf[l]] >= origin}
CrowdedOut(d) == Cardinality({h \in Unmatched : AddressOf[row[h].log] # d}) >= Take
FundedIsCredited ==
  \A d \in Deposits :
    (file[d] = "open" /\ AmountOf(FinalAt(d)) >= Required[d])
      ~> (\/ file[d] # "open" \/ swept[d]
          \/ AmountOf(Scannable(d)) < Required[d] \/ CrowdedOut(d))

=============================================================================
