------------------------ MODULE DepositWatcher_proofs ------------------------
(***************************************************************************)
(* Why CONFIRMED and PAID mean irreversible, and why the bookmark is never  *)
(* ahead of the rows.  A pass carries figures that may be old by the time   *)
(* it writes, but nothing it concluded from them is undone: finality only   *)
(* advances, and a transaction leaves its block only by a reorganisation,   *)
(* which the history variable remembers.  So every fact a pass, a report or *)
(* a row holds still stands when it is used.  The bookmark is the last      *)
(* section: what a pass still has to ask for or to write, it owes until it  *)
(* has.                                                                     *)
(***************************************************************************)
EXTENDS DepositWatcher, FiniteSetTheorems, TLAPS

USE DEF At, Go

-----------------------------------------------------------------------------
(* The invariant.                                                           *)

(* Block b is where the chain has the transaction.                          *)
Stands(h, b) == moved[h] \/ (place[h] = b /\ b # 0)

(* The chain has had the transaction, and has it yet.                       *)
Mined(h) == moved[h] \/ place[h] # 0

(* The transaction is in a block that cannot change.                        *)
Settled(h) == moved[h] \/ (place[h] # 0 /\ place[h] <= final)

Recorded(h) == row[h] # NoRow

(* What one row, one pass and one report hold.                              *)
RowHolds(h, r) ==
  r # NoRow => /\ r.log \in Logs /\ HashOf[r.log] = h
               /\ Stands(h, r.block)
               /\ r.status = "CONFIRMED" => Settled(h)

PassHolds(p) ==
  /\ p \in Pass
  /\ p.final <= final
  /\ \A e \in p.logs : Stands(HashOf[e.log], e.block)
  /\ \A tx \in p.maturing : Stands(tx.hash, tx.block) /\ Recorded(tx.hash)
  /\ \A h \in p.retry : Settled(h) /\ Recorded(h)
  /\ p.due # None => Settled(p.due) /\ Recorded(p.due)

(* The receipt a report read stands, and shows what it has to.              *)
ReportHolds(t) ==
  /\ t.final <= final
  /\ t.pc # "idle" => /\ t.hash \in Hashes /\ Mined(t.hash)
                      /\ LET d == AddressOf[FirstLog[t.hash]]
                         IN  d \in Deposits => AmountOf({FirstLog[t.hash]}) >= Required[d]
  /\ t.pc = "record" => Stands(t.hash, t.block)
  /\ t.pc = "confirm" => AddressOf[FirstLog[t.hash]] \in Deposits

(* A hash that settles an invoice by report.                                *)
Voucher(d, h) ==
  /\ h \in Hashes /\ Mined(h)
  /\ AddressOf[FirstLog[h]] = d /\ AmountOf({FirstLog[h]}) >= Required[d]

(* What stands behind a paid invoice.                                       *)
Backed(d) ==
  /\ file[d] = "paid" =>
       MovedAt(d) # {} \/ AmountOf(FinalAt(d)) >= Required[d] \/ reported[d] # None
  /\ reported[d] # None => Voucher(d, reported[d])

(* Counting back from the head never passes the finalised block.            *)
FinalityLag == final <= head /\ head - final <= MinConfirmations

RowsHold    == \A h \in Hashes : RowHolds(h, row[h])
PassesHold  == \A w \in Sweepers : PassHolds(pass[w])
ReportsHold == \A r \in Reporters : ReportHolds(report[r])
PaidHolds   == \A d \in Deposits : Backed(d)

IInv == TypeOK /\ FinalityLag /\ RowsHold /\ PassesHold /\ ReportsHold /\ PaidHolds

-----------------------------------------------------------------------------
(* No step takes back what is known of the chain, or a row.                 *)
Advances ==
  /\ final <= final'
  /\ \A h \in Hashes : moved[h] => moved'[h]
  /\ \A h \in Hashes : moved'[h] \/ place[h] = 0 \/ place'[h] = place[h]
  /\ \A h \in Hashes : row[h] # NoRow => row'[h] # NoRow

LEMMA StandsOn ==
  ASSUME TypeOK, Advances, NEW h \in Hashes, NEW b, Stands(h, b)
  PROVE  Stands(h, b)'
BY DEF Advances, Stands

LEMMA MinedOn ==
  ASSUME TypeOK, Advances, NEW h \in Hashes, Mined(h)
  PROVE  Mined(h)'
BY DEF Advances, Mined

LEMMA SettledOn ==
  ASSUME TypeOK, TypeOK', Advances, NEW h \in Hashes, Settled(h)
  PROVE  Settled(h)'
<1>1. final \in Nat /\ final' \in Nat /\ place[h] \in Nat /\ final <= final'
  BY DEF TypeOK, Advances
<1> QED BY <1>1 DEF Advances, Settled

LEMMA RowOn ==
  ASSUME TypeOK, TypeOK', Advances, NEW h \in Hashes, NEW r, RowHolds(h, r)
  PROVE  RowHolds(h, r)'
BY StandsOn, SettledOn DEF RowHolds

LEMMA PassOn ==
  ASSUME TypeOK, TypeOK', Advances, NEW p, PassHolds(p)
  PROVE  PassHolds(p)'
<1>1. p \in Pass
  BY DEF PassHolds
<1>2. p.final <= final'
  BY <1>1 DEF PassHolds, Pass, Advances, TypeOK
<1>3. \A e \in p.logs : Stands(HashOf[e.log], e.block)'
  BY <1>1, StandsOn, ConstantsAssumption DEF PassHolds, Pass
<1>4. \A tx \in p.maturing : Stands(tx.hash, tx.block)' /\ Recorded(tx.hash)'
  <2> SUFFICES ASSUME NEW tx \in p.maturing PROVE Stands(tx.hash, tx.block)' /\ Recorded(tx.hash)'
    OBVIOUS
  <2>1. tx.hash \in Hashes
    BY <1>1 DEF Pass, Maturing
  <2> QED BY <2>1, StandsOn DEF PassHolds, Recorded, Advances
<1>5. \A h \in p.retry : Settled(h)' /\ Recorded(h)'
  BY <1>1, SettledOn DEF PassHolds, Pass, Recorded, Advances
<1>6. p.due # None => Settled(p.due)' /\ Recorded(p.due)'
  BY <1>1, SettledOn DEF PassHolds, Pass, Recorded, Advances
<1> QED BY <1>1, <1>2, <1>3, <1>4, <1>5, <1>6 DEF PassHolds

LEMMA ReportOn ==
  ASSUME TypeOK, TypeOK', Advances, NEW r \in Reporters, ReportHolds(report[r]), report'[r] = report[r]
  PROVE  ReportHolds(report[r])'
<1>1. report[r].final \in Nat /\ final \in Nat /\ final' \in Nat
  BY DEF TypeOK, Report
<1>2. report[r].final <= final'
  BY <1>1 DEF ReportHolds, Advances
<1> QED BY <1>2, StandsOn, MinedOn DEF ReportHolds

(* What irreversible money an address has is never less.                    *)
LEMMA FinalMoneyOn ==
  ASSUME TypeOK, TypeOK', Advances, NEW d \in Deposits,
         MovedAt(d) # {} \/ AmountOf(FinalAt(d)) >= Required[d]
  PROVE  MovedAt(d)' # {} \/ AmountOf(FinalAt(d)') >= Required[d]
<1>1. CASE MovedAt(d) # {}
  <2>1. PICK l \in Logs : AddressOf[l] = d /\ moved[HashOf[l]]
    BY <1>1 DEF MovedAt
  <2>2. HashOf[l] \in Hashes
    BY ConstantsAssumption
  <2>3. l \in MovedAt(d)'
    BY <2>1, <2>2 DEF MovedAt, Advances
  <2> QED BY <2>3
<1>2. CASE MovedAt(d) = {} /\ MovedAt(d)' = {}
  <2>1. FinalAt(d) \subseteq FinalAt(d)'
    <3> SUFFICES ASSUME NEW l \in FinalAt(d) PROVE l \in FinalAt(d)'
      OBVIOUS
    <3>1. l \in Logs /\ AddressOf[l] = d /\ HashOf[l] \in Hashes
      BY ConstantsAssumption DEF FinalAt
    <3>2. ~moved'[HashOf[l]]
      BY <1>2, <3>1 DEF MovedAt
    <3>3. Settled(HashOf[l])
      BY DEF FinalAt, Settled
    <3>4. Settled(HashOf[l])'
      BY <3>1, <3>3, SettledOn
    <3> QED BY <3>1, <3>2, <3>4 DEF FinalAt, Settled
  <2>2. FinalAt(d) \in SUBSET Logs /\ FinalAt(d)' \in SUBSET Logs
    BY DEF FinalAt
  <2>3. AmountOf(FinalAt(d)) >= Required[d]
    BY <1>2
  <2>4. /\ AmountOf(FinalAt(d)) \in Nat /\ AmountOf(FinalAt(d)') \in Nat
        /\ AmountOf(FinalAt(d)) <= AmountOf(FinalAt(d)') /\ Required[d] \in Nat
    BY <2>1, <2>2, ConstantsAssumption
  <2> QED BY <2>3, <2>4
<1> QED BY <1>1, <1>2

(* A paid invoice stays as well backed as it was.                           *)
LEMMA PaidOn ==
  ASSUME TypeOK, TypeOK', Advances, NEW d \in Deposits, Backed(d),
         reported'[d] = reported[d], file'[d] = "paid" => file[d] = "paid"
  PROVE  Backed(d)'
<1>1. reported[d] # None => Voucher(d, reported[d])'
  BY MinedOn DEF Backed, Voucher
<1>2. ASSUME file[d] = "paid", reported[d] = None
      PROVE  MovedAt(d)' # {} \/ AmountOf(FinalAt(d)') >= Required[d]
  BY <1>2, FinalMoneyOn DEF Backed
<1> QED BY <1>1, <1>2 DEF Backed, Voucher

-----------------------------------------------------------------------------
(* Steps of a pass that write no row.                                       *)
LEMMA PassStep ==
  ASSUME IInv, NEW w \in Sweepers, NEW q, PassHolds(q), Go(w, q),
         UNCHANGED <<chain, invoices, row, report>>,
         cursor' \in Nat \cup {NoCursor}, origin' \in Nat, failures' \in Nat
  PROVE  IInv'
<1>1. q \in Pass
  BY DEF PassHolds
<1>2. pass' \in [Sweepers -> Pass]
  BY <1>1 DEF IInv, TypeOK
<1>3. TypeOK'
  BY <1>2 DEF IInv, TypeOK, chain, invoices
<1>4. Advances
  BY DEF Advances, chain, IInv, TypeOK
<1>5. FinalityLag'
  BY DEF IInv, FinalityLag, chain
<1>6. RowsHold'
  BY <1>3, <1>4, RowOn DEF IInv, RowsHold
<1>7. PassesHold'
  <2> SUFFICES ASSUME NEW v \in Sweepers PROVE PassHolds(pass[v])'
    BY DEF PassesHold
  <2>1. PICK p : p = pass'[v]
    OBVIOUS
  <2>2. PassHolds(p)
    BY <2>1 DEF IInv, PassesHold, TypeOK
  <2>3. PassHolds(p)'
    BY <2>2, <1>3, <1>4, PassOn DEF IInv
  <2> QED BY <2>1, <2>3 DEF PassHolds
<1>8. ReportsHold'
  BY <1>3, <1>4, ReportOn DEF IInv, ReportsHold
<1>9. PaidHolds'
  BY <1>3, <1>4, PaidOn DEF IInv, PaidHolds, invoices
<1> QED BY <1>3, <1>5, <1>6, <1>7, <1>8, <1>9 DEF IInv

LEMMA NoPassHolds ==
  ASSUME TypeOK
  PROVE  NoPass \in Pass /\ PassHolds(NoPass)
<1>1. NoPass \in Pass
  BY DEF NoPass, Pass
<1>2. NoPass.final <= final
  BY DEF NoPass, TypeOK
<1> QED BY <1>1, <1>2 DEF PassHolds, NoPass

(* A pass that has given up or is through scanning keeps two figures.       *)
LEMMA ScannedHolds ==
  ASSUME TypeOK, NEW w \in Sweepers, PassHolds(pass[w])
  PROVE  PassHolds(Scanned(w))
<1>1. pass[w].final \in Nat /\ pass[w].final <= final
  BY DEF PassHolds, Pass
<1>2. Scanned(w) \in Pass
  BY <1>1 DEF Scanned, NoPass, Pass
<1> QED BY <1>1, <1>2 DEF PassHolds, Scanned, NoPass

(* The two answers of the node are both below the finalised block.          *)
LEMMA AnswersAreFinal ==
  ASSUME TypeOK, FinalityLag, NEW f \in IrreversibleBlock
  PROVE  f \in Nat /\ f <= final
BY ConstantsAssumption DEF TypeOK, FinalityLag, IrreversibleBlock

LEMMA ReadChainStep ==
  ASSUME IInv, NEW w \in Sweepers, ReadChain(w)
  PROVE  IInv'
<1>1. PICK f \in IrreversibleBlock :
        Go(w, [NoPass EXCEPT !.pc = "bookmark", !.head = head, !.final = f])
  BY DEF ReadChain
<1> DEFINE q == [NoPass EXCEPT !.pc = "bookmark", !.head = head, !.final = f]
<1>2. f \in Nat /\ f <= final /\ head \in Nat
  BY AnswersAreFinal DEF IInv, TypeOK
<1>3. q \in Pass
  BY <1>2 DEF NoPass, Pass
<1>4. PassHolds(q)
  BY <1>2, <1>3 DEF PassHolds, NoPass
<1> HIDE DEF q
<1> QED BY <1>1, <1>4, PassStep DEF ReadChain, bookmark, IInv, TypeOK, q

LEMMA ReadCursorStep ==
  ASSUME IInv, NEW w \in Sweepers, ReadCursor(w)
  PROVE  IInv'
<1> DEFINE p == pass[w]
           from == IF cursor # NoCursor THEN cursor + 1
                   ELSE IF p.head > Batch THEN p.head - Batch ELSE 0
           span == Batch * MaxRequests
           to == IF from + span > p.head THEN p.head ELSE from + span
           q == [p EXCEPT !.pc = "watch", !.from = from, !.to = to]
<1>1. PassHolds(p) /\ p \in Pass
  BY DEF IInv, PassesHold, PassHolds
<1>2. from \in Nat /\ span \in Nat
  BY <1>1, ConstantsAssumption DEF IInv, TypeOK, Pass, NoCursor
<1>3. to \in Nat
  <2> HIDE DEF from, span
  <2> QED BY <1>1, <1>2 DEF Pass
<1>4. origin' \in Nat
  <2>1. origin' = IF cursor = NoCursor /\ from > origin THEN from ELSE origin
    BY DEF ReadCursor
  <2> HIDE DEF from
  <2> QED BY <2>1, <1>2 DEF IInv, TypeOK
<1>5. PassHolds(q)
  <2> HIDE DEF from, to
  <2>1. q \in Pass
    BY <1>1, <1>2, <1>3 DEF Pass
  <2> QED BY <1>1, <2>1 DEF PassHolds, Pass
<1>6. PassHolds(Scanned(w))
  BY <1>1, ScannedHolds DEF IInv
<1>7. Go(w, IF from > to THEN Scanned(w) ELSE q)
  BY DEF ReadCursor
<1>8. PassHolds(IF from > to THEN Scanned(w) ELSE q)
  <2> HIDE DEF from, to, q
  <2> QED BY <1>5, <1>6
<1>9. UNCHANGED <<chain, invoices, row, report>> /\ cursor' \in Nat \cup {NoCursor} /\ failures' \in Nat
  BY DEF ReadCursor, IInv, TypeOK
<1> HIDE DEF from, to, q
<1> QED BY <1>4, <1>7, <1>8, <1>9, PassStep

LEMMA ReadWatchedStep ==
  ASSUME IInv, NEW w \in Sweepers, ReadWatched(w)
  PROVE  IInv'
<1> DEFINE p == pass[w]
           q == [p EXCEPT !.pc = IF WatchedAddresses = {} THEN "record" ELSE "fetch",
                          !.watched = WatchedAddresses, !.unasked = Windows(p.from, p.to)]
<1>1. PassHolds(p) /\ p \in Pass
  BY DEF IInv, PassesHold, PassHolds
<1>2. WatchedAddresses \in SUBSET (Deposits \cup BankWallets)
  BY DEF WatchedAddresses
<1>3. Windows(p.from, p.to) \in SUBSET (Nat \X Nat)
  BY <1>1, ConstantsAssumption DEF Windows, Pass
<1>4. PassHolds(q)
  <2>1. q \in Pass
    BY <1>1, <1>2, <1>3 DEF Pass
  <2> QED BY <1>1, <2>1 DEF PassHolds, Pass
<1>5. Go(w, q) /\ UNCHANGED <<chain, invoices, row, report, cursor, origin, failures>>
  BY DEF ReadWatched, bookmark
<1> HIDE DEF q
<1> QED BY <1>4, <1>5, PassStep DEF IInv, TypeOK

LEMMA GetLogsStep ==
  ASSUME IInv, NEW w \in Sweepers, GetLogs(w)
  PROVE  IInv'
<1> DEFINE p == pass[w]
<1>1. PassHolds(p) /\ p \in Pass
  BY DEF IInv, PassesHold, PassHolds
<1>2. PICK window \in Lowest(p.unasked) :
        Go(w, [p EXCEPT !.logs = @ \cup TransferLogs(window, p.watched),
                        !.unasked = @ \ {window},
                        !.pc = IF p.unasked = {window} THEN "record" ELSE @])
  BY DEF GetLogs
<1> DEFINE got == TransferLogs(window, p.watched)
           q == [p EXCEPT !.logs = @ \cup got,
                          !.unasked = @ \ {window},
                          !.pc = IF p.unasked = {window} THEN "record" ELSE @]
<1>3. window \in Nat \X Nat
  BY <1>1 DEF Lowest, Pass
<1>4. got \in SUBSET [log : Logs, block : Nat]
  <2> SUFFICES ASSUME NEW e \in got PROVE e \in [log : Logs, block : Nat]
    OBVIOUS
  <2>1. e \in [log : Logs, block : window[1] .. window[2]]
    BY DEF TransferLogs
  <2> QED BY <2>1, <1>3
<1>5. \A e \in got : Stands(HashOf[e.log], e.block)
  BY DEF TransferLogs, Stands
<1>6. q \in Pass
  <2> HIDE DEF got
  <2> QED BY <1>1, <1>4 DEF Pass
<1>7. PassHolds(q)
  <2> HIDE DEF got
  <2>1. /\ q.final = p.final /\ q.logs = p.logs \cup got
        /\ q.maturing = p.maturing /\ q.retry = p.retry /\ q.due = p.due
    BY <1>1 DEF Pass
  <2> HIDE DEF q
  <2> QED BY <1>1, <1>5, <1>6, <2>1 DEF PassHolds
<1> HIDE DEF q
<1>8. Go(w, q) /\ UNCHANGED <<chain, invoices, row, report, cursor, origin, failures>>
  BY <1>2 DEF GetLogs, bookmark, q
<1> QED BY <1>7, <1>8, PassStep DEF IInv, TypeOK

LEMMA HalveStep ==
  ASSUME IInv, NEW w \in Sweepers, Halve(w)
  PROVE  IInv'
<1> DEFINE p == pass[w]
<1>1. PassHolds(p) /\ p \in Pass
  BY DEF IInv, PassesHold, PassHolds
<1>2. PICK window \in Lowest(p.unasked) :
        LET mid == window[1] + ((window[2] - window[1]) \div 2)
        IN  /\ window[1] < window[2]
            /\ Go(w, [p EXCEPT !.unasked = (@ \ {window}) \cup
                                 {<<window[1], mid>>, <<mid + 1, window[2]>>}])
  BY DEF Halve
<1> DEFINE mid == window[1] + ((window[2] - window[1]) \div 2)
           halves == {<<window[1], mid>>, <<mid + 1, window[2]>>}
           q == [p EXCEPT !.unasked = (@ \ {window}) \cup halves]
<1>3. window \in Nat \X Nat
  BY <1>1 DEF Lowest, Pass
<1>4. halves \in SUBSET (Nat \X Nat)
  <2>1. window[1] \in Nat /\ window[2] \in Nat /\ window[1] < window[2]
    BY <1>2, <1>3
  <2>2. mid \in Nat
    BY <2>1
  <2> HIDE DEF mid
  <2> QED BY <2>1, <2>2
<1>5. q \in Pass
  <2> HIDE DEF halves
  <2> QED BY <1>1, <1>4 DEF Pass
<1>6. PassHolds(q)
  <2> HIDE DEF halves
  <2> QED BY <1>1, <1>5 DEF PassHolds, Pass
<1> HIDE DEF q
<1>7. Go(w, q) /\ UNCHANGED <<chain, invoices, row, report, cursor, origin, failures>>
  BY <1>2 DEF Halve, bookmark, q
<1> QED BY <1>6, <1>7, PassStep DEF IInv, TypeOK

LEMMA ScanEnds ==
  ASSUME IInv, NEW w \in Sweepers, GiveUp(w) \/ WriteCursor(w)
  PROVE  IInv'
<1>1. PassHolds(Scanned(w)) /\ pass[w] \in Pass
  BY ScannedHolds DEF IInv, PassesHold, PassHolds
<1>2. CASE GiveUp(w)
  BY <1>1, <1>2, PassStep DEF GiveUp, bookmark, IInv, TypeOK
<1>3. CASE WriteCursor(w)
  BY <1>1, <1>3, PassStep DEF WriteCursor, Pass, IInv, TypeOK
<1> QED BY <1>2, <1>3

-----------------------------------------------------------------------------
(* Steps that go back over the rows.                                        *)

LEMMA ListMaturingStep ==
  ASSUME IInv, NEW w \in Sweepers, ListMaturing(w)
  PROVE  IInv'
<1> DEFINE p == pass[w]
           rows == {[hash |-> h, block |-> row[h].block, matched |-> row[h].matched,
                     confirmations |-> row[h].confirmations] :
                      h \in {g \in Hashes : row[g].status = "CONFIRMING"}}
           q == [p EXCEPT !.pc = "refresh", !.head = head, !.maturing = rows]
<1>1. PassHolds(p) /\ p \in Pass
  BY DEF IInv, PassesHold, PassHolds
<1>2. rows \in SUBSET Maturing
  BY DEF IInv, TypeOK, Row, Maturing
<1>3. \A tx \in rows : Stands(tx.hash, tx.block) /\ Recorded(tx.hash)
  <2> SUFFICES ASSUME NEW h \in Hashes, row[h].status = "CONFIRMING"
               PROVE  Stands(h, row[h].block) /\ Recorded(h)
    OBVIOUS
  <2>1. row[h] # NoRow
    BY DEF NoRow
  <2> QED BY <2>1 DEF IInv, RowsHold, RowHolds, Recorded
<1>4. q \in Pass
  <2> HIDE DEF rows
  <2> QED BY <1>1, <1>2 DEF Pass, IInv, TypeOK
<1>5. PassHolds(q)
  <2> HIDE DEF rows
  <2> QED BY <1>1, <1>3, <1>4 DEF PassHolds, Pass
<1>6. Go(w, q) /\ UNCHANGED <<chain, invoices, row, report, cursor, origin, failures>>
  BY DEF ListMaturing, bookmark
<1> HIDE DEF q
<1> QED BY <1>5, <1>6, PassStep DEF IInv, TypeOK

LEMMA SkipMaturingStep ==
  ASSUME IInv, NEW w \in Sweepers, SkipMaturing(w)
  PROVE  IInv'
<1> DEFINE p == pass[w]
<1>1. PassHolds(p) /\ p \in Pass
  BY DEF IInv, PassesHold, PassHolds
<1>2. PICK tx \in p.maturing : Go(w, [p EXCEPT !.maturing = @ \ {tx}])
  BY DEF SkipMaturing
<1> DEFINE q == [p EXCEPT !.maturing = @ \ {tx}]
<1>3. PassHolds(q)
  BY <1>1 DEF PassHolds, Pass
<1> HIDE DEF q
<1>4. Go(w, q) /\ UNCHANGED <<chain, invoices, row, report, cursor, origin, failures>>
  BY <1>2 DEF SkipMaturing, bookmark, q
<1> QED BY <1>3, <1>4, PassStep DEF IInv, TypeOK

LEMMA ListUnmatchedStep ==
  ASSUME IInv, NEW w \in Sweepers, ListUnmatched(w)
  PROVE  IInv'
<1> DEFINE q == [NoPass EXCEPT !.pc = "retry", !.retry = OldestUnmatched]
<1>1. OldestUnmatched \in SUBSET Hashes
  BY DEF OldestUnmatched, Unmatched
<1>2. \A h \in OldestUnmatched : Settled(h) /\ Recorded(h)
  <2> SUFFICES ASSUME NEW h \in Hashes, row[h].status = "CONFIRMED"
               PROVE  Settled(h) /\ Recorded(h)
    BY DEF OldestUnmatched, Unmatched
  <2>1. row[h] # NoRow
    BY DEF NoRow
  <2> QED BY <2>1 DEF IInv, RowsHold, RowHolds, Recorded
<1>3. q \in Pass
  BY <1>1 DEF NoPass, Pass
<1>4. PassHolds(q)
  BY <1>2, <1>3, NoPassHolds DEF PassHolds, NoPass, IInv
<1> HIDE DEF q
<1>5. Go(w, q) /\ UNCHANGED <<chain, invoices, row, report, cursor, origin, failures>>
  BY DEF ListUnmatched, bookmark, q
<1> QED BY <1>4, <1>5, PassStep DEF IInv, TypeOK

LEMMA RetryNextStep ==
  ASSUME IInv, NEW w \in Sweepers, RetryNext(w)
  PROVE  IInv'
<1> DEFINE p == pass[w]
<1>1. PassHolds(p) /\ p \in Pass
  BY DEF IInv, PassesHold, PassHolds
<1>2. PICK h \in p.retry : Go(w, [p EXCEPT !.retry = @ \ {h}, !.due = h])
  BY DEF RetryNext
<1> DEFINE q == [p EXCEPT !.retry = @ \ {h}, !.due = h]
<1>3. q \in Pass
  BY <1>1 DEF Pass
<1>4. PassHolds(q)
  BY <1>1, <1>3 DEF PassHolds, Pass
<1> HIDE DEF q
<1>5. Go(w, q) /\ UNCHANGED <<chain, invoices, row, report, cursor, origin, failures>>
  BY <1>2 DEF RetryNext, bookmark, q
<1> QED BY <1>4, <1>5, PassStep DEF IInv, TypeOK

LEMMA PassEnds ==
  ASSUME IInv, NEW w \in Sweepers, Finish(w) \/ Fail(w)
  PROVE  IInv'
<1>1. PassHolds(NoPass) /\ failures' \in Nat
  BY NoPassHolds DEF IInv, TypeOK, Finish, Fail
<1> QED BY <1>1, PassStep DEF Finish, Fail, bookmark, IInv, TypeOK

-----------------------------------------------------------------------------
(* Steps that write a row.                                                  *)

(* What is kept when only rows, the passes and the reports change, and      *)
(* what money has paid does not.                                            *)
LEMMA RowStep ==
  ASSUME IInv, UNCHANGED <<chain, invoices, bookmark, failures>>,
         row' \in [Hashes -> Row], \A h \in Hashes : RowHolds(h, row'[h]),
         \A h \in Hashes : row[h] # NoRow => row'[h] # NoRow,
         pass' \in [Sweepers -> Pass],
         report' \in [Reporters -> Report]
  PROVE  /\ TypeOK' /\ Advances /\ FinalityLag' /\ RowsHold' /\ PaidHolds'
<1>1. TypeOK'
  BY DEF IInv, TypeOK, chain, invoices, bookmark
<1>2. Advances
  BY DEF Advances, chain, IInv, TypeOK
<1>3. FinalityLag'
  BY DEF IInv, FinalityLag, chain
<1>4. RowsHold'
  BY DEF RowsHold, RowHolds, Stands, Settled, chain
<1>5. PaidHolds'
  BY <1>1, <1>2, PaidOn DEF IInv, PaidHolds, invoices
<1> QED BY <1>1, <1>2, <1>3, <1>4, <1>5

(* A row written from where a transaction stands.                           *)
LEMMA UpsertHolds ==
  ASSUME IInv, NEW h \in Hashes, NEW l \in Logs, HashOf[l] = h,
         NEW b \in Nat, Stands(h, b), NEW f \in Nat, f <= final, NEW c \in Int
  PROVE  LET r == Upsert(h, l, b, b <= f, c)
         IN  r \in Row /\ RowHolds(h, r) /\ r # NoRow /\ r.log \in Logs /\ HashOf[r.log] = h
<1> DEFINE r == Upsert(h, l, b, b <= f, c)
<1>1. row[h] \in Row /\ RowHolds(h, row[h]) /\ final \in Nat
  BY DEF IInv, TypeOK, RowsHold
<1>2. Cardinality(Known) + 1 \in Nat
  BY FS_Subset, FS_CardinalityType, ConstantsAssumption DEF Known
<1>3. r \in Row
  BY <1>1, <1>2 DEF Upsert, StatusOf, Row
<1>4. r.status = StatusOf(b <= f)
  BY <1>1 DEF Upsert, Row
<1>5. r # NoRow
  BY <1>4 DEF StatusOf, NoRow
<1>6. r.log \in Logs /\ HashOf[r.log] = h /\ Stands(h, r.block)
  <2>1. CASE row[h] = NoRow
    BY <2>1 DEF Upsert
  <2>2. CASE row[h] # NoRow
    BY <1>1, <2>2 DEF Upsert, RowHolds, Row
  <2> QED BY <2>1, <2>2
<1>7. r.status = "CONFIRMED" => Settled(h)
  BY <1>1, <1>4 DEF StatusOf, Settled, Stands
<1> QED BY <1>3, <1>5, <1>6, <1>7 DEF RowHolds

LEMMA RecordStep ==
  ASSUME IInv, NEW w \in Sweepers, Record(w)
  PROVE  IInv'
<1> DEFINE p == pass[w]
<1>1. PassHolds(p) /\ p \in Pass
  BY DEF IInv, PassesHold, PassHolds
<1>2. PICK e \in p.logs :
        /\ row' = [row EXCEPT ![HashOf[e.log]] =
                     Upsert(HashOf[e.log], e.log, e.block, e.block <= p.final, p.head - e.block + 1)]
        /\ Go(w, [p EXCEPT !.logs = @ \ {e},
                           !.due = IF e.block <= p.final /\ ~row[HashOf[e.log]].matched
                                     THEN HashOf[e.log] ELSE None])
  BY DEF Record
<1> DEFINE h == HashOf[e.log]
           r == Upsert(h, e.log, e.block, e.block <= p.final, p.head - e.block + 1)
<1>3. /\ e.log \in Logs /\ e.block \in Nat /\ h \in Hashes
      /\ Stands(h, e.block) /\ p.final \in Nat /\ p.final <= final /\ p.head \in Nat /\ final \in Nat
  BY <1>1, ConstantsAssumption DEF PassHolds, Pass, IInv, TypeOK
<1>4. r \in Row /\ RowHolds(h, r) /\ r # NoRow
  BY <1>3, UpsertHolds
<1>. PICK due : due = IF e.block <= p.final /\ ~row[h].matched THEN h ELSE None
  OBVIOUS
<1> DEFINE q == [p EXCEPT !.logs = @ \ {e}, !.due = due]
<1>5. row' = [row EXCEPT ![h] = r] /\ pass' = [pass EXCEPT ![w] = q]
  BY <1>2
<1>6. due # None => Settled(h)
  BY <1>3 DEF Settled, Stands
<1>7. due \in Hashes \cup {None}
  BY <1>3
<1> HIDE DEF r
<1>8. q \in Pass
  BY <1>1, <1>7 DEF Pass
<1>9. pass' \in [Sweepers -> Pass]
  BY <1>5, <1>8 DEF IInv, TypeOK
<1>10. row' \in [Hashes -> Row] /\ (\A g \in Hashes : RowHolds(g, row'[g]))
  BY <1>3, <1>4, <1>5 DEF IInv, TypeOK, RowsHold
<1>11. \A g \in Hashes : row[g] # NoRow => row'[g] # NoRow
  BY <1>3, <1>4, <1>5 DEF IInv, TypeOK
<1>12. UNCHANGED <<chain, invoices, bookmark, report, failures>>
  BY DEF Record
<1>13. TypeOK' /\ Advances /\ FinalityLag' /\ RowsHold' /\ PaidHolds'
  BY <1>9, <1>10, <1>11, <1>12, RowStep DEF IInv, TypeOK
<1>14. PassesHold'
  <2> SUFFICES ASSUME NEW v \in Sweepers PROVE PassHolds(pass[v])'
    BY DEF PassesHold
  <2>1. CASE v # w
    <3>1. PICK k : k = pass[v]
      OBVIOUS
    <3>2. pass'[v] = k /\ PassHolds(k)
      BY <2>1, <3>1, <1>5 DEF IInv, PassesHold, TypeOK
    <3>3. PassHolds(k)'
      BY <3>2, <1>13, PassOn DEF IInv
    <3> QED BY <3>2, <3>3 DEF PassHolds
  <2>2. CASE v = w
    <3>1. PICK k : k = [p EXCEPT !.logs = @ \ {e}]
      OBVIOUS
    <3>2. k \in Pass /\ k.due = p.due
      BY <3>1, <1>1 DEF Pass
    <3>3. PassHolds(k)
      BY <3>1, <3>2, <1>1 DEF PassHolds, Pass
    <3>4. PassHolds(k)'
      BY <3>3, <1>13, PassOn DEF IInv
    <3>5. /\ q.final = k.final /\ q.logs = k.logs /\ q.maturing = k.maturing
          /\ q.retry = k.retry /\ q.due = due
      BY <3>1, <1>1 DEF Pass
    <3>6. due # None => due = h
      OBVIOUS
    <3>7. due # None => Settled(due)' /\ Recorded(due)'
      <4>1. row'[h] = r
        BY <1>3, <1>5 DEF IInv, TypeOK
      <4> QED BY <3>6, <4>1, <1>3, <1>4, <1>6, <1>13, SettledOn DEF Recorded, IInv
    <3>8. pass'[w] = q
      BY <1>5 DEF IInv, TypeOK
    <3> HIDE DEF q
    <3> QED BY <2>2, <3>4, <3>5, <3>7, <3>8, <1>8 DEF PassHolds
  <2> QED BY <2>1, <2>2
<1>15. ReportsHold'
  BY <1>12, <1>13, ReportOn DEF IInv, ReportsHold
<1> QED BY <1>13, <1>14, <1>15 DEF IInv

LEMMA RefreshStep ==
  ASSUME IInv, NEW w \in Sweepers, Refresh(w)
  PROVE  IInv'
<1> DEFINE p == pass[w]
<1>1. PassHolds(p) /\ p \in Pass
  BY DEF IInv, PassesHold, PassHolds
<1>2. PICK tx \in p.maturing :
        /\ row' = [row EXCEPT ![tx.hash].status = StatusOf(tx.block <= p.final),
                              ![tx.hash].confirmations = p.head - tx.block + 1]
        /\ Go(w, [p EXCEPT !.maturing = @ \ {tx},
                           !.due = IF tx.block <= p.final /\ ~tx.matched THEN tx.hash ELSE None])
  BY DEF Refresh
<1> DEFINE h == tx.hash
           r == [row[h] EXCEPT !.status = StatusOf(tx.block <= p.final),
                               !.confirmations = p.head - tx.block + 1]
<1>. PICK due : due = IF tx.block <= p.final /\ ~tx.matched THEN h ELSE None
  OBVIOUS
<1> DEFINE q == [p EXCEPT !.maturing = @ \ {tx}, !.due = due]
<1>3. /\ h \in Hashes /\ tx.block \in Nat /\ Stands(h, tx.block) /\ Recorded(h)
      /\ p.final \in Nat /\ p.final <= final /\ p.head \in Nat /\ final \in Nat
  BY <1>1 DEF PassHolds, Pass, Maturing, IInv, TypeOK
<1>4. row' = [row EXCEPT ![h] = r] /\ pass' = [pass EXCEPT ![w] = q]
  BY <1>2, <1>3 DEF IInv, TypeOK
<1>5. tx.block <= p.final => Settled(h)
  BY <1>3 DEF Settled, Stands
<1>6. row[h] \in Row /\ RowHolds(h, row[h]) /\ row[h] # NoRow
  BY <1>3 DEF IInv, TypeOK, RowsHold, Recorded
<1>7. r \in Row /\ r.status = StatusOf(tx.block <= p.final) /\ r.log = row[h].log /\ r.block = row[h].block
  <2>1. StatusOf(tx.block <= p.final) \in {"CONFIRMING", "CONFIRMED"}
    BY DEF StatusOf
  <2>2. p.head - tx.block + 1 \in Int
    BY <1>3
  <2>3. row[h] \in [status : {"none", "CONFIRMING", "CONFIRMED"}, log : Logs \cup {None}, block : Nat,
                    confirmations : Int, matched : BOOLEAN, seen : Nat]
    BY <1>6 DEF Row
  <2> QED BY <2>1, <2>2, <2>3 DEF Row
<1>8. r # NoRow
  BY <1>7 DEF StatusOf, NoRow
<1>9. RowHolds(h, r)
  BY <1>5, <1>6, <1>7 DEF RowHolds, StatusOf
<1>10. due \in Hashes \cup {None} /\ (due # None => due = h /\ Settled(h))
  BY <1>3, <1>5
<1> HIDE DEF r
<1>11. q \in Pass
  BY <1>1, <1>10 DEF Pass
<1>12. PassHolds(q)
  BY <1>1, <1>3, <1>10, <1>11 DEF PassHolds, Pass
<1>13. pass' \in [Sweepers -> Pass]
  BY <1>4, <1>11 DEF IInv, TypeOK
<1>14. row' \in [Hashes -> Row] /\ (\A g \in Hashes : RowHolds(g, row'[g]))
  BY <1>3, <1>4, <1>7, <1>9 DEF IInv, TypeOK, RowsHold
<1>15. \A g \in Hashes : row[g] # NoRow => row'[g] # NoRow
  BY <1>3, <1>4, <1>8 DEF IInv, TypeOK
<1>16. UNCHANGED <<chain, invoices, bookmark, report, failures>>
  BY DEF Refresh
<1>17. TypeOK' /\ Advances /\ FinalityLag' /\ RowsHold' /\ PaidHolds'
  BY <1>13, <1>14, <1>15, <1>16, RowStep DEF IInv, TypeOK
<1> HIDE DEF q
<1>18. PassesHold'
  <2> SUFFICES ASSUME NEW v \in Sweepers PROVE PassHolds(pass[v])'
    BY DEF PassesHold
  <2>1. PICK k : k = pass'[v]
    OBVIOUS
  <2>2. PassHolds(k)
    BY <2>1, <1>4, <1>12 DEF IInv, PassesHold, TypeOK
  <2>3. PassHolds(k)'
    BY <2>2, <1>17, PassOn DEF IInv
  <2> QED BY <2>1, <2>3 DEF PassHolds
<1>19. ReportsHold'
  BY <1>16, <1>17, ReportOn DEF IInv, ReportsHold
<1> QED BY <1>17, <1>18, <1>19 DEF IInv

(* The rows a match adds up are of irreversible transfers.                  *)
LEMMA CountedIsFinal ==
  ASSUME IInv, NEW h \in Hashes, Settled(h), Recorded(h), NEW d, MovedAt(d) = {},
         AddressOf[row[h].log] = d
  PROVE  /\ row[h].log \in FinalAt(d)
         /\ Confirmed(d) \subseteq FinalAt(d)
<1>1. row[h].log \in FinalAt(d)
  BY DEF IInv, RowsHold, RowHolds, Recorded, FinalAt, MovedAt, Settled
<1>2. Confirmed(d) \subseteq FinalAt(d)
  <2> SUFFICES ASSUME NEW g \in Known, row[g].status = "CONFIRMED", AddressOf[row[g].log] = d
               PROVE  row[g].log \in FinalAt(d)
    BY DEF Confirmed
  <2> QED BY DEF Known, IInv, RowsHold, RowHolds, FinalAt, MovedAt, Settled
<1> QED BY <1>1, <1>2

LEMMA MatchStep ==
  ASSUME IInv, NEW w \in Sweepers, Match(w)
  PROVE  IInv'
<1> DEFINE p == pass[w]
           h == p.due
           d == AddressOf[row[h].log]
           counted == IF Confirmed(d) = {} THEN {row[h].log} ELSE Confirmed(d)
           total == AmountOf(counted)
           pays == d \in Deposits /\ file[d] = "open" /\ total >= Required[d]
           q == [p EXCEPT !.due = None]
<1>1. PassHolds(p) /\ p \in Pass
  BY DEF IInv, PassesHold, PassHolds
<1>2. h \in Hashes /\ Settled(h) /\ Recorded(h)
  BY <1>1 DEF Match, PassHolds, Pass
<1>3. row[h].log \in Logs /\ row[h] \in Row /\ row[h] # NoRow /\ RowHolds(h, row[h])
  BY <1>2 DEF IInv, RowsHold, RowHolds, Recorded, TypeOK
<1>4. Confirmed(d) \subseteq Logs
  <2> SUFFICES ASSUME NEW g \in Known PROVE row[g].log \in Logs
    BY DEF Confirmed
  <2> QED BY DEF Known, IInv, RowsHold, RowHolds
<1>5. counted \in SUBSET Logs /\ total \in Nat
  BY <1>3, <1>4, ConstantsAssumption
<1>6. /\ file' = [a \in Deposits |-> IF a = d /\ pays THEN "paid" ELSE file[a]]
      /\ row' = [row EXCEPT ![h].matched = @ \/ pays]
      /\ pass' = [pass EXCEPT ![w] = q]
      /\ UNCHANGED <<chain, swept, reported, bookmark, report, failures>>
  BY DEF Match
<1>7. MovedAt(d) = {} => counted \subseteq FinalAt(d)
  BY <1>2, CountedIsFinal
<1>8. pays \in BOOLEAN
  OBVIOUS
<1> HIDE DEF counted, total, pays, d
<1>9. PassHolds(q)
  BY <1>1 DEF PassHolds, Pass
<1>10. row'[h] \in Row /\ row'[h] # NoRow /\ RowHolds(h, row'[h])
  <2>1. row'[h] = [row[h] EXCEPT !.matched = @ \/ pays]
    BY <1>2, <1>6 DEF IInv, TypeOK
  <2>2. row[h].matched \in BOOLEAN
    BY <1>3 DEF Row
  <2>3. row'[h] \in Row
    BY <2>1, <2>2, <1>3, <1>8 DEF Row
  <2>4. row'[h].log = row[h].log /\ row'[h].block = row[h].block /\ row'[h].status = row[h].status
    BY <2>1, <1>3 DEF Row
  <2>5. row'[h] # NoRow
    BY <2>4, <1>3, ConstantsAssumption DEF NoRow
  <2> QED BY <2>3, <2>4, <2>5, <1>3 DEF RowHolds
<1>11. \A g \in Hashes : g # h => row'[g] = row[g]
  BY <1>6 DEF IInv, TypeOK
<1>12. row' \in [Hashes -> Row] /\ (\A g \in Hashes : RowHolds(g, row'[g]))
       /\ (\A g \in Hashes : row[g] # NoRow => row'[g] # NoRow)
  <2>1. \A g \in Hashes : row'[g] \in Row /\ RowHolds(g, row'[g]) /\ (row[g] # NoRow => row'[g] # NoRow)
    BY <1>10, <1>11 DEF IInv, TypeOK, RowsHold
  <2>2. row' = [g \in Hashes |-> row'[g]]
    BY <1>6 DEF IInv, TypeOK
  <2> QED BY <2>1, <2>2
<1>13. TypeOK'
  <2>1. pass' \in [Sweepers -> Pass]
    BY <1>6, <1>9 DEF IInv, TypeOK, PassHolds
  <2>2. file' \in [Deposits -> {"none", "open", "paid", "closed"}]
    BY <1>6 DEF IInv, TypeOK
  <2> QED BY <2>1, <2>2, <1>6, <1>12 DEF IInv, TypeOK, chain, bookmark
<1>14. Advances
  BY <1>6, <1>12 DEF Advances, chain, IInv, TypeOK
<1>15. FinalityLag'
  BY <1>6 DEF IInv, FinalityLag, chain
<1>16. RowsHold'
  BY <1>6, <1>12 DEF RowsHold, RowHolds, Stands, Settled, chain
<1>17. PassesHold'
  <2> SUFFICES ASSUME NEW v \in Sweepers PROVE PassHolds(pass[v])'
    BY DEF PassesHold
  <2>1. PICK k : k = pass'[v]
    OBVIOUS
  <2> HIDE DEF q
  <2>2. PassHolds(k)
    BY <2>1, <1>6, <1>9 DEF IInv, PassesHold, TypeOK
  <2>3. PassHolds(k)'
    BY <2>2, <1>13, <1>14, PassOn DEF IInv
  <2> QED BY <2>1, <2>3 DEF PassHolds
<1>18. ReportsHold'
  BY <1>6, <1>13, <1>14, ReportOn DEF IInv, ReportsHold
<1>19. PaidHolds'
  <2> SUFFICES ASSUME NEW a \in Deposits PROVE Backed(a)'
    BY DEF PaidHolds
  <2>1. CASE file'[a] = "paid" => file[a] = "paid"
    BY <2>1, <1>6, <1>13, <1>14, PaidOn DEF IInv, PaidHolds
  <2>2. CASE file'[a] = "paid" /\ file[a] # "paid"
    <3>1. a = d /\ pays
      BY <1>6, <2>2
    <3>2. total >= Required[a]
      BY <3>1 DEF pays
    <3>3. MovedAt(a)' = MovedAt(a) /\ FinalAt(a)' = FinalAt(a)
      BY <1>6 DEF MovedAt, FinalAt, chain
    <3>4. MovedAt(a) = {} => AmountOf(FinalAt(a)) >= Required[a]
      <4> SUFFICES ASSUME MovedAt(a) = {} PROVE AmountOf(FinalAt(a)) >= Required[a]
        OBVIOUS
      <4>1. counted \subseteq FinalAt(a) /\ FinalAt(a) \in SUBSET Logs
        BY <3>1, <1>7 DEF FinalAt
      <4>2. /\ AmountOf(counted) <= AmountOf(FinalAt(a))
            /\ AmountOf(FinalAt(a)) \in Nat /\ Required[a] \in Nat
        BY <4>1, <1>5, ConstantsAssumption
      <4> QED BY <3>2, <4>2, <1>5 DEF total
    <3>5. reported'[a] # None => Voucher(a, reported[a])
      BY <1>6 DEF IInv, PaidHolds, Backed
    <3> QED BY <3>3, <3>4, <3>5, <1>6 DEF Backed, Voucher, Mined, chain
  <2> QED BY <2>1, <2>2
<1> QED BY <1>13, <1>15, <1>16, <1>17, <1>18, <1>19 DEF IInv

-----------------------------------------------------------------------------
(* Reports of a hash.                                                       *)

LEMMA ReadReceiptStep ==
  ASSUME IInv, NEW r \in Reporters, NEW h \in Hashes, ReadReceipt(r, h)
  PROVE  IInv'
<1>1. PICK f \in IrreversibleBlock :
        report' = [report EXCEPT ![r] = [pc |-> "record", hash |-> h, block |-> place[h],
                                         head |-> head, final |-> f]]
  BY DEF ReadReceipt
<1>2. /\ f \in Nat /\ f <= final /\ place[h] \in Nat /\ place[h] # 0 /\ head \in Nat
      /\ LET d == AddressOf[FirstLog[h]]
         IN  d \in Deposits => AmountOf({FirstLog[h]}) >= Required[d]
  BY AnswersAreFinal DEF IInv, TypeOK, ReadReceipt, Reportable
<1>3. UNCHANGED <<chain, invoices, row, bookmark, pass, failures>>
  BY DEF ReadReceipt
<1>4. report' \in [Reporters -> Report]
  BY <1>1, <1>2 DEF IInv, TypeOK, Report
<1>5. TypeOK' /\ Advances /\ FinalityLag' /\ RowsHold' /\ PaidHolds'
  BY <1>3, <1>4, RowStep DEF IInv, TypeOK, RowsHold
<1>6. PassesHold'
  <2> SUFFICES ASSUME NEW v \in Sweepers PROVE PassHolds(pass[v])'
    BY DEF PassesHold
  <2>1. PICK k : k = pass'[v]
    OBVIOUS
  <2>2. PassHolds(k)'
    BY <2>1, <1>3, <1>5, PassOn DEF IInv, PassesHold
  <2> QED BY <2>1, <2>2 DEF PassHolds
<1>7. ReportsHold'
  <2> SUFFICES ASSUME NEW u \in Reporters PROVE ReportHolds(report[u])'
    BY DEF ReportsHold
  <2>1. CASE u # r
    BY <2>1, <1>1, <1>5, ReportOn DEF IInv, ReportsHold, TypeOK, ReportHolds
  <2>2. CASE u = r
    <3>1. report'[u] = [pc |-> "record", hash |-> h, block |-> place[h], head |-> head, final |-> f]
      BY <2>2, <1>1 DEF IInv, TypeOK
    <3>2. final' = final /\ place' = place /\ moved' = moved
      BY <1>3 DEF chain
    <3> QED BY <3>1, <3>2, <1>2 DEF ReportHolds, Stands, Mined
  <2> QED BY <2>1, <2>2
<1> QED BY <1>5, <1>6, <1>7 DEF IInv

LEMMA RecordChainTxStep ==
  ASSUME IInv, NEW r \in Reporters, RecordChainTx(r)
  PROVE  IInv'
<1> DEFINE t == report[r]
           h == t.hash
           up == Upsert(h, FirstLog[h], t.block, t.block <= t.final, t.head - t.block + 1)
           x == [up EXCEPT !.block = t.block]
<1>1. t.pc = "record" /\ ReportHolds(t)
  BY DEF RecordChainTx, IInv, ReportsHold
<1>2. /\ h \in Hashes /\ t.block \in Nat /\ t.head \in Nat /\ t.final \in Nat
      /\ t.final <= final /\ Stands(h, t.block)
  BY <1>1 DEF ReportHolds, IInv, TypeOK, Report
<1>3. FirstLog[h] \in Logs /\ HashOf[FirstLog[h]] = h
  BY <1>2, ConstantsAssumption
<1>4. up \in Row /\ RowHolds(h, up) /\ up # NoRow /\ up.log \in Logs /\ HashOf[up.log] = h
  BY <1>2, <1>3, UpsertHolds
<1>5. row' = [row EXCEPT ![h] = x]
  BY DEF RecordChainTx
<1>6. UNCHANGED <<chain, invoices, bookmark, pass, failures>>
  BY DEF RecordChainTx
<1> HIDE DEF up
<1>7. x \in Row /\ x.log = up.log /\ x.status = up.status /\ x.block = t.block
  BY <1>2, <1>4 DEF Row
<1>8. RowHolds(h, x)
  BY <1>2, <1>4, <1>7 DEF RowHolds
<1>9. x # NoRow
  BY <1>4, <1>7, ConstantsAssumption DEF NoRow
<1> HIDE DEF x
<1>10. row' \in [Hashes -> Row] /\ (\A g \in Hashes : RowHolds(g, row'[g]))
  BY <1>2, <1>5, <1>7, <1>8 DEF IInv, TypeOK, RowsHold
<1>11. \A g \in Hashes : row[g] # NoRow => row'[g] # NoRow
  BY <1>2, <1>5, <1>9 DEF IInv, TypeOK
<1>12. PICK z : /\ report' = [report EXCEPT ![r] = z] /\ z \in Report
                /\ z = NoReport \/ /\ AddressOf[FirstLog[h]] \in Deposits
                                    /\ z = [pc |-> "confirm", hash |-> h, block |-> 0,
                                            head |-> 0, final |-> 0]
  <2>1. report' = [report EXCEPT ![r] =
            IF AddressOf[FirstLog[h]] \in Deposits /\ ~row[h].matched
              THEN [pc |-> "confirm", hash |-> h, block |-> 0, head |-> 0, final |-> 0]
              ELSE NoReport]
    BY DEF RecordChainTx
  <2>2. NoReport \in Report
    BY DEF NoReport, Report
  <2>3. [pc |-> "confirm", hash |-> h, block |-> 0, head |-> 0, final |-> 0] \in Report
    BY <1>2 DEF Report
  <2> QED BY <2>1, <2>2, <2>3
<1>13. report' \in [Reporters -> Report]
  BY <1>12 DEF IInv, TypeOK
<1>14. TypeOK' /\ Advances /\ FinalityLag' /\ RowsHold' /\ PaidHolds'
  BY <1>6, <1>10, <1>11, <1>13, RowStep DEF IInv, TypeOK
<1>15. PassesHold'
  <2> SUFFICES ASSUME NEW v \in Sweepers PROVE PassHolds(pass[v])'
    BY DEF PassesHold
  <2>1. PICK k : k = pass'[v]
    OBVIOUS
  <2>2. PassHolds(k)'
    BY <2>1, <1>6, <1>14, PassOn DEF IInv, PassesHold
  <2> QED BY <2>1, <2>2 DEF PassHolds
<1>16. ReportsHold'
  <2> SUFFICES ASSUME NEW u \in Reporters PROVE ReportHolds(report[u])'
    BY DEF ReportsHold
  <2>1. CASE u # r
    BY <2>1, <1>12, <1>14, ReportOn DEF IInv, ReportsHold, TypeOK, ReportHolds
  <2>2. CASE u = r
    <3>1. report'[u] = z
      BY <2>2, <1>12 DEF IInv, TypeOK
    <3>2. PICK g \in Hashes : g = h
      BY <1>2
    <3>3. z.final = 0 /\ z.pc # "record" /\ (z.pc # "idle" => z.hash = g)
      BY <1>12, <3>2 DEF NoReport
    <3>4. z.pc = "confirm" => AddressOf[FirstLog[g]] \in Deposits
      BY <1>12, <3>2 DEF NoReport
    <3>5. Mined(g) /\ (AddressOf[FirstLog[g]] \in Deposits
                         => AmountOf({FirstLog[g]}) >= Required[AddressOf[FirstLog[g]]])
      BY <1>1, <3>2 DEF ReportHolds
    <3>6. Mined(g)'
      BY <3>5, <1>14, MinedOn DEF IInv
    <3>7. 0 <= final'
      BY <1>14 DEF TypeOK
    <3> QED BY <3>1, <3>3, <3>4, <3>5, <3>6, <3>7 DEF ReportHolds
  <2> QED BY <2>1, <2>2
<1> QED BY <1>14, <1>15, <1>16 DEF IInv

LEMMA ConfirmPaymentStep ==
  ASSUME IInv, NEW r \in Reporters, ConfirmPayment(r)
  PROVE  IInv'
<1> PICK h : h = report[r].hash
  OBVIOUS
<1> DEFINE d == AddressOf[FirstLog[h]]
<1>1. Voucher(d, h) /\ d \in Deposits /\ h \in Hashes
  BY DEF ConfirmPayment, IInv, ReportsHold, ReportHolds, Voucher
<1>2. /\ file' = [file EXCEPT ![d] = "paid"] /\ reported' = [reported EXCEPT ![d] = h]
      /\ report' = [report EXCEPT ![r] = NoReport]
      /\ UNCHANGED <<chain, swept, row, bookmark, pass, failures>>
  BY DEF ConfirmPayment
<1> HIDE DEF d
<1>3. NoReport \in Report
  BY DEF NoReport, Report
<1>4. TypeOK'
  BY <1>1, <1>2, <1>3 DEF IInv, TypeOK, chain, bookmark
<1>5. Advances
  BY <1>2 DEF Advances, chain, IInv, TypeOK
<1>6. FinalityLag' /\ RowsHold'
  BY <1>2 DEF IInv, FinalityLag, RowsHold, RowHolds, Stands, Settled, chain
<1>7. PassesHold'
  <2> SUFFICES ASSUME NEW v \in Sweepers PROVE PassHolds(pass[v])'
    BY DEF PassesHold
  <2>1. PICK k : k = pass'[v]
    OBVIOUS
  <2>2. PassHolds(k)'
    BY <2>1, <1>2, <1>4, <1>5, PassOn DEF IInv, PassesHold
  <2> QED BY <2>1, <2>2 DEF PassHolds
<1>8. ReportsHold'
  <2> SUFFICES ASSUME NEW u \in Reporters PROVE ReportHolds(report[u])'
    BY DEF ReportsHold
  <2>1. CASE u # r
    BY <2>1, <1>2, <1>4, <1>5, ReportOn DEF IInv, ReportsHold, TypeOK, ReportHolds
  <2>2. CASE u = r
    BY <2>2, <1>2, <1>4 DEF ReportHolds, NoReport, IInv, TypeOK
  <2> QED BY <2>1, <2>2
<1>9. PaidHolds'
  <2> SUFFICES ASSUME NEW a \in Deposits PROVE Backed(a)'
    BY DEF PaidHolds
  <2>1. CASE a # d
    BY <2>1, <1>2, <1>4, <1>5, PaidOn DEF IInv, PaidHolds, TypeOK
  <2>2. CASE a = d
    <3>1. reported'[a] = h
      BY <2>2, <1>2 DEF IInv, TypeOK
    <3>2. h # None
      BY <1>1, ConstantsAssumption
    <3>3. Voucher(a, h)'
      BY <2>2, <1>1, <1>4, <1>5, MinedOn DEF Voucher, IInv
    <3> QED BY <3>1, <3>2, <3>3 DEF Backed, Voucher
  <2> QED BY <2>1, <2>2
<1> QED BY <1>4, <1>6, <1>7, <1>8, <1>9 DEF IInv

-----------------------------------------------------------------------------
(* The world.                                                               *)

(* The chain moves on or an invoice changes, and no row, pass or report.    *)
LEMMA WorldStep ==
  ASSUME IInv, TypeOK', Advances, FinalityLag', UNCHANGED <<row, pass, report, reported>>,
         \A d \in Deposits : file'[d] = "paid" => file[d] = "paid"
  PROVE  IInv'
<1>1. RowsHold'
  <2> SUFFICES ASSUME NEW h \in Hashes PROVE RowHolds(h, row[h])'
    BY DEF RowsHold
  <2>1. PICK r : r = row'[h]
    OBVIOUS
  <2>2. RowHolds(h, r)'
    BY <2>1, RowOn DEF IInv, RowsHold
  <2> QED BY <2>1, <2>2 DEF RowHolds
<1>2. PassesHold'
  <2> SUFFICES ASSUME NEW v \in Sweepers PROVE PassHolds(pass[v])'
    BY DEF PassesHold
  <2>1. PICK k : k = pass'[v]
    OBVIOUS
  <2>2. PassHolds(k)'
    BY <2>1, PassOn DEF IInv, PassesHold
  <2> QED BY <2>1, <2>2 DEF PassHolds
<1>3. ReportsHold'
  BY ReportOn DEF IInv, ReportsHold
<1>4. PaidHolds'
  BY PaidOn DEF IInv, PaidHolds
<1> QED BY <1>1, <1>2, <1>3, <1>4 DEF IInv

LEMMA NewBlockStep ==
  ASSUME IInv, NewBlock
  PROVE  IInv'
<1>1. PICK S \in SUBSET {h \in Hashes : place[h] = 0} :
        place' = [h \in Hashes |-> IF h \in S THEN head + 1 ELSE place[h]]
  BY DEF NewBlock
<1>2. head' = head + 1 /\ head + 1 - final <= MinConfirmations
      /\ UNCHANGED <<final, moved, reorgs, invoices, row, bookmark, pass, report, failures>>
  BY DEF NewBlock
<1>3. head \in Nat /\ final \in Nat /\ final <= head
  BY DEF IInv, TypeOK, FinalityLag
<1>4. place' \in [Hashes -> Nat]
  BY <1>1, <1>3 DEF IInv, TypeOK
<1>5. TypeOK'
  BY <1>2, <1>3, <1>4 DEF IInv, TypeOK, invoices, bookmark
<1>6. Advances
  BY <1>1, <1>2, <1>3 DEF Advances
<1>7. FinalityLag'
  BY <1>2, <1>3 DEF FinalityLag
<1> QED BY <1>2, <1>5, <1>6, <1>7, WorldStep DEF invoices

LEMMA FinalizeStep ==
  ASSUME IInv, Finalize
  PROVE  IInv'
<1>1. head \in Nat /\ final \in Nat /\ MinConfirmations \in Nat /\ head - final <= MinConfirmations
  BY ConstantsAssumption DEF IInv, TypeOK, FinalityLag
<1>2. TypeOK'
  BY <1>1 DEF Finalize, IInv, TypeOK, invoices, bookmark
<1>3. Advances
  BY <1>1 DEF Finalize, Advances
<1>4. FinalityLag'
  BY <1>1 DEF Finalize, FinalityLag
<1> QED BY <1>2, <1>3, <1>4, WorldStep DEF Finalize, invoices

LEMMA ReorganiseStep ==
  ASSUME IInv, NEW b \in 1..MaxBlock, Reorganise(b)
  PROVE  IInv'
<1>1. place' \in [Hashes -> 0..head] /\ head \in Nat
  BY DEF Reorganise, IInv, TypeOK
<1>2. moved' = [h \in Hashes |-> moved[h] \/ place'[h] # place[h]]
  BY DEF Reorganise
<1>3. moved' \in [Hashes -> BOOLEAN]
  BY <1>2 DEF IInv, TypeOK
<1>4. place' \in [Hashes -> Nat]
  BY <1>1
<1>5. TypeOK'
  BY <1>3, <1>4 DEF Reorganise, IInv, TypeOK, invoices, bookmark
<1>6. Advances
  <2>1. final' = final /\ row' = row /\ final \in Nat
    BY DEF Reorganise, IInv, TypeOK
  <2>2. \A h \in Hashes : moved'[h] <=> (moved[h] \/ place'[h] # place[h])
    BY <1>2, Zenon
  <2> QED BY <2>1, <2>2 DEF Advances
<1>7. FinalityLag'
  BY DEF Reorganise, IInv, FinalityLag
<1> QED BY <1>5, <1>6, <1>7, WorldStep DEF Reorganise, invoices

LEMMA FileStep ==
  ASSUME IInv, NEW d \in Deposits, Allocate(d) \/ CallOff(d) \/ Sweep(d)
  PROVE  IInv'
<1>1. UNCHANGED <<chain, reported, row, bookmark, pass, report, failures>>
  BY DEF Allocate, CallOff, Sweep
<1>2. file' \in [Deposits -> {"none", "open", "paid", "closed"}] /\ swept' \in [Deposits -> BOOLEAN]
  BY DEF Allocate, CallOff, Sweep, IInv, TypeOK
<1>3. \A a \in Deposits : file'[a] = "paid" => file[a] = "paid"
  BY DEF Allocate, CallOff, Sweep, IInv, TypeOK
<1>4. TypeOK'
  BY <1>1, <1>2 DEF IInv, TypeOK, chain, bookmark
<1>5. Advances
  BY <1>1 DEF Advances, chain, IInv, TypeOK
<1>6. FinalityLag'
  BY <1>1 DEF IInv, FinalityLag, chain
<1> QED BY <1>1, <1>3, <1>4, <1>5, <1>6, WorldStep

-----------------------------------------------------------------------------
(* The theorems.                                                            *)

LEMMA InitHolds ==
  ASSUME Init
  PROVE  IInv
<1>1. NoRow \in Row /\ NoReport \in Report
  BY DEF NoRow, Row, NoReport, Report
<1>2. NoPass \in Pass
  BY DEF NoPass, Pass
<1>3. TypeOK
  BY <1>1, <1>2 DEF Init, TypeOK
<1>4. FinalityLag
  BY ConstantsAssumption DEF Init, FinalityLag
<1>5. RowsHold
  BY DEF Init, RowsHold, RowHolds
<1>6. PassesHold
  BY <1>3, NoPassHolds DEF Init, PassesHold
<1>7. ReportsHold
  BY DEF Init, ReportsHold, ReportHolds, NoReport
<1>8. PaidHolds
  BY DEF Init, PaidHolds, Backed
<1> QED BY <1>3, <1>4, <1>5, <1>6, <1>7, <1>8 DEF IInv

LEMMA StepHolds ==
  ASSUME IInv, [Next]_vars
  PROVE  IInv'
<1>1. ASSUME NEW w \in Sweepers, Scan(w)
      PROVE  IInv'
  BY <1>1, ReadChainStep, ReadCursorStep, ReadWatchedStep, GetLogsStep, HalveStep, ScanEnds, RecordStep
     DEF Scan
<1>2. ASSUME NEW w \in Sweepers, Revisit(w)
      PROVE  IInv'
  BY <1>2, ListMaturingStep, SkipMaturingStep, RefreshStep, ListUnmatchedStep, RetryNextStep, PassEnds
     DEF Revisit
<1>3. CASE World
  BY <1>3, NewBlockStep, FinalizeStep, ReorganiseStep, FileStep DEF World
<1>4. CASE UNCHANGED vars
  <2>1. TypeOK' /\ Advances /\ FinalityLag'
    BY <1>4 DEF IInv, TypeOK, Advances, FinalityLag, vars, chain, invoices, bookmark
  <2> QED BY <1>4, <2>1, WorldStep DEF vars, invoices
<1> QED BY <1>1, <1>2, <1>3, <1>4, MatchStep, PassEnds, ReadReceiptStep, RecordChainTxStep,
       ConfirmPaymentStep DEF Next

LEMMA Invariance == Spec => []IInv
BY InitHolds, StepHolds, PTL DEF Spec

(* Types are kept, however many passes and reports overlap, are refused or  *)
(* die, on a chain of any length that reorganises at will above finality.   *)
THEOREM TypeCorrect == Spec => []TypeOK
<1>1. IInv => TypeOK
  BY DEF IInv
<1> QED BY <1>1, Invariance, PTL

(* refreshConfirmations, runWatcher and recordChainTx write CONFIRMED only  *)
(* of a transaction in a block that cannot change, unless it was moved.     *)
THEOREM ConfirmedIsFinalAlways == Spec => []ConfirmedIsFinal
<1>1. IInv => ConfirmedIsFinal
  <2> SUFFICES ASSUME IInv, NEW h \in Hashes, row[h].status = "CONFIRMED"
               PROVE  moved[h] \/ (place[h] # 0 /\ place[h] <= final)
    BY DEF ConfirmedIsFinal
  <2>1. row[h] # NoRow
    BY DEF NoRow
  <2> QED BY <2>1 DEF IInv, RowsHold, RowHolds, Settled
<1> QED BY <1>1, Invariance, PTL

(* matchInvoice marks an invoice paid only on irreversible money at its own *)
(* address that covers it, confirmPayment only on one mined transfer that   *)
(* does - unless a reorganisation moved a transfer to the address.          *)
THEOREM PaidIsCoveredAlways == Spec => []PaidIsCovered
<1>1. IInv => PaidIsCovered
  <2> SUFFICES ASSUME IInv, NEW d \in Deposits, file[d] = "paid", MovedAt(d) = {},
                      ~(AmountOf(FinalAt(d)) >= Required[d])
               PROVE  Vouched(d)
    BY DEF PaidIsCovered
  <2>1. reported[d] # None /\ Voucher(d, reported[d])
    BY DEF IInv, PaidHolds, Backed
  <2>2. ~moved[reported[d]]
    <3>1. HashOf[FirstLog[reported[d]]] = reported[d] /\ FirstLog[reported[d]] \in Logs
      BY <2>1, ConstantsAssumption DEF Voucher
    <3> QED BY <2>1, <3>1 DEF Voucher, MovedAt
  <2> QED BY <2>1, <2>2 DEF Voucher, Mined, Vouched
<1> QED BY <1>1, Invariance, PTL

-----------------------------------------------------------------------------
(* The bookmark.  What a pass still owes a transfer is a window to ask for  *)
(* or an answer to write; it moves the bookmark when it owes nothing, and   *)
(* a transfer that arrives in the meantime lands above the head it read.    *)

(* A transfer that has to have a row once the bookmark is past it.          *)
Owed(l) ==
  /\ place[HashOf[l]] # 0 /\ place[HashOf[l]] >= origin
  /\ Paid(AddressOf[l])
  /\ ~moved[HashOf[l]] /\ row[HashOf[l]] = NoRow

(* Nobody pays an address before it is allocated.                           *)
Placed ==
  \A l \in Logs : place[HashOf[l]] # 0 /\ AddressOf[l] \in Deposits => file[AddressOf[l]] # "none"

BookmarkHolds ==
  /\ cursor <= head
  /\ \A l \in Logs : Owed(l) => cursor < place[HashOf[l]]

(* The transfer is in a window to ask for, or among the answers.            *)
Asking(p, l) == \E q \in p.unasked : q[1] <= place[HashOf[l]] /\ place[HashOf[l]] <= q[2]
Holding(p, l) == [log |-> l, block |-> place[HashOf[l]]] \in p.logs

(* What a pass that scans leaves behind it, and what it has in hand.        *)
ScanHolds(p) ==
  /\ p.head <= head
  /\ p.pc \in {"watch", "fetch", "record"} =>
       /\ p.from <= p.to /\ p.to <= head
       /\ \A l \in Logs : Owed(l) => p.from <= place[HashOf[l]]
  /\ p.pc \in {"fetch", "record"} =>
       \A l \in Logs : Owed(l) /\ place[HashOf[l]] <= p.to =>
         AddressOf[l] \in p.watched /\ (Asking(p, l) \/ Holding(p, l))
  /\ p.pc = "record" => p.unasked = {} \/ p.watched = {}

ScansHold == \A w \in Sweepers : ScanHolds(pass[w])

SInv == Placed /\ BookmarkHolds /\ ScansHold

(* The world only moves on: finality aside, what a step may change.         *)
OnlyGrows ==
  /\ head <= head' /\ origin <= origin'
  /\ \A h \in Hashes :
       /\ moved[h] => moved'[h]
       /\ row[h] # NoRow => row'[h] # NoRow
       /\ place'[h] = place[h] \/ moved'[h] \/ place'[h] > head
  /\ \A d \in Deposits : (swept[d] => swept'[d]) /\ (file[d] # "none" => file'[d] # "none")

LEMMA QuietGrows ==
  ASSUME TypeOK, UNCHANGED <<chain, invoices, bookmark>>,
         \A h \in Hashes : row[h] # NoRow => row'[h] # NoRow
  PROVE  OnlyGrows
BY DEF OnlyGrows, TypeOK, chain, invoices, bookmark

(* A row is never replaced by none.                                         *)
LEMMA UpsertIsRow ==
  ASSUME TypeOK, NEW h \in Hashes, NEW l, NEW b, NEW confirmed, NEW c,
         NEW r, r = Upsert(h, l, b, confirmed, c)
  PROVE  r # NoRow /\ [r EXCEPT !.block = b] # NoRow
<1>1. row[h] \in Row /\ StatusOf(confirmed) \in {"CONFIRMING", "CONFIRMED"}
  BY DEF TypeOK, StatusOf
<1>2. r.status = StatusOf(confirmed) /\ [r EXCEPT !.block = b].status = StatusOf(confirmed)
  BY <1>1 DEF Upsert, Row
<1>3. NoRow.status = "none"
  BY DEF NoRow
<1> QED BY <1>1, <1>2, <1>3

LEMMA RowStepsGrow ==
  ASSUME IInv, NEW w \in Sweepers, Record(w) \/ Refresh(w) \/ Match(w)
  PROVE  OnlyGrows
<1>1. PassHolds(pass[w]) /\ pass[w] \in Pass
  BY DEF IInv, PassesHold, PassHolds
<1>2. TypeOK
  BY DEF IInv
<1>3. CASE Record(w)
  <2>1. PICK e \in pass[w].logs :
          row' = [row EXCEPT ![HashOf[e.log]] =
                    Upsert(HashOf[e.log], e.log, e.block, e.block <= pass[w].final,
                           pass[w].head - e.block + 1)]
    BY <1>3 DEF Record
  <2> DEFINE r == Upsert(HashOf[e.log], e.log, e.block, e.block <= pass[w].final,
                         pass[w].head - e.block + 1)
  <2>2. HashOf[e.log] \in Hashes
    BY <1>1, ConstantsAssumption DEF Pass
  <2>3. r # NoRow
    BY <1>2, <2>2, UpsertIsRow, Zenon
  <2> HIDE DEF r
  <2>4. \A h \in Hashes : row[h] # NoRow => row'[h] # NoRow
    BY <2>1, <2>3, <1>2 DEF TypeOK, r
  <2> QED BY <1>2, <1>3, <2>4, QuietGrows DEF Record
<1>4. CASE Refresh(w)
  <2>1. PICK tx \in pass[w].maturing :
          row' = [row EXCEPT ![tx.hash].status = StatusOf(tx.block <= pass[w].final),
                             ![tx.hash].confirmations = pass[w].head - tx.block + 1]
    BY <1>4 DEF Refresh
  <2>2. tx.hash \in Hashes /\ row[tx.hash] \in Row
    BY <1>1, <1>2 DEF Pass, Maturing, TypeOK
  <2>3. row'[tx.hash].status = StatusOf(tx.block <= pass[w].final)
    BY <2>1, <2>2, <1>2 DEF TypeOK, Row
  <2>4. row'[tx.hash] # NoRow
    BY <2>3 DEF StatusOf, NoRow
  <2>5. \A h \in Hashes : row[h] # NoRow => row'[h] # NoRow
    BY <2>1, <2>4, <1>2 DEF TypeOK
  <2> QED BY <1>2, <1>4, <2>5, QuietGrows DEF Refresh
<1>5. CASE Match(w)
  <2> DEFINE h == pass[w].due
  <2>1. h \in Hashes /\ Recorded(h) /\ row[h] \in Row
    BY <1>1, <1>2, <1>5 DEF Match, PassHolds, Pass, TypeOK
  <2>2. PICK pays : row' = [row EXCEPT ![h].matched = @ \/ pays]
    BY <1>5 DEF Match
  <2>3. RowHolds(h, row[h]) /\ row[h].log \in Logs
    BY <2>1 DEF IInv, RowsHold, RowHolds, Recorded
  <2>4. row'[h].log = row[h].log
    BY <2>1, <2>2, <1>2 DEF TypeOK, Row
  <2>5. row'[h] # NoRow
    BY <2>3, <2>4, ConstantsAssumption DEF NoRow
  <2>6. \A g \in Hashes : row[g] # NoRow => row'[g] # NoRow
    BY <2>2, <2>5, <1>2 DEF TypeOK
  <2>7. \A d \in Deposits : file[d] # "none" => file'[d] # "none"
    BY <1>5 DEF Match
  <2>8. UNCHANGED <<chain, swept, bookmark>>
    BY <1>5 DEF Match
  <2> QED BY <2>6, <2>7, <2>8, <1>2 DEF OnlyGrows, chain, bookmark, TypeOK
<1> QED BY <1>3, <1>4, <1>5

LEMMA PassStepsGrow ==
  ASSUME IInv, NEW w \in Sweepers, Scan(w) \/ Revisit(w) \/ Match(w) \/ Fail(w)
  PROVE  OnlyGrows
<1>1. TypeOK
  BY DEF IInv
<1>2. CASE ReadCursor(w)
  <2>1. UNCHANGED <<chain, invoices, row>>
    BY <1>2 DEF ReadCursor
  <2>2. origin <= origin'
    <3>1. PICK from : origin' = IF cursor = NoCursor /\ from > origin THEN from ELSE origin
      BY <1>2 DEF ReadCursor
    <3>2. origin \in Nat /\ origin' \in Nat
      BY <1>1, <1>2, ReadCursorStep DEF IInv, TypeOK
    <3> QED BY <3>1, <3>2
  <2> QED BY <1>1, <2>1, <2>2 DEF OnlyGrows, TypeOK, chain, invoices
<1>3. CASE WriteCursor(w)
  <2>1. UNCHANGED <<chain, invoices, row, origin>>
    BY <1>3 DEF WriteCursor
  <2> QED BY <1>1, <2>1 DEF OnlyGrows, TypeOK, chain, invoices
<1>4. CASE UNCHANGED <<chain, invoices, row, bookmark>>
  BY <1>1, <1>4, QuietGrows
<1>5. CASE Record(w) \/ Refresh(w) \/ Match(w)
  BY <1>5, RowStepsGrow
<1>6. Scan(w) => \/ ReadCursor(w) \/ WriteCursor(w) \/ Record(w)
                 \/ UNCHANGED <<chain, invoices, row, bookmark>>
  BY DEF Scan, ReadChain, ReadWatched, GetLogs, Halve, GiveUp
<1>7. Revisit(w) => Refresh(w) \/ UNCHANGED <<chain, invoices, row, bookmark>>
  BY DEF Revisit, ListMaturing, SkipMaturing, ListUnmatched, RetryNext, Finish
<1>8. Fail(w) => UNCHANGED <<chain, invoices, row, bookmark>>
  BY DEF Fail
<1> QED BY <1>2, <1>3, <1>4, <1>5, <1>6, <1>7, <1>8

LEMMA ReportStepsGrow ==
  ASSUME IInv, NEW r \in Reporters,
         RecordChainTx(r) \/ ConfirmPayment(r) \/ (\E h \in Hashes : ReadReceipt(r, h))
  PROVE  OnlyGrows
<1>1. TypeOK
  BY DEF IInv
<1>2. CASE \E h \in Hashes : ReadReceipt(r, h)
  BY <1>1, <1>2, QuietGrows DEF ReadReceipt
<1>3. CASE RecordChainTx(r)
  <2> DEFINE t == report[r]
             up == Upsert(t.hash, FirstLog[t.hash], t.block, t.block <= t.final, t.head - t.block + 1)
             x == [up EXCEPT !.block = t.block]
  <2>1. t.hash \in Hashes
    BY <1>3 DEF RecordChainTx, IInv, ReportsHold, ReportHolds
  <2>2. row' = [row EXCEPT ![t.hash] = x]
    BY <1>3 DEF RecordChainTx
  <2>3. x # NoRow
    BY <1>1, <2>1, UpsertIsRow
  <2> HIDE DEF x
  <2>4. \A h \in Hashes : row[h] # NoRow => row'[h] # NoRow
    BY <1>1, <2>2, <2>3 DEF TypeOK
  <2> QED BY <1>1, <1>3, <2>4, QuietGrows DEF RecordChainTx
<1>4. CASE ConfirmPayment(r)
  BY <1>1, <1>4 DEF ConfirmPayment, OnlyGrows, chain, bookmark, TypeOK
<1> QED BY <1>2, <1>3, <1>4

LEMMA WorldGrows ==
  ASSUME IInv, World
  PROVE  OnlyGrows
<1>1. TypeOK /\ head \in Nat /\ origin \in Nat
  BY DEF IInv, TypeOK
<1>2. CASE NewBlock
  <2>1. PICK S : place' = [h \in Hashes |-> IF h \in S THEN head + 1 ELSE place[h]]
    BY <1>2 DEF NewBlock
  <2> QED BY <1>1, <1>2, <2>1 DEF NewBlock, OnlyGrows, invoices, bookmark
<1>3. CASE Finalize
  BY <1>1, <1>3 DEF Finalize, OnlyGrows, invoices, bookmark
<1>4. ASSUME NEW b \in 1..MaxBlock, Reorganise(b)
      PROVE  OnlyGrows
  <2>1. moved' = [h \in Hashes |-> moved[h] \/ place'[h] # place[h]]
    BY <1>4 DEF Reorganise
  <2>2. \A h \in Hashes : moved'[h] <=> (moved[h] \/ place'[h] # place[h])
    BY <2>1, Zenon
  <2>3. UNCHANGED <<head, final, invoices, row, bookmark>>
    BY <1>4 DEF Reorganise
  <2> QED BY <1>1, <2>2, <2>3 DEF OnlyGrows, invoices, bookmark
<1>5. ASSUME NEW d \in Deposits, Allocate(d) \/ CallOff(d) \/ Sweep(d)
      PROVE  OnlyGrows
  BY <1>1, <1>5 DEF Allocate, CallOff, Sweep, OnlyGrows, chain, bookmark, TypeOK
<1> QED BY <1>2, <1>3, <1>4, <1>5 DEF World

(* What is owed after a step was owed before, or has only just arrived.     *)
LEMMA OwedBefore ==
  ASSUME TypeOK, TypeOK', OnlyGrows, NEW l \in Logs, Owed(l)'
  PROVE  \/ Owed(l) /\ place'[HashOf[l]] = place[HashOf[l]]
         \/ place'[HashOf[l]] > head
<1>1. HashOf[l] \in Hashes
  BY ConstantsAssumption
<1>2. CASE place'[HashOf[l]] = place[HashOf[l]]
  <2>1. place[HashOf[l]] \in Nat /\ origin \in Nat /\ origin' \in Nat /\ origin <= origin'
    BY <1>1 DEF TypeOK, OnlyGrows
  <2>2. place[HashOf[l]] # 0 /\ place[HashOf[l]] >= origin
    BY <1>2, <2>1 DEF Owed
  <2>3. ~moved[HashOf[l]] /\ row[HashOf[l]] = NoRow
    BY <1>1 DEF Owed, OnlyGrows
  <2>4. Paid(AddressOf[l])
    BY DEF Owed, Paid, OnlyGrows
  <2> QED BY <1>2, <2>2, <2>3, <2>4 DEF Owed
<1>3. CASE place'[HashOf[l]] # place[HashOf[l]]
  BY <1>1, <1>3 DEF Owed, OnlyGrows
<1> QED BY <1>2, <1>3

LEMMA BookmarkOn ==
  ASSUME TypeOK, TypeOK', OnlyGrows, BookmarkHolds, cursor' = cursor
  PROVE  BookmarkHolds'
<1>1. head \in Nat /\ head' \in Nat /\ cursor \in Nat \cup {-1} /\ place' \in [Hashes -> Nat]
  BY DEF TypeOK, NoCursor
<1>2. cursor' <= head'
  BY <1>1 DEF BookmarkHolds, OnlyGrows
<1>3. ASSUME NEW l \in Logs, Owed(l)' PROVE cursor' < place'[HashOf[l]]
  <2>1. place'[HashOf[l]] \in Nat
    BY <1>1, ConstantsAssumption
  <2> QED BY <1>1, <1>3, <2>1, OwedBefore DEF BookmarkHolds
<1> QED BY <1>2, <1>3 DEF BookmarkHolds

LEMMA ScanOn ==
  ASSUME TypeOK, TypeOK', OnlyGrows, NEW p \in Pass, ScanHolds(p)
  PROVE  ScanHolds(p)'
<1>1. /\ head \in Nat /\ head' \in Nat /\ head <= head'
      /\ p.head \in Nat /\ p.from \in Nat /\ p.to \in Nat
      /\ \A l \in Logs : place'[HashOf[l]] \in Nat /\ place[HashOf[l]] \in Nat
  BY ConstantsAssumption DEF TypeOK, OnlyGrows, Pass
<1>2. p.head <= head'
  BY <1>1 DEF ScanHolds
<1>3. ASSUME p.pc \in {"watch", "fetch", "record"}
      PROVE  p.from <= p.to /\ p.to <= head'
  BY <1>1, <1>3 DEF ScanHolds
<1>4. ASSUME p.pc \in {"watch", "fetch", "record"}, NEW l \in Logs, Owed(l)'
      PROVE  p.from <= place'[HashOf[l]]
  <2>1. CASE Owed(l) /\ place'[HashOf[l]] = place[HashOf[l]]
    BY <1>4, <2>1 DEF ScanHolds
  <2>2. CASE place'[HashOf[l]] > head
    BY <1>1, <1>4, <2>2 DEF ScanHolds
  <2> QED BY <1>4, <2>1, <2>2, OwedBefore
<1>5. ASSUME p.pc \in {"fetch", "record"}, NEW l \in Logs, Owed(l)', place'[HashOf[l]] <= p.to
      PROVE  AddressOf[l] \in p.watched /\ (Asking(p, l) \/ Holding(p, l))'
  <2>1. p.to <= head
    BY <1>5 DEF ScanHolds
  <2>2. Owed(l) /\ place'[HashOf[l]] = place[HashOf[l]]
    BY <1>1, <1>5, <2>1, OwedBefore
  <2>3. AddressOf[l] \in p.watched /\ (Asking(p, l) \/ Holding(p, l))
    BY <1>5, <2>2 DEF ScanHolds
  <2> QED BY <2>2, <2>3 DEF Asking, Holding
<1>6. p.pc = "record" => p.unasked = {} \/ p.watched = {}
  BY DEF ScanHolds
<1> QED BY <1>2, <1>3, <1>4, <1>5, <1>6 DEF ScanHolds

LEMMA ScansOn ==
  ASSUME TypeOK, TypeOK', OnlyGrows, ScansHold, NEW w \in Sweepers,
         ScanHolds(pass[w])', \A v \in Sweepers : v # w => pass'[v] = pass[v]
  PROVE  ScansHold'
<1> SUFFICES ASSUME NEW v \in Sweepers PROVE ScanHolds(pass[v])'
  BY DEF ScansHold
<1>1. CASE v = w
  BY <1>1
<1>2. CASE v # w
  <2>1. PICK k : k = pass[v]
    OBVIOUS
  <2>2. k \in Pass /\ ScanHolds(k) /\ pass'[v] = k
    BY <1>2, <2>1 DEF TypeOK, ScansHold
  <2>3. ScanHolds(k)'
    BY <2>2, ScanOn
  <2> QED BY <2>2, <2>3 DEF ScanHolds, Asking, Holding
<1> QED BY <1>1, <1>2

LEMMA PlacedOn ==
  ASSUME TypeOK, OnlyGrows, Placed, place' = place
  PROVE  Placed'
BY DEF Placed, OnlyGrows

(* Every block of a span is in one of its windows.                          *)
LEMMA WindowsCover ==
  ASSUME NEW from \in Nat, NEW to \in Nat, NEW b \in from..to
  PROVE  \E q \in Windows(from, to) : q[1] <= b /\ b <= q[2]
<1> DEFINE n == b - from
           k == n \div Batch
           s == from + Batch * k
           q == <<s, IF s + Batch - 1 > to THEN to ELSE s + Batch - 1>>
<1>1. n \in Nat /\ Batch \in Nat \ {0}
  BY ConstantsAssumption
<1>2. k \in Nat /\ n % Batch \in Nat /\ n % Batch < Batch
  BY <1>1
<1>3. n = Batch * k + (n % Batch)
  BY <1>1
<1>4. PICK m \in Nat : m = Batch * k
  BY <1>1, <1>2
<1>5. m % Batch = 0
  BY <1>1, <1>2, <1>4
<1>6. s = from + m
  BY <1>4
<1>7. PICK rest \in Nat : rest = n % Batch /\ rest < Batch /\ n = m + rest
  BY <1>2, <1>3, <1>4
<1> HIDE DEF n, k, s
<1>8. b = s + rest /\ s \in from..to /\ s - from = m
  BY <1>1, <1>6, <1>7 DEF n
<1>9. q \in Windows(from, to)
  BY <1>5, <1>8 DEF Windows
<1>10. q[1] <= b /\ b <= q[2]
  BY <1>1, <1>7, <1>8
<1> QED BY <1>9, <1>10

(* A scan in progress after each of its own steps.                          *)
LEMMA ReadCursorScan ==
  ASSUME IInv, SInv, IInv', OnlyGrows, NEW w \in Sweepers, ReadCursor(w)
  PROVE  ScanHolds(pass[w])'
<1> DEFINE p == pass[w]
           from == IF cursor # NoCursor THEN cursor + 1
                   ELSE IF p.head > Batch THEN p.head - Batch ELSE 0
           span == Batch * MaxRequests
           to == IF from + span > p.head THEN p.head ELSE from + span
<1>1. p \in Pass /\ p.head \in Nat /\ p.head <= head /\ head \in Nat /\ head' = head
  BY DEF IInv, TypeOK, Pass, SInv, ScansHold, ScanHolds, ReadCursor, chain
<1>2. from \in Nat /\ span \in Nat
  BY <1>1, ConstantsAssumption DEF IInv, TypeOK, NoCursor
<1>3. /\ pass'[w] = IF from > to THEN Scanned(w)
                    ELSE [p EXCEPT !.pc = "watch", !.from = from, !.to = to]
      /\ origin' = IF cursor = NoCursor /\ from > origin THEN from ELSE origin
      /\ UNCHANGED <<place, moved, swept, row, cursor>>
  BY DEF ReadCursor, IInv, TypeOK, chain, invoices
<1>4. \A l \in Logs : Owed(l)' => from <= place'[HashOf[l]]
  <2> SUFFICES ASSUME NEW l \in Logs, Owed(l)' PROVE from <= place[HashOf[l]]
    BY <1>3
  <2>1. place[HashOf[l]] \in Nat /\ origin \in Nat /\ origin' \in Nat
        /\ cursor \in Nat \cup {NoCursor}
    BY ConstantsAssumption DEF IInv, TypeOK
  <2>2. CASE cursor # NoCursor
    <3>1. Owed(l)
      BY <1>3, <2>2 DEF Owed, Paid
    <3> QED BY <2>1, <2>2, <3>1 DEF SInv, BookmarkHolds
  <2>3. CASE cursor = NoCursor
    <3>1. place[HashOf[l]] >= origin'
      BY <1>3 DEF Owed
    <3> HIDE DEF from
    <3>2. from <= origin'
      BY <1>2, <1>3, <2>1, <2>3
    <3> QED BY <1>2, <2>1, <3>1, <3>2
  <2> QED BY <2>2, <2>3
<1> HIDE DEF from, span
<1>5. to \in Nat /\ to <= p.head
  BY <1>1, <1>2
<1> HIDE DEF to
<1>6. CASE from > to
  <2>1. pass'[w].pc = "list" /\ pass'[w].head = 0
    BY <1>3, <1>6 DEF Scanned, NoPass
  <2> QED BY <1>1, <2>1 DEF ScanHolds
<1>7. CASE ~(from > to)
  <2>1. /\ pass'[w].pc = "watch" /\ pass'[w].head = p.head
        /\ pass'[w].from = from /\ pass'[w].to = to
    BY <1>1, <1>3, <1>7 DEF Pass
  <2>2. to <= head' /\ from <= to
    BY <1>1, <1>2, <1>5, <1>7
  <2> QED BY <1>1, <1>4, <2>1, <2>2 DEF ScanHolds
<1> QED BY <1>6, <1>7

LEMMA ReadWatchedScan ==
  ASSUME IInv, SInv, NEW w \in Sweepers, ReadWatched(w)
  PROVE  ScanHolds(pass[w])'
<1> DEFINE p == pass[w]
           spans == Windows(p.from, p.to)
<1>1. p \in Pass /\ ScanHolds(p) /\ p.pc = "watch" /\ p.from \in Nat /\ p.to \in Nat
  BY DEF IInv, TypeOK, Pass, SInv, ScansHold, ReadWatched
<1>2. /\ pass'[w] = [p EXCEPT !.pc = IF WatchedAddresses = {} THEN "record" ELSE "fetch",
                              !.watched = WatchedAddresses, !.unasked = spans]
      /\ UNCHANGED <<head, place, moved, swept, row, origin>>
  BY DEF ReadWatched, IInv, TypeOK, chain, invoices, bookmark
<1> HIDE DEF spans
<1>3. /\ pass'[w].head = p.head /\ pass'[w].from = p.from /\ pass'[w].to = p.to
      /\ pass'[w].watched = WatchedAddresses /\ pass'[w].unasked = spans
      /\ pass'[w].pc \in {"fetch", "record"}
      /\ pass'[w].pc = "record" => WatchedAddresses = {}
  BY <1>1, <1>2 DEF Pass
<1>4. \A l \in Logs : Owed(l)' <=> Owed(l)
  BY <1>2 DEF Owed, Paid
<1>5. ASSUME NEW l \in Logs, Owed(l), place[HashOf[l]] <= p.to
      PROVE  /\ AddressOf[l] \in WatchedAddresses
             /\ \E q \in spans : q[1] <= place[HashOf[l]] /\ place[HashOf[l]] <= q[2]
  <2>1. place[HashOf[l]] \in Nat /\ AddressOf[l] \in Deposits \cup BankWallets
    BY ConstantsAssumption DEF IInv, TypeOK
  <2>2. place[HashOf[l]] \in p.from .. p.to
    BY <1>1, <1>5, <2>1 DEF ScanHolds
  <2>3. \E q \in spans : q[1] <= place[HashOf[l]] /\ place[HashOf[l]] <= q[2]
    BY <1>1, <2>2, WindowsCover DEF spans
  <2>4. AddressOf[l] \in WatchedAddresses
    BY <1>5, <2>1 DEF WatchedAddresses, Owed, Paid, SInv, Placed
  <2> QED BY <2>3, <2>4
<1>6. \A l \in Logs : Owed(l)' /\ place'[HashOf[l]] <= p.to =>
        AddressOf[l] \in WatchedAddresses /\ Asking(pass[w], l)'
  BY <1>2, <1>3, <1>4, <1>5 DEF Asking
<1>7. \A l \in Logs : Owed(l)' => p.from <= place'[HashOf[l]]
  BY <1>1, <1>2, <1>4 DEF ScanHolds
<1>8. p.head <= head' /\ p.from <= p.to /\ p.to <= head'
  BY <1>1, <1>2 DEF ScanHolds
<1> QED BY <1>3, <1>6, <1>7, <1>8 DEF ScanHolds

LEMMA GetLogsScan ==
  ASSUME IInv, SInv, NEW w \in Sweepers, GetLogs(w)
  PROVE  ScanHolds(pass[w])'
<1> DEFINE p == pass[w]
<1>1. p \in Pass /\ ScanHolds(p) /\ p.pc = "fetch" /\ p.to \in Nat
  BY DEF IInv, TypeOK, Pass, SInv, ScansHold, GetLogs
<1>2. PICK window \in Lowest(p.unasked) :
        pass' = [pass EXCEPT ![w] = [p EXCEPT !.logs = @ \cup TransferLogs(window, p.watched),
                                              !.unasked = @ \ {window},
                                              !.pc = IF p.unasked = {window} THEN "record" ELSE @]]
  BY DEF GetLogs
<1> DEFINE got == TransferLogs(window, p.watched)
<1>3. window \in Nat \X Nat /\ window \in p.unasked
  BY <1>1 DEF Lowest, Pass
<1>4. \A l \in Logs : /\ AddressOf[l] \in p.watched /\ place[HashOf[l]] \in Nat \ {0}
                      /\ window[1] <= place[HashOf[l]] /\ place[HashOf[l]] <= window[2]
                      => [log |-> l, block |-> place[HashOf[l]]] \in got
  <2> SUFFICES ASSUME NEW l \in Logs,
                      AddressOf[l] \in p.watched, place[HashOf[l]] \in Nat \ {0},
                      window[1] <= place[HashOf[l]], place[HashOf[l]] <= window[2]
               PROVE  [log |-> l, block |-> place[HashOf[l]]] \in got
    OBVIOUS
  <2>1. place[HashOf[l]] \in window[1] .. window[2]
    BY <1>3
  <2> QED BY <2>1 DEF TransferLogs
<1> HIDE DEF got
<1>5. /\ pass'[w].head = p.head /\ pass'[w].from = p.from /\ pass'[w].to = p.to
      /\ pass'[w].watched = p.watched /\ pass'[w].unasked = p.unasked \ {window}
      /\ pass'[w].logs = p.logs \cup got
      /\ pass'[w].pc \in {"fetch", "record"}
      /\ pass'[w].pc = "record" => pass'[w].unasked = {}
  <2>1. pass'[w] = [p EXCEPT !.logs = p.logs \cup got, !.unasked = p.unasked \ {window},
                             !.pc = IF p.unasked = {window} THEN "record" ELSE "fetch"]
    BY <1>1, <1>2 DEF IInv, TypeOK, Pass, got
  <2> QED BY <1>1, <2>1 DEF Pass
<1>6. UNCHANGED <<head, place, moved, swept, row, origin>>
  BY DEF GetLogs, chain, invoices, bookmark
<1>7. \A l \in Logs : Owed(l)' <=> Owed(l)
  BY <1>6 DEF Owed, Paid
<1>8. ASSUME NEW l \in Logs, Owed(l), place[HashOf[l]] <= p.to
      PROVE  AddressOf[l] \in p.watched /\ (Asking(pass[w], l)' \/ Holding(pass[w], l)')
  <2>1. AddressOf[l] \in p.watched /\ (Asking(p, l) \/ Holding(p, l))
    BY <1>1, <1>8 DEF ScanHolds
  <2>2. CASE Holding(p, l)
    BY <2>1, <2>2, <1>5, <1>6 DEF Holding
  <2>3. CASE Asking(p, l)
    <3>1. PICK q \in p.unasked : q[1] <= place[HashOf[l]] /\ place[HashOf[l]] <= q[2]
      BY <2>3 DEF Asking
    <3>2. CASE q # window
      <4>1. q \in pass'[w].unasked
        BY <3>1, <3>2, <1>5
      <4>2. q[1] <= place'[HashOf[l]] /\ place'[HashOf[l]] <= q[2]
        BY <3>1, <1>6
      <4>3. Asking(pass[w], l)'
        BY <4>1, <4>2 DEF Asking
      <4> QED BY <2>1, <4>3
    <3>3. CASE q = window
      <4>1. place[HashOf[l]] \in Nat \ {0}
        BY <1>8, ConstantsAssumption DEF Owed, IInv, TypeOK
      <4>2. [log |-> l, block |-> place[HashOf[l]]] \in got
        BY <1>4, <2>1, <3>1, <3>3, <4>1
      <4> QED BY <2>1, <4>2, <1>5, <1>6 DEF Holding
    <3> QED BY <3>2, <3>3
  <2> QED BY <2>1, <2>2, <2>3
<1>9. \A l \in Logs : Owed(l)' /\ place'[HashOf[l]] <= p.to =>
        AddressOf[l] \in p.watched /\ (Asking(pass[w], l)' \/ Holding(pass[w], l)')
  BY <1>6, <1>7, <1>8
<1>10. \A l \in Logs : Owed(l)' => p.from <= place'[HashOf[l]]
  BY <1>1, <1>6, <1>7 DEF ScanHolds
<1>11. p.head <= head' /\ p.from <= p.to /\ p.to <= head'
  BY <1>1, <1>6 DEF ScanHolds
<1> QED BY <1>5, <1>9, <1>10, <1>11 DEF ScanHolds

LEMMA HalveScan ==
  ASSUME IInv, SInv, NEW w \in Sweepers, Halve(w)
  PROVE  ScanHolds(pass[w])'
<1> DEFINE p == pass[w]
<1>1. p \in Pass /\ ScanHolds(p) /\ p.pc = "fetch" /\ p.to \in Nat
  BY DEF IInv, TypeOK, Pass, SInv, ScansHold, Halve
<1>2. PICK window \in Lowest(p.unasked) :
        LET mid == window[1] + ((window[2] - window[1]) \div 2)
        IN  /\ window[1] < window[2]
            /\ Go(w, [p EXCEPT !.unasked = (@ \ {window}) \cup
                                 {<<window[1], mid>>, <<mid + 1, window[2]>>}])
  BY DEF Halve
<1> DEFINE mid == window[1] + ((window[2] - window[1]) \div 2)
           halves == {<<window[1], mid>>, <<mid + 1, window[2]>>}
<1>3. window[1] \in Nat /\ window[2] \in Nat /\ mid \in Nat
  BY <1>1, <1>2 DEF Lowest, Pass
<1>4. \A b \in Nat : window[1] <= b /\ b <= window[2] => \E q \in halves : q[1] <= b /\ b <= q[2]
  <2> SUFFICES ASSUME NEW b \in Nat, window[1] <= b, b <= window[2]
               PROVE  \E q \in halves : q[1] <= b /\ b <= q[2]
    OBVIOUS
  <2> HIDE DEF mid
  <2>1. CASE b <= mid
    BY <2>1
  <2>2. CASE ~(b <= mid)
    <3>1. mid + 1 <= b
      BY <1>3, <2>2
    <3> QED BY <3>1
  <2> QED BY <2>1, <2>2
<1> HIDE DEF halves, mid
<1>5. /\ pass'[w].head = p.head /\ pass'[w].from = p.from /\ pass'[w].to = p.to
      /\ pass'[w].watched = p.watched /\ pass'[w].unasked = (p.unasked \ {window}) \cup halves
      /\ pass'[w].logs = p.logs /\ pass'[w].pc = "fetch"
  <2>1. pass'[w] = [p EXCEPT !.unasked = (p.unasked \ {window}) \cup halves]
    BY <1>1, <1>2 DEF IInv, TypeOK, Pass, halves, mid
  <2> QED BY <1>1, <2>1 DEF Pass
<1>6. UNCHANGED <<head, place, moved, swept, row, origin>>
  BY DEF Halve, chain, invoices, bookmark
<1>7. \A l \in Logs : Owed(l)' <=> Owed(l)
  BY <1>6 DEF Owed, Paid
<1>8. ASSUME NEW l \in Logs, Owed(l), place[HashOf[l]] <= p.to
      PROVE  AddressOf[l] \in p.watched /\ (Asking(pass[w], l)' \/ Holding(pass[w], l)')
  <2>1. AddressOf[l] \in p.watched /\ (Asking(p, l) \/ Holding(p, l))
    BY <1>1, <1>8 DEF ScanHolds
  <2>2. CASE Holding(p, l)
    BY <2>1, <2>2, <1>5, <1>6 DEF Holding
  <2>3. CASE Asking(p, l)
    <3>1. PICK q \in p.unasked : q[1] <= place[HashOf[l]] /\ place[HashOf[l]] <= q[2]
      BY <2>3 DEF Asking
    <3>2. place[HashOf[l]] \in Nat
      BY ConstantsAssumption DEF IInv, TypeOK
    <3>3. PICK r \in pass'[w].unasked : r[1] <= place[HashOf[l]] /\ place[HashOf[l]] <= r[2]
      BY <3>1, <3>2, <1>4, <1>5
    <3>4. r[1] <= place'[HashOf[l]] /\ place'[HashOf[l]] <= r[2]
      BY <3>3, <1>6
    <3>5. Asking(pass[w], l)'
      BY <3>3, <3>4 DEF Asking
    <3> QED BY <2>1, <3>5
  <2> QED BY <2>1, <2>2, <2>3
<1>9. \A l \in Logs : Owed(l)' /\ place'[HashOf[l]] <= p.to =>
        AddressOf[l] \in p.watched /\ (Asking(pass[w], l)' \/ Holding(pass[w], l)')
  BY <1>6, <1>7, <1>8
<1>10. \A l \in Logs : Owed(l)' => p.from <= place'[HashOf[l]]
  BY <1>1, <1>6, <1>7 DEF ScanHolds
<1>11. p.head <= head' /\ p.from <= p.to /\ p.to <= head'
  BY <1>1, <1>6 DEF ScanHolds
<1> QED BY <1>5, <1>9, <1>10, <1>11 DEF ScanHolds

(* A transfer recorded is owed no more.                                     *)
LEMMA RecordScan ==
  ASSUME IInv, SInv, IInv', OnlyGrows, NEW w \in Sweepers, Record(w)
  PROVE  ScanHolds(pass[w])'
<1> DEFINE p == pass[w]
<1>1. p \in Pass /\ ScanHolds(p) /\ p.pc = "record"
  BY DEF IInv, TypeOK, Pass, SInv, ScansHold, Record
<1>2. PICK e, due :
        /\ e \in p.logs
        /\ row' = [row EXCEPT ![HashOf[e.log]] =
                     Upsert(HashOf[e.log], e.log, e.block, e.block <= p.final, p.head - e.block + 1)]
        /\ pass' = [pass EXCEPT ![w] = [p EXCEPT !.logs = @ \ {e}, !.due = due]]
  BY DEF Record
<1>3. HashOf[e.log] \in Hashes
  <2>1. e \in p.logs
    BY <1>2
  <2> QED BY <1>1, <2>1, ConstantsAssumption DEF Pass
<1>4. row'[HashOf[e.log]] # NoRow
  <2>1. row'[HashOf[e.log]] =
          Upsert(HashOf[e.log], e.log, e.block, e.block <= p.final, p.head - e.block + 1)
    BY <1>2, <1>3 DEF IInv, TypeOK
  <2>2. TypeOK
    BY DEF IInv
  <2> QED BY <1>3, <2>1, <2>2, UpsertIsRow
<1>5. /\ pass'[w].head = p.head /\ pass'[w].from = p.from /\ pass'[w].to = p.to
      /\ pass'[w].watched = p.watched /\ pass'[w].unasked = p.unasked
      /\ pass'[w].logs = p.logs \ {e} /\ pass'[w].pc = "record"
  BY <1>1, <1>2 DEF IInv, TypeOK, Pass
<1>6. UNCHANGED <<head, place, moved, swept, origin>>
  BY DEF Record, chain, invoices, bookmark
<1>7. \A l \in Logs : Owed(l)' => Owed(l) /\ l # e.log
  BY <1>4, <1>6, ConstantsAssumption DEF Owed, Paid, OnlyGrows
<1>8. ASSUME NEW l \in Logs, Owed(l)', place'[HashOf[l]] <= p.to
      PROVE  AddressOf[l] \in p.watched /\ (Asking(pass[w], l)' \/ Holding(pass[w], l)')
  <2>1. Owed(l) /\ l # e.log /\ place[HashOf[l]] <= p.to
    BY <1>6, <1>7, <1>8
  <2>2. AddressOf[l] \in p.watched /\ (Asking(p, l) \/ Holding(p, l))
    BY <1>1, <2>1 DEF ScanHolds
  <2>3. Asking(p, l) => Asking(pass[w], l)'
    BY <1>5, <1>6 DEF Asking
  <2>4. Holding(p, l) => Holding(pass[w], l)'
    <3>1. [log |-> l, block |-> place[HashOf[l]]].log # e.log
      BY <2>1
    <3>2. [log |-> l, block |-> place[HashOf[l]]] # e
      BY <3>1
    <3> QED BY <3>2, <1>5, <1>6 DEF Holding
  <2> QED BY <2>2, <2>3, <2>4
<1>9. \A l \in Logs : Owed(l)' => p.from <= place'[HashOf[l]]
  BY <1>1, <1>6, <1>7 DEF ScanHolds
<1>10. p.head <= head' /\ p.from <= p.to /\ p.to <= head' /\ (p.unasked = {} \/ p.watched = {})
  BY <1>1, <1>6 DEF ScanHolds
<1> QED BY <1>5, <1>8, <1>9, <1>10 DEF ScanHolds

(* Everything else leaves a scan where it is, or is not one.                *)
LEMMA OtherPassScan ==
  ASSUME IInv, SInv, IInv', OnlyGrows, NEW w \in Sweepers,
         ReadChain(w) \/ GiveUp(w) \/ WriteCursor(w) \/ Revisit(w) \/ Match(w) \/ Fail(w)
  PROVE  ScanHolds(pass[w])'
<1> DEFINE p == pass[w]
<1>1. p \in Pass /\ ScanHolds(p) /\ pass \in [Sweepers -> Pass] /\ head \in Nat /\ 0 <= head
      /\ p.head <= head
  BY DEF IInv, TypeOK, SInv, ScansHold, ScanHolds
<1>2. head' = head
  BY DEF ReadChain, GiveUp, WriteCursor, Revisit, ListMaturing, SkipMaturing, Refresh, ListUnmatched,
         RetryNext, Finish, Match, Fail, chain
<1>3. CASE ReadChain(w)
  <2>1. pass'[w].pc = "bookmark" /\ pass'[w].head = head
    BY <1>1, <1>3 DEF ReadChain, NoPass
  <2> QED BY <1>1, <1>2, <2>1 DEF ScanHolds
<1>4. CASE GiveUp(w) \/ WriteCursor(w)
  <2>1. pass'[w].pc = "list" /\ pass'[w].head = 0
    BY <1>1, <1>4 DEF GiveUp, WriteCursor, Scanned, NoPass
  <2> QED BY <1>1, <1>2, <2>1 DEF ScanHolds
<1>5. CASE ListMaturing(w)
  <2>1. pass'[w].pc = "refresh" /\ pass'[w].head = head
    BY <1>1, <1>5 DEF ListMaturing, Pass
  <2> QED BY <1>1, <1>2, <2>1 DEF ScanHolds
<1>6. CASE SkipMaturing(w) \/ Refresh(w)
  <2>1. pass'[w].pc = "refresh" /\ pass'[w].head = p.head
    <3>1. CASE SkipMaturing(w)
      <4>1. PICK rest : pass' = [pass EXCEPT ![w] = [p EXCEPT !.maturing = rest]]
        BY <3>1 DEF SkipMaturing
      <4> QED BY <1>1, <3>1, <4>1 DEF SkipMaturing, Pass
    <3>2. CASE Refresh(w)
      <4>1. PICK rest, due : pass' = [pass EXCEPT ![w] = [p EXCEPT !.maturing = rest, !.due = due]]
        BY <3>2 DEF Refresh
      <4> QED BY <1>1, <3>2, <4>1 DEF Refresh, Pass
    <3> QED BY <1>6, <3>1, <3>2
  <2> QED BY <1>1, <1>2, <2>1 DEF ScanHolds
<1>7. CASE ListUnmatched(w) \/ RetryNext(w)
  <2>1. CASE ListUnmatched(w)
    <3>1. pass'[w].pc = "retry" /\ pass'[w].head = 0
      BY <1>1, <2>1 DEF ListUnmatched, NoPass
    <3> QED BY <1>1, <1>2, <3>1 DEF ScanHolds
  <2>2. CASE RetryNext(w)
    <3>1. PICK rest, due : pass' = [pass EXCEPT ![w] = [p EXCEPT !.retry = rest, !.due = due]]
      BY <2>2 DEF RetryNext
    <3>2. pass'[w].pc = "retry" /\ pass'[w].head = p.head
      BY <1>1, <2>2, <3>1 DEF RetryNext, Pass
    <3> QED BY <1>1, <1>2, <3>2 DEF ScanHolds
  <2> QED BY <1>7, <2>1, <2>2
<1>8. CASE Finish(w) \/ Fail(w)
  <2>1. pass'[w].pc = "idle" /\ pass'[w].head = 0
    BY <1>1, <1>8 DEF Finish, Fail, NoPass
  <2> QED BY <1>1, <1>2, <2>1 DEF ScanHolds
<1>9. CASE Match(w)
  <2>1. PICK k : k = [p EXCEPT !.due = None]
    OBVIOUS
  <2>2. k \in Pass /\ ScanHolds(k) /\ pass'[w] = k
    BY <1>1, <1>9, <2>1 DEF Match, Pass, ScanHolds, Asking, Holding
  <2>3. ScanHolds(k)'
    BY <2>2, ScanOn DEF IInv
  <2> QED BY <2>2, <2>3 DEF ScanHolds, Asking, Holding
<1> QED BY <1>3, <1>4, <1>5, <1>6, <1>7, <1>8, <1>9 DEF Revisit

(* The bookmark moves behind what a pass was owed, and only there.          *)
LEMMA WriteCursorBookmark ==
  ASSUME IInv, SInv, NEW w \in Sweepers, WriteCursor(w)
  PROVE  BookmarkHolds'
<1> DEFINE p == pass[w]
<1>1. /\ p \in Pass /\ ScanHolds(p) /\ p.pc = "record" /\ p.to \in Nat /\ p.logs = {}
      /\ cursor' = p.to /\ UNCHANGED <<head, place, moved, swept, row, origin>>
  BY DEF WriteCursor, IInv, TypeOK, Pass, SInv, ScansHold, chain, invoices
<1>2. p.to <= head'
  BY <1>1 DEF ScanHolds
<1>3. ASSUME NEW l \in Logs, Owed(l)' PROVE p.to < place'[HashOf[l]]
  <2>1. Owed(l) /\ place'[HashOf[l]] = place[HashOf[l]]
    BY <1>1, <1>3 DEF Owed, Paid
  <2>2. place[HashOf[l]] \in Nat
    BY ConstantsAssumption DEF IInv, TypeOK
  <2>3. ~(place[HashOf[l]] <= p.to)
    <3> SUFFICES ASSUME place[HashOf[l]] <= p.to PROVE FALSE
      OBVIOUS
    <3>1. AddressOf[l] \in p.watched /\ (Asking(p, l) \/ Holding(p, l))
      BY <1>1, <2>1 DEF ScanHolds
    <3>2. p.unasked = {}
      BY <1>1, <3>1 DEF ScanHolds
    <3> QED BY <1>1, <3>1, <3>2 DEF Asking, Holding
  <2> QED BY <1>1, <2>1, <2>2, <2>3
<1> QED BY <1>1, <1>2, <1>3 DEF BookmarkHolds

LEMMA PassStepsScan ==
  ASSUME IInv, SInv, IInv', OnlyGrows, NEW w \in Sweepers,
         Scan(w) \/ Revisit(w) \/ Match(w) \/ Fail(w)
  PROVE  SInv'
<1>1. ScanHolds(pass[w])'
  BY ReadCursorScan, ReadWatchedScan, GetLogsScan, HalveScan, RecordScan, OtherPassScan DEF Scan
<1>2. \A v \in Sweepers : v # w => pass'[v] = pass[v]
  BY DEF Scan, ReadChain, ReadCursor, ReadWatched, GetLogs, Halve, GiveUp, Record, WriteCursor,
         Revisit, ListMaturing, SkipMaturing, Refresh, ListUnmatched, RetryNext, Finish, Match, Fail,
         IInv, TypeOK
<1>3. ScansHold'
  BY <1>1, <1>2, ScansOn DEF IInv, SInv
<1>4. place' = place
  BY DEF Scan, ReadChain, ReadCursor, ReadWatched, GetLogs, Halve, GiveUp, Record, WriteCursor,
         Revisit, ListMaturing, SkipMaturing, Refresh, ListUnmatched, RetryNext, Finish, Match, Fail,
         chain
<1>5. Placed'
  BY <1>4, PlacedOn DEF IInv, SInv
<1>6. BookmarkHolds'
  <2>1. WriteCursor(w) \/ cursor' = cursor
    BY DEF Scan, ReadChain, ReadCursor, ReadWatched, GetLogs, Halve, GiveUp, Record,
           Revisit, ListMaturing, SkipMaturing, Refresh, ListUnmatched, RetryNext, Finish, Match, Fail,
           bookmark
  <2> QED BY <2>1, WriteCursorBookmark, BookmarkOn DEF IInv, SInv
<1> QED BY <1>3, <1>5, <1>6 DEF SInv

LEMMA OtherStepsScan ==
  ASSUME IInv, SInv, IInv', OnlyGrows, UNCHANGED <<pass, cursor>>, Placed'
  PROVE  SInv'
<1>1. BookmarkHolds'
  BY BookmarkOn DEF IInv, SInv
<1>2. ScansHold'
  <2> SUFFICES ASSUME NEW v \in Sweepers PROVE ScanHolds(pass[v])'
    BY DEF ScansHold
  <2>1. PICK k : k = pass[v]
    OBVIOUS
  <2>2. k \in Pass /\ ScanHolds(k) /\ pass'[v] = k
    BY <2>1 DEF IInv, TypeOK, SInv, ScansHold
  <2>3. ScanHolds(k)'
    BY <2>2, ScanOn DEF IInv
  <2> QED BY <2>2, <2>3 DEF ScanHolds, Asking, Holding
<1> QED BY <1>1, <1>2 DEF SInv

(* A payment is put in a block only to an address allocated by then.        *)
LEMMA WorldPlaced ==
  ASSUME IInv, SInv, OnlyGrows, World
  PROVE  Placed'
<1>1. TypeOK /\ Placed
  BY DEF IInv, SInv
<1>2. CASE NewBlock
  <2>1. PICK S \in SUBSET {h \in Hashes : Payable(h)} :
          place' = [h \in Hashes |-> IF h \in S THEN head + 1 ELSE place[h]]
    BY <1>2 DEF NewBlock
  <2> SUFFICES ASSUME NEW l \in Logs, place'[HashOf[l]] # 0, AddressOf[l] \in Deposits
               PROVE  file'[AddressOf[l]] # "none"
    BY DEF Placed
  <2>2. HashOf[l] \in Hashes /\ AddressOf[l] \notin BankWallets
    BY ConstantsAssumption
  <2>3. CASE HashOf[l] \in S
    <3>1. Payable(HashOf[l])
      BY <2>3
    <3> QED BY <2>2, <3>1 DEF Payable, OnlyGrows
  <2>4. CASE HashOf[l] \notin S
    BY <1>1, <2>1, <2>2, <2>4 DEF Placed, OnlyGrows
  <2> QED BY <2>3, <2>4
<1>3. ASSUME NEW b \in 1..MaxBlock, Reorganise(b)
      PROVE  Placed'
  <2> SUFFICES ASSUME NEW l \in Logs, place'[HashOf[l]] # 0, AddressOf[l] \in Deposits
               PROVE  file'[AddressOf[l]] # "none"
    BY DEF Placed
  <2>1. HashOf[l] \in Hashes /\ place[HashOf[l]] \in Nat
    BY <1>1, ConstantsAssumption DEF TypeOK
  <2>2. place[HashOf[l]] # 0
    BY <1>3, <2>1 DEF Reorganise
  <2> QED BY <1>1, <2>2 DEF Placed, OnlyGrows
<1>4. CASE place' = place
  BY <1>1, <1>4, PlacedOn
<1> QED BY <1>2, <1>3, <1>4 DEF World, Finalize, Allocate, CallOff, Sweep, chain

LEMMA ScanInit ==
  ASSUME Init
  PROVE  SInv
<1>1. Placed /\ BookmarkHolds
  BY ConstantsAssumption DEF Init, Placed, BookmarkHolds, Owed, NoCursor
<1>2. ScansHold
  BY DEF Init, ScansHold, ScanHolds, NoPass
<1> QED BY <1>1, <1>2 DEF SInv

LEMMA ScanStep ==
  ASSUME IInv, SInv, [Next]_vars
  PROVE  SInv'
<1>1. IInv'
  BY StepHolds
<1>2. ASSUME NEW w \in Sweepers, Scan(w) \/ Revisit(w) \/ Match(w) \/ Fail(w)
      PROVE  SInv'
  BY <1>1, <1>2, PassStepsGrow, PassStepsScan
<1>3. ASSUME NEW r \in Reporters,
             RecordChainTx(r) \/ ConfirmPayment(r) \/ (\E h \in Hashes : ReadReceipt(r, h))
      PROVE  SInv'
  <2>1. OnlyGrows
    BY <1>3, ReportStepsGrow
  <2>2. UNCHANGED <<pass, cursor, place>>
    BY <1>3 DEF RecordChainTx, ConfirmPayment, ReadReceipt, chain, bookmark
  <2>3. Placed'
    BY <2>1, <2>2, PlacedOn DEF IInv, SInv
  <2> QED BY <1>1, <2>1, <2>2, <2>3, OtherStepsScan
<1>4. CASE World
  <2>1. UNCHANGED <<pass, cursor>>
    BY <1>4 DEF World, NewBlock, Finalize, Reorganise, Allocate, CallOff, Sweep, bookmark
  <2> QED BY <1>1, <1>4, <2>1, WorldGrows, WorldPlaced, OtherStepsScan
<1>5. CASE UNCHANGED vars
  <2>1. UNCHANGED <<chain, invoices, row, bookmark, pass>>
    BY <1>5 DEF vars
  <2>2. OnlyGrows
    BY <2>1, QuietGrows DEF IInv
  <2>3. UNCHANGED <<pass, cursor, place>>
    BY <2>1 DEF chain, bookmark
  <2>4. Placed'
    BY <2>2, <2>3, PlacedOn DEF IInv, SInv
  <2> QED BY <1>1, <2>2, <2>3, <2>4, OtherStepsScan
<1> QED BY <1>2, <1>3, <1>4, <1>5 DEF Next

(* fetchTransfers asks for every block of its span or gives the scan up,    *)
(* and runWatcher writes the bookmark after the rows: so behind it every    *)
(* transaction paying a watched address has its row, unless a               *)
(* reorganisation moved it - with any number of passes at once.             *)
THEOREM NothingSkippedAlways == Spec => []NothingSkipped
<1>1. Init => IInv /\ SInv
  BY InitHolds, ScanInit
<1>2. IInv /\ SInv /\ [Next]_vars => (IInv /\ SInv)'
  BY StepHolds, ScanStep
<1>3. IInv /\ SInv => NothingSkipped
  <2> SUFFICES ASSUME IInv, SInv, NEW l \in Logs, Behind(HashOf[l]), Paid(AddressOf[l]),
                      ~moved[HashOf[l]], row[HashOf[l]] = NoRow
               PROVE  FALSE
    BY DEF NothingSkipped
  <2>1. Owed(l) /\ place[HashOf[l]] <= cursor
    BY DEF Owed, Behind
  <2>2. place[HashOf[l]] \in Nat /\ cursor \in Int
    BY ConstantsAssumption DEF IInv, TypeOK, NoCursor
  <2>3. cursor < place[HashOf[l]]
    BY <2>1 DEF SInv, BookmarkHolds
  <2> QED BY <2>1, <2>2, <2>3
<1> QED BY <1>1, <1>2, <1>3, PTL DEF Spec

=============================================================================
