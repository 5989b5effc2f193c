--------------------------- MODULE InvoicePromise ---------------------------
(***************************************************************************)
(* What the system promises about an invoice and the rial taken for it,     *)
(* with no handlers, watcher or chain: which ends a file can come to, and   *)
(* where the importer's rial is when it does.                               *)
(***************************************************************************)
CONSTANT Invoices

VARIABLES phase,   \* review, open, lapsed, unwinding, paid, refused, cancelled
          rial     \* none, held, returned

Init ==
  /\ phase = [i \in Invoices |-> "review"]
  /\ rial = [i \in Invoices |-> "none"]

Move(i, from, to) == phase[i] \in from /\ phase' = [phase EXCEPT ![i] = to]

(* Approved; or money came for a lapsed request and it is open again.       *)
Open(i) == Move(i, {"review", "lapsed"}, "open") /\ UNCHANGED rial

(* Refused before anybody parted with money.                                *)
Refuse(i) == rial[i] = "none" /\ Move(i, {"review", "open"}, "refused") /\ UNCHANGED rial

TakeRial(i) ==
  /\ phase[i] = "open"
  /\ rial[i] = "none"
  /\ rial' = [rial EXCEPT ![i] = "held"]
  /\ UNCHANGED phase

Pay(i) == rial[i] # "returned" /\ Move(i, {"open", "lapsed"}, "paid") /\ UNCHANGED rial

(* Called off with nothing outstanding.                                     *)
CallOff(i) == rial[i] = "none" /\ Move(i, {"open"}, "cancelled") /\ UNCHANGED rial

(* Called off while the bank holds rial: the one way out is to return it.   *)
Unwind(i) == rial[i] = "held" /\ Move(i, {"open"}, "unwinding") /\ UNCHANGED rial

ReturnRial(i) ==
  /\ rial[i] = "held"
  /\ Move(i, {"unwinding"}, "cancelled")
  /\ rial' = [rial EXCEPT ![i] = "returned"]

Lapse(i) == Move(i, {"review", "open"}, "lapsed") /\ UNCHANGED rial

Next ==
  \E i \in Invoices :
    Open(i) \/ Refuse(i) \/ TakeRial(i) \/ Pay(i) \/ CallOff(i) \/ Unwind(i) \/ ReturnRial(i) \/ Lapse(i)

Spec == Init /\ [][Next]_<<phase, rial>>
=============================================================================
