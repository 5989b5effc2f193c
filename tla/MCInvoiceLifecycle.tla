------------------------- MODULE MCInvoiceLifecycle -------------------------
(***************************************************************************)
(* One invoice of either direction.  On an export the small transfer falls  *)
(* short and the large one covers; on an import (fee on top) the middle one *)
(* covers the principal but not the fee.                                    *)
(***************************************************************************)
EXTENDS InvoiceLifecycle, FiniteSetsExt, TLC

CONSTANTS i1, t1, t2, t3, request, replay

MCTokens == (t1 :> 2) @@ (t2 :> 3) @@ (t3 :> 4)
MCAmountOf(S) == MapThenSumSet(LAMBDA t : MCTokens[t], S)

MCPays == [t \in Transfers |-> i1]
MCAmount == [i \in Invoices |-> 3]
MCFee == [i \in Invoices |-> 1]

(* Two workers, each serving a request or a pass, are interchangeable.      *)
MCSymmetry == Permutations({request, replay})
=============================================================================
