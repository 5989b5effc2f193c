-------------------------- MODULE MCSettlementDesk --------------------------
(***************************************************************************)
(* One or two trades of each kind, every amount with a fee of both shares   *)
(* and a percentage that rounds.                                            *)
(***************************************************************************)
EXTENDS SettlementDesk, TLC

CONSTANTS x1, m1, d1, d2, d3, p1, p2, r1, r2, request, replay

MCGross == [x \in Trades |-> 4]
MCTerms == [i \in Invoices |-> [feeBps |-> 5000, freezoneBps |-> 5000, feeMin |-> 1, feeMax |-> 0]]
MCDirectFee == [d \in Direct |-> 1]
MCRefundOf == [r \in Refunds |-> IF r = r2 /\ m1 \in Imports THEN m1 ELSE x1]

(* Any two workers overlap, never three at once.                            *)
Pairwise == Cardinality({w \in Workers : work[w] # Idle}) <= 2

(* Requests and the two settlements of a merchant are interchangeable.      *)
MCSymmetry == Permutations({request, replay}) \cup Permutations({d1, d2})
=============================================================================
