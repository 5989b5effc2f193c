-------------------------- MODULE MCDepositWatcher --------------------------
(* Instances of DepositWatcher: one invoice, paid in one or two transfers,  *)
(* each in a transaction of its own.                                        *)
EXTENDS DepositWatcher, TLC

CONSTANTS h1, h2, daemon, cron

MCHashOf == [l \in Logs |-> IF l = "part" THEN h1 ELSE h2]
MCAddressOf == [l \in Logs |-> "deposit"]
MCFirstLog == [h \in Hashes |-> CHOOSE l \in Logs : HashOf[l] = h]
MCAmountOf(S) == Cardinality(S)
MCRequired == [d \in Deposits |-> Cardinality(Logs)]

(* Any two of the passes and reports overlap, never three at once.          *)
Pairwise ==
  Cardinality({w \in Sweepers : pass[w].pc # "idle"}
                \cup {r \in Reporters : report[r].pc # "idle"}) <= 2

MCSymmetry == Permutations({daemon, cron})
=============================================================================
