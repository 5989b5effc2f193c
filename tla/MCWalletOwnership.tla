------------------------- MODULE MCWalletOwnership -------------------------
(* Instances of WalletOwnership: two accounts and one address both claim.   *)
EXTENDS WalletOwnership, TLC

CONSTANTS buyer, seller, purse, n1, n2, first, second

MCSymmetry == Permutations({buyer, seller}) \cup Permutations({n1, n2}) \cup Permutations({first, second})
=============================================================================
