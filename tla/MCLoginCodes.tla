---------------------------- MODULE MCLoginCodes ----------------------------
(* Instances of LoginCodes: overlapping requests for two addresses.         *)
EXTENDS LoginCodes, TLC

CONSTANTS ann, bob, first, second, c1, c2

MCSymmetry == Permutations({first, second}) \cup Permutations({ann, bob}) \cup Permutations({c1, c2})
=============================================================================
