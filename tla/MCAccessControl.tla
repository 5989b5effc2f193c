--------------------------- MODULE MCAccessControl ---------------------------
(* Instances of AccessControl: a seeded administrator and another account,  *)
(* one address to spare.                                                    *)
EXTENDS AccessControl, TLC

CONSTANTS root, clerk, office, desk, request, replay

(* One address stands for those of the four panels: it goes to whichever is *)
(* opened first, and panels of the other kind adopt somebody at another.    *)
MCDemo == [BANK |-> {desk}, MERCHANT |-> {desk}]

(* Two requests under way are interchangeable.                              *)
MCSymmetry == Permutations({request, replay})
=============================================================================
