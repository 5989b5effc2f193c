------------------------------ MODULE FeeSplit ------------------------------
(***************************************************************************)
(* The fee arithmetic of the settlement contract, which the backend repeats *)
(* in previewSplit to show and to book the same figures.  Amounts are in    *)
(* the token's smallest unit and every division truncates.                  *)
(***************************************************************************)
EXTENDS Integers

CONSTANT BasisPoints        \* 10000 in the contract: what feeBps is out of

ASSUME BasisPointsAssumption == BasisPoints \in Nat \ {0}

(* The part of Terms that decides amounts (the rest names destinations).    *)
FeeTerms == [feeBps : 0 .. BasisPoints, freezoneBps : 0 .. BasisPoints,
             feeMin : Nat, feeMax : Nat]

(* What _setTerms requires of the fee: a ceiling, if there is one, is not   *)
(* below the floor.                                                         *)
CeilingFits(t) == t.feeMax = 0 \/ t.feeMax >= t.feeMin

Percentage(t, total) == (total * t.feeBps) \div BasisPoints

AtLeast(floor, x) == IF x < floor THEN floor ELSE x
AtMost(ceiling, x) == IF x > ceiling THEN ceiling ELSE x

(* The percentage, raised to the floor, cut to the ceiling (zero means      *)
(* none), and never more than the payment it is taken from.                 *)
FeeOf(t, total) ==
  LET floored == AtLeast(t.feeMin, Percentage(t, total))
      capped  == IF t.feeMax > 0 THEN AtMost(t.feeMax, floored) ELSE floored
  IN  AtMost(total, capped)

FreezoneShare(t, fee) == (fee * t.freezoneBps) \div BasisPoints

(* Wrong on purpose: both shares of the fee are rounded down.               *)
SplitRoundingBoth(t, total) ==
  LET fee == FeeOf(t, total)
  IN  [gateway     |-> (fee * (BasisPoints - t.freezoneBps)) \div BasisPoints,
       freezone    |-> FreezoneShare(t, fee),
       beneficiary |-> total - fee]

(* Subtracting rather than computing is what makes the shares add back up.  *)
Split(t, total) ==
  LET fee      == FeeOf(t, total)
      freezone == FreezoneShare(t, fee)
  IN  [gateway |-> fee - freezone, freezone |-> freezone, beneficiary |-> total - fee]

SplitSum(s) == s.gateway + s.freezone + s.beneficiary

(* An import pins the fee to an exact figure: no percentage, and a floor    *)
(* that is also the ceiling.                                                *)
PinnedFee(t, fee) ==
  [feeBps |-> 0, freezoneBps |-> t.freezoneBps, feeMin |-> fee, feeMax |-> fee]
=============================================================================
