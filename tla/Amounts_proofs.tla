--------------------------- MODULE Amounts_proofs ---------------------------
(***************************************************************************)
(* The arithmetic the other proofs rest on: what the fee split guarantees   *)
(* for every configuration the contract accepts and every amount, and what  *)
(* a sum over a finite set is.                                              *)
(*                                                                          *)
(* The library's sum takes the members in an order nobody knows.  That the  *)
(* order does not matter is an induction over the set; an induction scheme  *)
(* is out of the provers' reach, so each lemma takes instead a smallest set *)
(* for which it fails (SmallestSubset) and finds a smaller one.             *)
(***************************************************************************)
EXTENDS FeeSplit, Functions, FiniteSetTheorems, TLAPS

(* A truncated share p/q of n, with p <= q, is a natural number no larger   *)
(* than n.                                                                  *)
LEMMA ShareBounds ==
  ASSUME NEW n \in Nat, NEW p \in 0 .. BasisPoints
  PROVE  /\ (n * p) \div BasisPoints \in Nat
         /\ (n * p) \div BasisPoints <= n
<1>1. n * p \in Nat /\ n * p <= n * BasisPoints
  BY BasisPointsAssumption
<1>2. \A a, b \in Nat : a <= b * BasisPoints => a \div BasisPoints \in Nat /\ a \div BasisPoints <= b
  BY BasisPointsAssumption
<1> QED BY <1>1, <1>2, BasisPointsAssumption

(* The fee is an amount, and it never exceeds the payment it comes from     *)
(* (the clamp of _release's fourth line).                                   *)
LEMMA FeeBounds ==
  ASSUME NEW t \in FeeTerms, NEW total \in Nat
  PROVE  FeeOf(t, total) \in 0 .. total
<1>1. Percentage(t, total) \in Nat
  BY ShareBounds DEF Percentage, FeeTerms
<1>2. t.feeMin \in Nat /\ t.feeMax \in Nat
  BY DEF FeeTerms
<1> QED BY <1>1, <1>2 DEF FeeOf, AtLeast, AtMost

(* The organization's share of a fee is never more than the fee.            *)
LEMMA FreezoneBounds ==
  ASSUME NEW t \in FeeTerms, NEW fee \in Nat
  PROVE  FreezoneShare(t, fee) \in 0 .. fee
<1>1. t.freezoneBps \in 0 .. BasisPoints
  BY DEF FeeTerms
<1>2. /\ (fee * t.freezoneBps) \div BasisPoints \in Nat
      /\ (fee * t.freezoneBps) \div BasisPoints <= fee
  BY <1>1, ShareBounds
<1> QED BY <1>2 DEF FreezoneShare

(* No dust: for any accepted fee configuration and any amount, the three    *)
(* amounts _release sends are amounts (none underflows) and add back to     *)
(* the balance that was released.                                           *)
THEOREM SplitConserves ==
  ASSUME NEW t \in FeeTerms, NEW total \in Nat
  PROVE  /\ Split(t, total) \in [gateway : Nat, freezone : Nat, beneficiary : Nat]
         /\ SplitSum(Split(t, total)) = total
<1> DEFINE fee      == FeeOf(t, total)
           freezone == FreezoneShare(t, fee)
<1>1. fee \in 0 .. total
  BY FeeBounds
<1>2. freezone \in 0 .. fee
  BY <1>1, FreezoneBounds
<1>3. Split(t, total) = [gateway |-> fee - freezone, freezone |-> freezone, beneficiary |-> total - fee]
  BY DEF Split
<1> HIDE DEF fee, freezone
<1> QED BY <1>1, <1>2, <1>3 DEF SplitSum

(* Paid in one go, an import gives the seller the contract sum to the last  *)
(* unit whatever the factory's own percentage, floor and ceiling are: this  *)
(* is what pinning the fee in allocateDepositAddress is for.                *)
THEOREM ImportPaidOnceIsExact ==
  ASSUME NEW t \in FeeTerms, NEW amount \in Nat, NEW fee \in Nat
  PROVE  Split(PinnedFee(t, fee), amount + fee).beneficiary = amount
<1> DEFINE p == PinnedFee(t, fee)
<1>1. p.feeBps = 0 /\ p.feeMin = fee /\ p.feeMax = fee
  BY DEF PinnedFee, FeeTerms
<1>2. Percentage(p, amount + fee) = 0
  <2>1. (amount + fee) * 0 = 0
    OBVIOUS
  <2>2. 0 \div BasisPoints = 0
    BY BasisPointsAssumption
  <2> QED BY <1>1, <2>1, <2>2 DEF Percentage
<1>3. FeeOf(p, amount + fee) = fee
  BY <1>1, <1>2 DEF FeeOf, AtLeast, AtMost
<1> QED BY <1>3 DEF Split

(* A larger payment never pays a smaller fee, so nobody can lower the       *)
(* gateway's and the organization's cut by overpaying.                      *)
THEOREM FeeMonotone ==
  ASSUME NEW t \in FeeTerms, NEW a \in Nat, NEW b \in Nat, a <= b
  PROVE  FeeOf(t, a) <= FeeOf(t, b)
<1>1. t.feeBps \in Nat /\ t.feeMin \in Nat /\ t.feeMax \in Nat
  BY DEF FeeTerms
<1>2. a * t.feeBps \in Nat /\ b * t.feeBps \in Nat /\ a * t.feeBps <= b * t.feeBps
  BY <1>1
<1>3. \A m, n \in Nat : m <= n => m \div BasisPoints <= n \div BasisPoints
  BY BasisPointsAssumption
<1>4. /\ Percentage(t, a) \in Nat
      /\ Percentage(t, b) \in Nat
      /\ Percentage(t, a) <= Percentage(t, b)
  BY <1>2, <1>3, ShareBounds DEF Percentage, FeeTerms
<1> QED BY <1>1, <1>4 DEF FeeOf, AtLeast, AtMost

-----------------------------------------------------------------------------
(* Sums over finite sets.                                                   *)

(* The member taken first, and the table of partial sums that makes.        *)
First(s) == CHOOSE x \in s : TRUE
IsTally(f, w, S) ==
  f = [s \in SUBSET S |-> IF s = {} THEN 0 ELSE w[First(s)] + f[s \ {First(s)}]]

LEMMA SumIsTally ==
  ASSUME NEW w, NEW S
  PROVE  SumFunctionOnSet(w, S) = (CHOOSE f : IsTally(f, w, S))[S]
BY DEF SumFunctionOnSet, FoldFunctionOnSet, MapThenFoldSet, IsTally, First

LEMMA FirstIsMember ==
  ASSUME NEW s, s # {}
  PROVE  First(s) \in s
BY DEF First

(* Induction on finite sets: of subsets that fail, one has no smaller.      *)
LEMMA SmallestSubset ==
  ASSUME NEW S, IsFiniteSet(S), NEW B \in SUBSET SUBSET S, B # {}
  PROVE  \E m \in B : \A T \in SUBSET m : T \in B => T = m
<1>1. FiniteSubsetsOf(S) = SUBSET S
  BY FS_FiniteSubsetsOfFinite
<1>2. IsWellFoundedOn(StrictSubsetOrdering(S), SUBSET S)
  BY <1>1, FS_StrictSubsetOrderingWellFounded
<1>3. \E m \in B : \A T \in B : ~(<<T, m>> \in StrictSubsetOrdering(S))
  BY <1>2, WFMin, Zenon
<1> QED BY <1>3 DEF StrictSubsetOrdering

(* One table is as good as another, also one made for a larger set.         *)
LEMMA TalliesAgree ==
  ASSUME NEW w, NEW S, NEW T, IsFiniteSet(T), NEW f, NEW g, IsTally(f, w, S), IsTally(g, w, T),
         T \subseteq S
  PROVE  f[T] = g[T]
<1> DEFINE B == {s \in SUBSET T : f[s] # g[s]}
<1>1. ASSUME NEW m \in B, \A s \in SUBSET m : s \in B => s = m
      PROVE  FALSE
  <2>1. m \in SUBSET T /\ m \in SUBSET S /\ f[m] # g[m]
    OBVIOUS
  <2>2. /\ f[m] = IF m = {} THEN 0 ELSE w[First(m)] + f[m \ {First(m)}]
        /\ g[m] = IF m = {} THEN 0 ELSE w[First(m)] + g[m \ {First(m)}]
    BY <2>1 DEF IsTally
  <2>3. m # {} /\ First(m) \in m
    BY <2>1, <2>2, FirstIsMember
  <2>4. m \ {First(m)} \notin B
    BY <1>1, <2>3
  <2>5. f[m \ {First(m)}] = g[m \ {First(m)}]
    BY <2>1, <2>4
  <2> QED BY <2>1, <2>2, <2>5
<1> HIDE DEF B
<1>2. B \in SUBSET SUBSET T
  BY DEF B
<1>3. B = {}
  BY <1>1, <1>2, SmallestSubset
<1> QED BY <1>3 DEF B

LEMMA TallyExists ==
  ASSUME NEW w, NEW S, IsFiniteSet(S)
  PROVE  \E f : IsTally(f, w, S)
<1> DEFINE B == {T \in SUBSET S : ~\E f : IsTally(f, w, T)}
<1>1. ASSUME NEW m \in B, \A s \in SUBSET m : s \in B => s = m
      PROVE  FALSE
  <2> DEFINE t(s) == CHOOSE f : IsTally(f, w, s)
             g == [s \in SUBSET m |->
                     IF s = {} THEN 0
                     ELSE w[First(s)] + t(s \ {First(s)})[s \ {First(s)}]]
  <2>1. m \in SUBSET S /\ ~\E f : IsTally(f, w, m)
    OBVIOUS
  <2>2. ASSUME NEW s \in SUBSET m, s # m
        PROVE  IsTally(t(s), w, s) /\ IsFiniteSet(s)
    <3>1. s \in SUBSET S /\ IsFiniteSet(s)
      BY <2>1, FS_Subset
    <3>2. \E f : IsTally(f, w, s)
      BY <1>1, <2>2, <3>1
    <3> QED BY <3>1, <3>2
  <2> HIDE DEF t
  <2>3. ASSUME NEW s \in SUBSET m, s # m
        PROVE  t(s)[s] = g[s]
    <3>1. t(s)[s] = IF s = {} THEN 0 ELSE w[First(s)] + t(s)[s \ {First(s)}]
      BY <2>2, <2>3 DEF IsTally
    <3>2. ASSUME s # {}
          PROVE  t(s)[s \ {First(s)}] = t(s \ {First(s)})[s \ {First(s)}]
      <4>1. First(s) \in s
        BY <3>2, FirstIsMember
      <4>2. s \ {First(s)} \in SUBSET m /\ s \ {First(s)} # m
        BY <4>1
      <4> QED BY <2>2, <2>3, <4>2, TalliesAgree
    <3> QED BY <3>1, <3>2
  <2>4. ASSUME NEW s \in SUBSET m, s # {}
        PROVE  t(s \ {First(s)})[s \ {First(s)}] = g[s \ {First(s)}]
    <3>1. First(s) \in s
      BY <2>4, FirstIsMember
    <3>2. s \ {First(s)} \in SUBSET m /\ s \ {First(s)} # m
      BY <3>1
    <3> QED BY <2>3, <3>2
  <2>5. g = [s \in SUBSET m |-> IF s = {} THEN 0 ELSE w[First(s)] + g[s \ {First(s)}]]
    BY <2>4
  <2>6. IsTally(g, w, m)
    BY <2>5 DEF IsTally
  <2> QED BY <2>1, <2>6
<1> HIDE DEF B
<1>2. B \in SUBSET SUBSET S
  BY DEF B
<1>3. B = {}
  BY <1>1, <1>2, SmallestSubset
<1> QED BY <1>3 DEF B

-----------------------------------------------------------------------------
LEMMA SumEmpty == \A w : SumFunctionOnSet(w, {}) = 0
<1> TAKE w
<1>1. IsFiniteSet({})
  BY FS_EmptySet
<1>2. \E f : IsTally(f, w, {})
  BY <1>1, TallyExists
<1>3. IsTally(CHOOSE f : IsTally(f, w, {}), w, {})
  BY <1>2
<1> QED BY <1>3, SumIsTally DEF IsTally

LEMMA SumFirst ==
  ASSUME NEW w, NEW S, IsFiniteSet(S), S # {}
  PROVE  SumFunctionOnSet(w, S) = w[First(S)] + SumFunctionOnSet(w, S \ {First(S)})
<1> DEFINE R == S \ {First(S)}
<1>1. R \subseteq S /\ IsFiniteSet(R)
  BY FS_Subset
<1>2. PICK f : f = (CHOOSE h : IsTally(h, w, S)) /\ IsTally(f, w, S)
  BY TallyExists
<1>3. PICK g : g = (CHOOSE h : IsTally(h, w, R)) /\ IsTally(g, w, R)
  BY <1>1, TallyExists
<1>4. SumFunctionOnSet(w, S) = f[S] /\ SumFunctionOnSet(w, R) = g[R]
  BY <1>2, <1>3, SumIsTally
<1>5. f[R] = g[R]
  BY <1>1, <1>2, <1>3, TalliesAgree
<1>6. f[S] = w[First(S)] + f[R]
  BY <1>2 DEF IsTally
<1> QED BY <1>4, <1>5, <1>6

LEMMA SumIsInt ==
  ASSUME NEW w, NEW S, IsFiniteSet(S), \A x \in S : w[x] \in Int
  PROVE  SumFunctionOnSet(w, S) \in Int
<1> DEFINE B == {T \in SUBSET S : SumFunctionOnSet(w, T) \notin Int}
<1>1. ASSUME NEW m \in B, \A s \in SUBSET m : s \in B => s = m
      PROVE  FALSE
  <2>1. m # {} /\ IsFiniteSet(m)
    <3>1. SumFunctionOnSet(w, {}) \in Int
      BY SumEmpty
    <3> QED BY <3>1, FS_Subset
  <2>2. First(m) \in m
    BY <2>1, FirstIsMember
  <2>3. SumFunctionOnSet(w, m \ {First(m)}) \in Int
    BY <1>1, <2>2
  <2>4. SumFunctionOnSet(w, m) = w[First(m)] + SumFunctionOnSet(w, m \ {First(m)})
    BY <2>1, SumFirst
  <2> QED BY <2>2, <2>3, <2>4
<1> HIDE DEF B
<1>2. B \in SUBSET SUBSET S
  BY DEF B
<1>3. B = {}
  BY <1>1, <1>2, SmallestSubset
<1> QED BY <1>3 DEF B

(* Any member may be taken out of the sum, not only the first.              *)
LEMMA SumTakes ==
  ASSUME NEW w, NEW S, IsFiniteSet(S), \A x \in S : w[x] \in Int, NEW a \in S
  PROVE  SumFunctionOnSet(w, S) = w[a] + SumFunctionOnSet(w, S \ {a})
<1> DEFINE Fails(T) == \E x \in T : SumFunctionOnSet(w, T) # w[x] + SumFunctionOnSet(w, T \ {x})
           B == {T \in SUBSET S : Fails(T)}
<1>1. ASSUME NEW m \in SUBSET S, Fails(m), \A s \in SUBSET m : s \in B => s = m
      PROVE  FALSE
  <2>1. PICK b \in m : SumFunctionOnSet(w, m) # w[b] + SumFunctionOnSet(w, m \ {b})
    BY <1>1
  <2> DEFINE p == First(m)
  <2>2. IsFiniteSet(m)
    BY FS_Subset
  <2>3. p \in m /\ SumFunctionOnSet(w, m) = w[p] + SumFunctionOnSet(w, m \ {p})
    BY <2>1, <2>2, FirstIsMember, SumFirst
  <2> HIDE DEF p
  <2>4. p # b
    BY <2>1, <2>3
  <2>5. ASSUME NEW q \in m, NEW x \in m \ {q}
        PROVE  SumFunctionOnSet(w, m \ {q}) = w[x] + SumFunctionOnSet(w, (m \ {q}) \ {x})
    <3>1. m \ {q} \in SUBSET m /\ m \ {q} # m /\ m \ {q} \in SUBSET S
      OBVIOUS
    <3>2. ~Fails(m \ {q})
      BY <1>1, <3>1
    <3> QED BY <3>2
  <2>6. SumFunctionOnSet(w, m \ {p}) = w[b] + SumFunctionOnSet(w, (m \ {p}) \ {b})
    BY <2>3, <2>4, <2>5
  <2>7. SumFunctionOnSet(w, m \ {b}) = w[p] + SumFunctionOnSet(w, (m \ {b}) \ {p})
    BY <2>3, <2>4, <2>5
  <2>8. (m \ {b}) \ {p} = (m \ {p}) \ {b}
    OBVIOUS
  <2>9. SumFunctionOnSet(w, (m \ {p}) \ {b}) \in Int
    <3>1. IsFiniteSet((m \ {p}) \ {b}) /\ \A x \in (m \ {p}) \ {b} : w[x] \in Int
      BY <2>2, FS_Subset
    <3> QED BY <3>1, SumIsInt
  <2>10. w[b] \in Int /\ w[p] \in Int
    BY <2>3
  <2> DEFINE r == SumFunctionOnSet(w, (m \ {p}) \ {b})
  <2>11. SumFunctionOnSet(w, m) = w[p] + (w[b] + r) /\ SumFunctionOnSet(w, m \ {b}) = w[p] + r
    BY <2>3, <2>6, <2>7, <2>8
  <2>12. SumFunctionOnSet(w, m) # w[b] + (w[p] + r)
    BY <2>1, <2>11
  <2>13. r \in Int
    BY <2>9
  <2> HIDE DEF r
  <2> QED BY <2>10, <2>11, <2>12, <2>13
<1>2. B \in SUBSET SUBSET S /\ \A m \in B : m \in SUBSET S /\ Fails(m)
  OBVIOUS
<1> HIDE DEF B, Fails
<1>3. B = {}
  BY <1>1, <1>2, SmallestSubset
<1> QED BY <1>3 DEF B, Fails

(* A member more, ...                                                       *)
LEMMA SumAdds ==
  ASSUME NEW w, NEW S, IsFiniteSet(S), NEW a, a \notin S, \A x \in S \cup {a} : w[x] \in Int
  PROVE  SumFunctionOnSet(w, S \cup {a}) = SumFunctionOnSet(w, S) + w[a]
<1>1. IsFiniteSet(S \cup {a}) /\ (S \cup {a}) \ {a} = S
  BY FS_AddElement
<1>2. SumFunctionOnSet(w, S \cup {a}) = w[a] + SumFunctionOnSet(w, S)
  BY <1>1, SumTakes
<1> QED BY <1>2, SumIsInt

(* ... the same table by another name, ...                                  *)
LEMMA SumSame ==
  ASSUME NEW v, NEW w, NEW S, IsFiniteSet(S), \A x \in S : v[x] = w[x]
  PROVE  SumFunctionOnSet(v, S) = SumFunctionOnSet(w, S)
<1> DEFINE B == {T \in SUBSET S : SumFunctionOnSet(v, T) # SumFunctionOnSet(w, T)}
<1>1. ASSUME NEW m \in B, \A s \in SUBSET m : s \in B => s = m
      PROVE  FALSE
  <2>1. m # {} /\ IsFiniteSet(m)
    BY SumEmpty, FS_Subset
  <2>2. First(m) \in m /\ First(m) \in S
    BY <2>1, FirstIsMember
  <2>3. SumFunctionOnSet(v, m \ {First(m)}) = SumFunctionOnSet(w, m \ {First(m)})
    BY <1>1, <2>2
  <2>4. /\ SumFunctionOnSet(v, m) = v[First(m)] + SumFunctionOnSet(v, m \ {First(m)})
        /\ SumFunctionOnSet(w, m) = w[First(m)] + SumFunctionOnSet(w, m \ {First(m)})
    BY <2>1, SumFirst
  <2> QED BY <2>2, <2>3, <2>4
<1> HIDE DEF B
<1>2. B \in SUBSET SUBSET S
  BY DEF B
<1>3. B = {}
  BY <1>1, <1>2, SmallestSubset
<1> QED BY <1>3 DEF B

(* ... nothing but zeros, ...                                               *)
LEMMA SumOfNothing ==
  ASSUME NEW S, IsFiniteSet(S)
  PROVE  SumFunctionOnSet([x \in S |-> 0], S) = 0
<1> DEFINE w == [x \in S |-> 0]
           B == {T \in SUBSET S : SumFunctionOnSet(w, T) # 0}
<1>1. ASSUME NEW m \in SUBSET S, SumFunctionOnSet(w, m) # 0, \A s \in SUBSET m : s \in B => s = m
      PROVE  FALSE
  <2>1. m # {} /\ IsFiniteSet(m)
    BY <1>1, SumEmpty, FS_Subset
  <2>2. First(m) \in m /\ First(m) \in S
    BY <2>1, FirstIsMember
  <2>3. SumFunctionOnSet(w, m \ {First(m)}) = 0
    <3>1. m \ {First(m)} \notin B
      BY <1>1, <2>2
    <3> QED BY <3>1
  <2>4. SumFunctionOnSet(w, m) = w[First(m)] + SumFunctionOnSet(w, m \ {First(m)})
    BY <2>1, SumFirst
  <2> QED BY <1>1, <2>2, <2>3, <2>4
<1>2. B \in SUBSET SUBSET S /\ \A m \in B : m \in SUBSET S /\ SumFunctionOnSet(w, m) # 0
  OBVIOUS
<1> HIDE DEF B, w
<1>3. B = {}
  BY <1>1, <1>2, SmallestSubset
<1> QED BY <1>3 DEF B, w

(* ... one amount changed, ...                                              *)
LEMMA SumChanges ==
  ASSUME NEW v, NEW w, NEW S, IsFiniteSet(S), \A x \in S : v[x] \in Int /\ w[x] \in Int,
         NEW a \in S, \A x \in S \ {a} : v[x] = w[x]
  PROVE  SumFunctionOnSet(v, S) = SumFunctionOnSet(w, S) - w[a] + v[a]
<1>1. IsFiniteSet(S \ {a})
  BY FS_Subset
<1>2. SumFunctionOnSet(v, S \ {a}) = SumFunctionOnSet(w, S \ {a}) /\ SumFunctionOnSet(w, S \ {a}) \in Int
  BY <1>1, SumSame, SumIsInt
<1>3. SumFunctionOnSet(v, S) = v[a] + SumFunctionOnSet(v, S \ {a}) /\ SumFunctionOnSet(w, S) = w[a] + SumFunctionOnSet(w, S \ {a})
  BY SumTakes
<1> QED BY <1>2, <1>3

(* ... all amounts natural, ...                                             *)
LEMMA SumIsNat ==
  ASSUME NEW w, NEW S, IsFiniteSet(S), \A x \in S : w[x] \in Nat
  PROVE  SumFunctionOnSet(w, S) \in Nat
<1> DEFINE B == {T \in SUBSET S : SumFunctionOnSet(w, T) \notin Nat}
<1>1. ASSUME NEW m \in B, \A s \in SUBSET m : s \in B => s = m
      PROVE  FALSE
  <2>1. m # {} /\ IsFiniteSet(m)
    <3>1. SumFunctionOnSet(w, {}) \in Nat
      BY SumEmpty
    <3> QED BY <3>1, FS_Subset
  <2>2. First(m) \in m
    BY <2>1, FirstIsMember
  <2>3. SumFunctionOnSet(w, m \ {First(m)}) \in Nat
    BY <1>1, <2>2
  <2>4. SumFunctionOnSet(w, m) = w[First(m)] + SumFunctionOnSet(w, m \ {First(m)})
    BY <2>1, SumFirst
  <2> QED BY <2>2, <2>3, <2>4
<1> HIDE DEF B
<1>2. B \in SUBSET SUBSET S
  BY DEF B
<1>3. B = {}
  BY <1>1, <1>2, SmallestSubset
<1> QED BY <1>3 DEF B

(* ... and a larger set of amounts.                                         *)
LEMMA SumMonotone ==
  ASSUME NEW w, NEW S, IsFiniteSet(S), \A x \in S : w[x] \in Nat, NEW T \in SUBSET S
  PROVE  SumFunctionOnSet(w, T) <= SumFunctionOnSet(w, S)
<1> DEFINE Fails(D) == ~(SumFunctionOnSet(w, S \ D) <= SumFunctionOnSet(w, S))
           B == {D \in SUBSET S : Fails(D)}
<1>1. \A D \in SUBSET S : IsFiniteSet(S \ D) /\ SumFunctionOnSet(w, S \ D) \in Nat
  <2> TAKE D \in SUBSET S
  <2>1. IsFiniteSet(S \ D)
    BY FS_Subset
  <2> QED BY <2>1, SumIsNat
<1>2. ASSUME NEW m \in SUBSET S, Fails(m), \A D \in SUBSET m : D \in B => D = m
      PROVE  FALSE
  <2>1. m # {}
    <3>1. SumFunctionOnSet(w, S) \in Nat
      BY SumIsNat
    <3>2. SUFFICES m = {} => FALSE
      OBVIOUS
    <3>3. S \ {} = S
      OBVIOUS
    <3> QED BY <1>2, <3>1, <3>3
  <2>2. PICK a : a \in m
    BY <2>1
  <2> DEFINE D == m \ {a}
  <2>3. D \in SUBSET S /\ D \in SUBSET m /\ D # m /\ a \in S \ D /\ (S \ D) \ {a} = S \ m
    BY <2>2
  <2> HIDE DEF D
  <2>4. SumFunctionOnSet(w, S \ D) <= SumFunctionOnSet(w, S)
    <3>1. D \notin B
      BY <1>2, <2>3
    <3> QED BY <2>3, <3>1
  <2>5. IsFiniteSet(S \ D) /\ \A x \in S \ D : w[x] \in Int
    BY <1>1, <2>3
  <2>6. SumFunctionOnSet(w, S \ D) = w[a] + SumFunctionOnSet(w, S \ m)
    BY <2>3, <2>5, SumTakes
  <2>7. /\ SumFunctionOnSet(w, S \ D) \in Nat /\ SumFunctionOnSet(w, S \ m) \in Nat
        /\ SumFunctionOnSet(w, S) \in Nat /\ w[a] \in Nat
    BY <1>1, <2>2, <2>3, SumIsNat
  <2>8. SumFunctionOnSet(w, S \ m) <= SumFunctionOnSet(w, S)
    BY <2>4, <2>6, <2>7
  <2> QED BY <1>2, <2>8
<1>3. B \in SUBSET SUBSET S /\ \A m \in B : m \in SUBSET S /\ Fails(m)
  OBVIOUS
<1> HIDE DEF B, Fails
<1>4. B = {}
  BY <1>2, <1>3, SmallestSubset
<1>5. ~Fails(S \ T)
  BY <1>4 DEF B
<1>6. S \ (S \ T) = T
  OBVIOUS
<1> QED BY <1>5, <1>6 DEF Fails

=============================================================================
