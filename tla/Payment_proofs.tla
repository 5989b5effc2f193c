--------------------------- MODULE Payment_proofs ---------------------------
(***************************************************************************)
(* Paying an invoice.  First the contract, for every set of invoices,       *)
(* wallets, settings and amounts: nothing is stranded at a deposit address, *)
(* the first release of one pays exactly the split it was quoted under, the *)
(* address stays the one quoted, and every wallet is paid by its terms.     *)
(* Then the buyer's page, for any number of pages and transfers: it says    *)
(* "Payment received" only when the invoice is covered.                     *)
(***************************************************************************)
EXTENDS AfaGateway, PaymentPage, Amounts_proofs

USE ConstantsAssumption

(* Only terms the factory would store can be stored.                        *)
LEMMA AcceptableIsTyped ==
  ASSUME NEW f \in TermInputs, Acceptable(f)
  PROVE  f \in FactoryTerms
<1>1. f \in CallArguments
  OBVIOUS
<1>2. f.fee \in [feeBps : Nat, freezoneBps : Nat, feeMin : Nat, feeMax : Nat]
  BY <1>1 DEF CallArguments
<1>3. f.fee.feeBps \in 0 .. BasisPoints /\ f.fee.freezoneBps \in 0 .. BasisPoints
  BY <1>2, BasisPointsAssumption DEF Acceptable
<1>4. f.fee \in FeeTerms
  BY <1>2, <1>3 DEF FeeTerms
<1> QED BY <1>1, <1>4 DEF CallArguments, FactoryTerms, Acceptable

LEMMA CurrentTermsTyped ==
  ASSUME TypeOK, NEW r \in Refs
  PROVE  CurrentTerms(r) \in Terms /\ CurrentTerms(r).ref = r
BY DEF TypeOK, FactoryTerms, CurrentTerms, Terms

LEMMA PinnedFeeTyped ==
  ASSUME NEW t \in FeeTerms, NEW fee \in Nat
  PROVE  PinnedFee(t, fee) \in FeeTerms
BY BasisPointsAssumption DEF PinnedFee, FeeTerms

(* An import's terms are terms of the same invoice.                         *)
LEMMA ImportTermsTyped ==
  ASSUME TypeOK, NEW r \in Refs, NEW seller \in Wallets, NEW fee \in Nat
  PROVE  ImportTerms(r, seller, fee) \in Terms /\ ImportTerms(r, seller, fee).ref = r
<1>1. current \in FactoryTerms
  BY DEF TypeOK
<1>2. PinnedFee(current.fee, fee) \in FeeTerms
  BY <1>1, PinnedFeeTyped DEF FactoryTerms
<1> QED BY <1>1, <1>2 DEF ImportTerms, FactoryTerms, Terms

LEMMA CallableTyped ==
  ASSUME TypeOK, NEW r \in Refs, NEW t \in Callable(r)
  PROVE  t \in Terms /\ t.ref = r
BY CurrentTermsTyped DEF Callable, TypeOK

(* What one release adds to the shares sent, and to every purse.            *)
LEMMA ReleaseAmounts ==
  ASSUME TypeOK, NEW t \in Terms
  PROVE  LET x == Split(t.fee, balance[t.ref])
             s == AddShares(sent[t.ref], x)
         IN  /\ x \in Shares
             /\ s \in Shares
             /\ SplitSum(s) = SplitSum(sent[t.ref]) + balance[t.ref]
             /\ \A w \in Wallets : Credited(t, x, w) \in Nat
<1> DEFINE x == Split(t.fee, balance[t.ref])
<1>1. t.ref \in Refs /\ t.fee \in FeeTerms
  BY DEF Terms
<1>2. balance[t.ref] \in Nat /\ sent[t.ref] \in Shares
  BY <1>1 DEF TypeOK
<1>3. x \in Shares /\ SplitSum(x) = balance[t.ref]
  BY <1>1, <1>2, SplitConserves DEF Shares
<1> HIDE DEF x
<1>4. AddShares(sent[t.ref], x) \in Shares
  BY <1>2, <1>3 DEF Shares, AddShares
<1>5. SplitSum(AddShares(sent[t.ref], x)) = SplitSum(sent[t.ref]) + SplitSum(x)
  BY <1>2, <1>3 DEF Shares, AddShares, SplitSum
<1>6. \A w \in Wallets : Credited(t, x, w) \in Nat
  BY <1>3 DEF Shares, Credited
<1> QED BY <1>3, <1>4, <1>5, <1>6 DEF x

-----------------------------------------------------------------------------
LEMMA TypeInit == Init => TypeOK
<1> SUFFICES ASSUME Init PROVE TypeOK
  OBVIOUS
<1>1. current \in FactoryTerms
  BY AcceptableIsTyped DEF Init
<1>2. NoSplit \in Shares
  BY DEF NoSplit, Shares
<1> QED BY <1>1, <1>2 DEF Init, TypeOK

LEMMA PayOutTyped ==
  ASSUME TypeOK, NEW t \in Terms, PayOut(t)
  PROVE  /\ balance' \in [Refs -> Nat]
         /\ sent' \in [Refs -> Shares]
         /\ releases' \in [Refs -> Nat]
         /\ purse' \in [Wallets -> Nat]
<1>1. t.ref \in Refs
  BY DEF Terms
<1> QED BY <1>1, ReleaseAmounts DEF PayOut, TypeOK

LEMMA TypeNext == TypeOK /\ [Next]_vars => TypeOK'
<1> SUFFICES ASSUME TypeOK, [Next]_vars PROVE TypeOK'
  OBVIOUS
<1>1. ASSUME NEW a \in Accounts, NEW f \in TermInputs, SetTerms(a, f)
      PROVE  TypeOK'
  BY <1>1, AcceptableIsTyped DEF SetTerms, TypeOK
<1>2. ASSUME NEW a \in Accounts, NEW b \in Accounts \cup {NoAccount}, TransferOwnership(a, b)
      PROVE  TypeOK'
  BY <1>2 DEF TransferOwnership, TypeOK
<1>3. ASSUME NEW r \in Refs, QuoteExport(r)
      PROVE  TypeOK'
  BY <1>3, CurrentTermsTyped DEF QuoteExport, TypeOK
<1>4. ASSUME NEW r \in Refs, NEW w \in Sellers, NEW fee \in PinInputs, QuoteImport(r, w, fee)
      PROVE  TypeOK'
  BY <1>4, ImportTermsTyped DEF QuoteImport, TypeOK
<1>5. ASSUME NEW r \in Refs, NEW n \in 1 .. MaxPaid, Pay(r, n)
      PROVE  TypeOK'
  BY <1>5 DEF Pay, TypeOK
<1>6. ASSUME NEW r \in Refs, NEW t \in Callable(r), ReleaseByDeploying(t)
      PROVE  TypeOK'
  <2>1. t \in Terms
    BY CallableTyped
  <2>2. CASE Funded(t)
    BY <1>6, <2>1, <2>2, PayOutTyped DEF ReleaseByDeploying, TypeOK
  <2>3. CASE ~Funded(t)
    BY <1>6, <2>1, <2>3 DEF ReleaseByDeploying, TypeOK
  <2> QED BY <2>2, <2>3
<1>7. ASSUME NEW r \in Refs, NEW t \in Callable(r), ReleaseAgain(t)
      PROVE  TypeOK'
  BY <1>7, CallableTyped, PayOutTyped DEF ReleaseAgain, TypeOK
<1>8. CASE UNCHANGED vars
  BY <1>8 DEF vars, TypeOK
<1> QED BY <1>1, <1>2, <1>3, <1>4, <1>5, <1>6, <1>7, <1>8 DEF Next

(* Every reachable state is well-typed: in particular the factory never     *)
(* stores terms _setTerms should have refused.                              *)
THEOREM TypeCorrect == Spec => []TypeOK
BY TypeInit, TypeNext, PTL DEF Spec

-----------------------------------------------------------------------------
(* The amounts are only inductive together: that the first release pays the *)
(* quoted split of everything that had arrived rests on nothing having left *)
(* before it, and that no quote appears after a release rests on a release  *)
(* having needed one.                                                       *)
ReleasedWasQuoted == \A r \in Refs : releases[r] > 0 => quoted[r] # NoTerms

(* Before the first release nothing has left, so nothing was taken from an  *)
(* address by a change of terms, of owner, or by a release of other terms.  *)
UntouchedUntilReleased ==
  \A r \in Refs : releases[r] = 0 => sent[r] = NoSplit /\ balance[r] = paidIn[r]

Amounts ==
  /\ NothingStranded
  /\ UntouchedUntilReleased
  /\ QuotedSplitHonoured
  /\ ReleasedWasQuoted

LEMMA AmountsInit == Init => Amounts
<1> SUFFICES ASSUME Init PROVE Amounts
  OBVIOUS
<1>1. SplitSum(NoSplit) = 0
  BY DEF SplitSum, NoSplit
<1> QED BY <1>1 DEF Init, Amounts, NothingStranded, UntouchedUntilReleased,
                    QuotedSplitHonoured, ReleasedWasQuoted

(* A release of a funded address keeps the accounts of every invoice.       *)
LEMMA PayOutKeepsAmounts ==
  ASSUME TypeOK, Amounts, NEW t \in Terms, Funded(t), PayOut(t), UNCHANGED <<quoted, paidIn>>
  PROVE  Amounts'
<1> DEFINE q == t.ref
           x == Split(t.fee, balance[q])
<1>1. q \in Refs /\ quoted[q] = t
  BY DEF Terms, Funded
<1>2. /\ balance'  = [balance EXCEPT ![q] = 0]
      /\ sent'     = [sent EXCEPT ![q] = AddShares(@, x)]
      /\ releases' = [releases EXCEPT ![q] = @ + 1]
  BY DEF PayOut
<1>3. x \in Shares /\ SplitSum(AddShares(sent[q], x)) = SplitSum(sent[q]) + balance[q]
  BY ReleaseAmounts
<1>4. balance[q] \in Nat /\ paidIn[q] \in Nat /\ sent[q] \in Shares /\ releases[q] \in Nat
  BY <1>1 DEF TypeOK
<1>5. SplitSum(sent[q]) \in Nat
  BY <1>4 DEF Shares, SplitSum
<1>6. releases[q] = 0 => AddShares(sent[q], x) = x /\ balance[q] = paidIn[q]
  <2>1. AddShares(NoSplit, x) = x
    BY <1>3 DEF AddShares, NoSplit, Shares
  <2> QED BY <1>1, <2>1 DEF Amounts, UntouchedUntilReleased
<1> HIDE DEF q, x
<1>7. NothingStranded'
  BY <1>1, <1>2, <1>3, <1>4, <1>5 DEF Amounts, NothingStranded, TypeOK
<1>8. UntouchedUntilReleased'
  BY <1>1, <1>2, <1>4 DEF Amounts, UntouchedUntilReleased, TypeOK
<1>9. QuotedSplitHonoured'
  <2> SUFFICES ASSUME NEW r \in Refs, releases'[r] = 1
               PROVE  sent'[r] = Split(quoted[r].fee, paidIn[r] - balance'[r])
    BY DEF QuotedSplitHonoured
  <2>1. CASE r = q
    BY <1>1, <1>2, <1>4, <1>6, <2>1 DEF TypeOK, x
  <2>2. CASE r # q
    BY <1>1, <1>2, <2>2 DEF Amounts, QuotedSplitHonoured, TypeOK
  <2> QED BY <2>1, <2>2
<1>10. ReleasedWasQuoted'
  <2>1. quoted[q] # NoTerms
    BY <1>1
  <2> QED BY <1>1, <1>2, <2>1 DEF Amounts, ReleasedWasQuoted, TypeOK
<1> QED BY <1>7, <1>8, <1>9, <1>10 DEF Amounts

(* A payment moves balance and paidIn together.                             *)
LEMMA PayKeepsAmounts ==
  ASSUME TypeOK, Amounts, NEW q \in Refs, NEW n \in 1 .. MaxPaid, Pay(q, n)
  PROVE  Amounts'
<1>1. /\ balance' = [balance EXCEPT ![q] = @ + n]
      /\ paidIn' = [paidIn EXCEPT ![q] = @ + n]
      /\ UNCHANGED <<quoted, sent, releases>>
      /\ n \in Nat
  BY DEF Pay
<1>2. \A r \in Refs : balance[r] \in Nat /\ paidIn[r] \in Nat /\ SplitSum(sent[r]) \in Nat
  BY DEF TypeOK, Shares, SplitSum
<1>3. \A r \in Refs : /\ paidIn'[r] - balance'[r] = paidIn[r] - balance[r]
                      /\ balance[r] = paidIn[r] => balance'[r] = paidIn'[r]
  BY <1>1, <1>2 DEF TypeOK
<1>4. NothingStranded'
  BY <1>1, <1>2 DEF Amounts, NothingStranded, TypeOK
<1>5. UntouchedUntilReleased' /\ QuotedSplitHonoured' /\ ReleasedWasQuoted'
  BY <1>1, <1>3 DEF Amounts, UntouchedUntilReleased, QuotedSplitHonoured, ReleasedWasQuoted
<1> QED BY <1>4, <1>5 DEF Amounts

(* A quote is only given to an invoice nothing was ever released for.       *)
LEMMA QuoteKeepsAmounts ==
  ASSUME TypeOK, Amounts, NEW q \in Refs, NEW t \in Terms, quoted[q] = NoTerms,
         quoted' = [quoted EXCEPT ![q] = t], UNCHANGED <<balance, paidIn, sent, releases>>
  PROVE  Amounts'
<1>1. releases[q] = 0
  BY DEF Amounts, ReleasedWasQuoted, TypeOK
<1>2. QuotedSplitHonoured'
  BY <1>1 DEF Amounts, QuotedSplitHonoured, TypeOK
<1>3. ReleasedWasQuoted'
  BY <1>1 DEF Amounts, ReleasedWasQuoted, TypeOK
<1> QED BY <1>2, <1>3 DEF Amounts, NothingStranded, UntouchedUntilReleased

LEMMA AmountsNext == TypeOK /\ Amounts /\ [Next]_vars => Amounts'
<1> SUFFICES ASSUME TypeOK, Amounts, [Next]_vars PROVE Amounts'
  OBVIOUS
<1>0. UNCHANGED <<quoted, balance, paidIn, sent, releases>> => Amounts'
  BY DEF Amounts, NothingStranded, UntouchedUntilReleased, QuotedSplitHonoured, ReleasedWasQuoted
<1>1. ASSUME NEW a \in Accounts, NEW f \in TermInputs, SetTerms(a, f)
      PROVE  Amounts'
  BY <1>0, <1>1 DEF SetTerms
<1>2. ASSUME NEW a \in Accounts, NEW b \in Accounts \cup {NoAccount}, TransferOwnership(a, b)
      PROVE  Amounts'
  BY <1>0, <1>2 DEF TransferOwnership
<1>3. ASSUME NEW r \in Refs, QuoteExport(r)
      PROVE  Amounts'
  BY <1>3, CurrentTermsTyped, QuoteKeepsAmounts DEF QuoteExport
<1>4. ASSUME NEW r \in Refs, NEW w \in Sellers, NEW fee \in PinInputs, QuoteImport(r, w, fee)
      PROVE  Amounts'
  BY <1>4, ImportTermsTyped, QuoteKeepsAmounts DEF QuoteImport
<1>5. ASSUME NEW r \in Refs, NEW n \in 1 .. MaxPaid, Pay(r, n)
      PROVE  Amounts'
  BY <1>5, PayKeepsAmounts
<1>6. ASSUME NEW r \in Refs, NEW t \in Callable(r), ReleaseByDeploying(t)
      PROVE  Amounts'
  BY <1>0, <1>6, CallableTyped, PayOutKeepsAmounts DEF ReleaseByDeploying
<1>7. ASSUME NEW r \in Refs, NEW t \in Callable(r), ReleaseAgain(t)
      PROVE  Amounts'
  BY <1>7, CallableTyped, PayOutKeepsAmounts DEF ReleaseAgain
<1>8. CASE UNCHANGED vars
  BY <1>0, <1>8 DEF vars
<1> QED BY <1>1, <1>2, <1>3, <1>4, <1>5, <1>6, <1>7, <1>8 DEF Next

THEOREM AmountsCorrect == Spec => []Amounts
BY TypeInit, TypeNext, AmountsInit, AmountsNext, PTL DEF Spec

(* No dust is ever stranded, however payments, releases and changes of      *)
(* terms interleave.                                                        *)
THEOREM NothingStrandedAlways == Spec => []NothingStranded
BY AmountsCorrect, PTL DEF Amounts

(* The owner cannot reach a quoted address: its first release pays the      *)
(* split it was quoted under, of everything that had arrived.               *)
THEOREM QuotedSplitHonouredAlways == Spec => []QuotedSplitHonoured
BY AmountsCorrect, PTL DEF Amounts
-----------------------------------------------------------------------------
LEMMA AddressKeepsNext == TypeOK /\ [Next]_vars => [AddressKeeps]_vars
<1> SUFFICES ASSUME TypeOK, [Next]_vars PROVE [AddressKeeps]_vars
  OBVIOUS
<1>1. \A r \in Refs : balance[r] \in Nat
  BY DEF TypeOK
<1>2. UNCHANGED <<quoted, balance>> => AddressKeeps
  BY <1>1 DEF AddressKeeps
<1>3. ASSUME NEW r \in Refs, NEW x, quoted[r] = NoTerms, quoted' = [quoted EXCEPT ![r] = x], balance' = balance
      PROVE  AddressKeeps
  BY <1>1, <1>3 DEF AddressKeeps, TypeOK
<1>4. ASSUME NEW r \in Refs, NEW n \in 1 .. MaxPaid, Pay(r, n)
      PROVE  AddressKeeps
  BY <1>1, <1>4 DEF Pay, AddressKeeps, TypeOK
<1>5. ASSUME NEW t \in Terms, PayOut(t), quoted' = quoted
      PROVE  AddressKeeps
  BY <1>1, <1>5 DEF PayOut, AddressKeeps, TypeOK
<1>6. ASSUME NEW r \in Refs, NEW t \in Callable(r), ReleaseByDeploying(t) \/ ReleaseAgain(t)
      PROVE  AddressKeeps
  BY <1>2, <1>5, <1>6, CallableTyped DEF ReleaseByDeploying, ReleaseAgain
<1> QED BY <1>2, <1>3, <1>4, <1>6 DEF Next, SetTerms, TransferOwnership, QuoteExport, QuoteImport

(* An address handed to a buyer stays: no step gives the invoice another,   *)
(* whoever calls the factory meanwhile, and a release takes all there is.   *)
THEOREM QuotedAddressStableAlways == Spec => QuotedAddressStable
BY TypeCorrect, AddressKeepsNext, PTL DEF Spec, QuotedAddressStable

-----------------------------------------------------------------------------
(* The purses.  What the terms of an invoice have sent a wallet is the sum  *)
(* of the shares they name it for.                                          *)

ShareNames == {"gateway", "freezone", "beneficiary"}

LEMMA NextShare ==
  ASSUME NEW x \in Shares, NEW S \in SUBSET ShareNames, NEW a \in ShareNames, a \notin S, NEW c \in BOOLEAN
  PROVE  SumFunctionOnSet(x, S \cup (IF c THEN {a} ELSE {}))
           = SumFunctionOnSet(x, S) + (IF c THEN x[a] ELSE 0)
<1>1. IsFiniteSet(S)
  <2>1. IsFiniteSet({"gateway"} \cup {"freezone"})
    BY FS_Singleton, FS_AddElement
  <2>2. IsFiniteSet(({"gateway"} \cup {"freezone"}) \cup {"beneficiary"})
    BY <2>1, FS_AddElement
  <2>3. S \subseteq ({"gateway"} \cup {"freezone"}) \cup {"beneficiary"}
    BY DEF ShareNames
  <2> QED BY <2>2, <2>3, FS_Subset
<1>2. \A y \in ShareNames : x[y] \in Int
  BY DEF Shares, ShareNames
<1>3. SumFunctionOnSet(x, S) \in Int
  BY <1>1, <1>2, SumIsInt
<1>4. CASE c
  BY <1>1, <1>2, <1>4, SumAdds
<1>5. CASE ~c
  BY <1>3, <1>5
<1> QED BY <1>4, <1>5

LEMMA SharesNamed ==
  ASSUME NEW t \in Terms, NEW w \in Wallets, NEW x \in Shares
  PROVE  SumFunctionOnSet(x, Named(t, w)) = Credited(t, x, w)
<1> DEFINE One(c, a) == IF c THEN {a} ELSE {}
           G == {} \cup One(w = t.gatewayWallet, "gateway")
           F == G \cup One(w = t.freezoneWallet, "freezone")
           B == F \cup One(w = t.beneficiary, "beneficiary")
<1>1. Named(t, w) = B
  BY DEF Named
<1>2. SumFunctionOnSet(x, G) = SumFunctionOnSet(x, {}) + (IF w = t.gatewayWallet THEN x.gateway ELSE 0)
  BY NextShare DEF ShareNames
<1>3. SumFunctionOnSet(x, F) = SumFunctionOnSet(x, G) + (IF w = t.freezoneWallet THEN x.freezone ELSE 0)
  BY NextShare DEF ShareNames
<1>4. SumFunctionOnSet(x, B) = SumFunctionOnSet(x, F) + (IF w = t.beneficiary THEN x.beneficiary ELSE 0)
  BY NextShare DEF ShareNames
<1>5. SumFunctionOnSet(x, {}) = 0
  BY SumEmpty
<1> HIDE DEF G, F, B
<1>6. x.gateway \in Nat /\ x.freezone \in Nat /\ x.beneficiary \in Nat
  BY DEF Shares
<1> QED BY <1>1, <1>2, <1>3, <1>4, <1>5, <1>6 DEF Credited

DueTo(w) == [r \in Refs |-> Due(r, w)]

DuesAreNumbers == \A w \in Wallets : \A r \in Refs : DueTo(w)[r] \in Nat

LEMMA DueIsNumber == TypeOK => DuesAreNumbers
<1> SUFFICES ASSUME TypeOK, NEW w \in Wallets, NEW r \in Refs PROVE Due(r, w) \in Nat
  BY DEF DuesAreNumbers, DueTo
<1>1. sent[r] \in Shares
  BY DEF TypeOK
<1>2. CASE quoted[r] = NoTerms
  BY <1>2 DEF Due
<1>3. CASE quoted[r] # NoTerms
  <2>1. quoted[r] \in Terms
    BY <1>3 DEF TypeOK
  <2>2. Due(r, w) = Credited(quoted[r], sent[r], w)
    BY <1>1, <1>3, <2>1, SharesNamed DEF Due
  <2> QED BY <1>1, <2>2 DEF Credited, Shares
<1> QED BY <1>2, <1>3

(* What one release adds to a purse is what it adds to the shares.          *)
LEMMA CreditedAdds ==
  ASSUME NEW t \in Terms, NEW w \in Wallets, NEW x \in Shares, NEW y \in Shares
  PROVE  /\ AddShares(x, y) \in Shares
         /\ Credited(t, AddShares(x, y), w) = Credited(t, x, w) + Credited(t, y, w)
         /\ Credited(t, x, w) \in Nat /\ Credited(t, y, w) \in Nat
<1>1. /\ x.gateway \in Nat /\ x.freezone \in Nat /\ x.beneficiary \in Nat
      /\ y.gateway \in Nat /\ y.freezone \in Nat /\ y.beneficiary \in Nat
  BY DEF Shares
<1> QED BY <1>1 DEF AddShares, Credited, Shares

LEMMA PayOutKeepsPurses ==
  ASSUME TypeOK, TypeOK', PursesMatchTerms, NEW t \in Terms, Funded(t), PayOut(t), quoted' = quoted
  PROVE  PursesMatchTerms'
<1> DEFINE q == t.ref
           x == Split(t.fee, balance[q])
<1>1. q \in Refs /\ quoted[q] = t /\ t # NoTerms
  BY DEF Terms, Funded
<1>2. /\ sent' = [sent EXCEPT ![q] = AddShares(@, x)]
      /\ purse' = [v \in Wallets |-> purse[v] + Credited(t, x, v)]
  BY DEF PayOut
<1>3. x \in Shares /\ sent[q] \in Shares /\ AddShares(sent[q], x) \in Shares
  BY <1>1, ReleaseAmounts DEF TypeOK
<1> HIDE DEF q, x
<1> SUFFICES ASSUME NEW w \in Wallets
             PROVE  purse'[w] = SumFunctionOnSet(DueTo(w)', Refs)
  BY DEF PursesMatchTerms, SumFunction, DueTo
<1>4. purse[w] = SumFunctionOnSet(DueTo(w), Refs)
  BY DEF PursesMatchTerms, SumFunction, DueTo
<1>5. DueTo(w)[q] = Credited(t, sent[q], w)
  BY <1>1, <1>3, SharesNamed DEF DueTo, Due
<1>6. DueTo(w)'[q] = Credited(t, sent[q], w) + Credited(t, x, w)
  <2>1. sent'[q] = AddShares(sent[q], x)
    BY <1>1, <1>2 DEF TypeOK
  <2>2. DueTo(w)'[q] = SumFunctionOnSet(sent'[q], Named(t, w))
    BY <1>1 DEF DueTo, Due, Named
  <2>3. SumFunctionOnSet(AddShares(sent[q], x), Named(t, w)) = Credited(t, AddShares(sent[q], x), w)
    BY <1>3, SharesNamed
  <2>4. Credited(t, AddShares(sent[q], x), w) = Credited(t, sent[q], w) + Credited(t, x, w)
    BY <1>3, CreditedAdds
  <2> QED BY <2>1, <2>2, <2>3, <2>4
<1>7. \A r \in Refs \ {q} : DueTo(w)'[r] = DueTo(w)[r]
  <2>1. \A r \in Refs \ {q} : sent'[r] = sent[r]
    BY <1>1, <1>2 DEF TypeOK
  <2> QED BY <2>1 DEF DueTo, Due, Named
<1>8. \A r \in Refs : DueTo(w)[r] \in Int /\ DueTo(w)'[r] \in Int
  <2>1. DuesAreNumbers /\ DuesAreNumbers'
    BY DueIsNumber, PTL
  <2> QED BY <2>1 DEF DuesAreNumbers
<1>9. SumFunctionOnSet(DueTo(w)', Refs) = SumFunctionOnSet(DueTo(w), Refs) - DueTo(w)[q] + DueTo(w)'[q]
  BY <1>1, <1>7, <1>8, SumChanges
<1>10. purse'[w] = purse[w] + Credited(t, x, w)
  BY <1>2
<1>11. Credited(t, x, w) \in Nat /\ Credited(t, sent[q], w) \in Nat /\ purse[w] \in Nat
  BY <1>3, CreditedAdds DEF TypeOK
<1> QED BY <1>4, <1>5, <1>6, <1>9, <1>10, <1>11

(* Terms quoted to an invoice nothing was sent for owe nobody anything.     *)
LEMMA QuoteKeepsPurses ==
  ASSUME TypeOK, Amounts, PursesMatchTerms, NEW q \in Refs, NEW t \in Terms, quoted[q] = NoTerms,
         quoted' = [quoted EXCEPT ![q] = t], UNCHANGED <<sent, purse>>
  PROVE  PursesMatchTerms'
<1> SUFFICES ASSUME NEW w \in Wallets
             PROVE  DueTo(w)' = DueTo(w)
  BY DEF PursesMatchTerms, DueTo
<1>1. sent[q] = NoSplit /\ NoSplit \in Shares
  BY DEF Amounts, ReleasedWasQuoted, UntouchedUntilReleased, TypeOK
<1>2. Due(q, w)' = SumFunctionOnSet(NoSplit, Named(t, w)) /\ Due(q, w) = 0
  BY <1>1 DEF Due, Named, TypeOK
<1>3. SumFunctionOnSet(NoSplit, Named(t, w)) = 0
  <2>1. Credited(t, NoSplit, w) = 0
    BY DEF Credited, NoSplit
  <2> QED BY <1>1, <2>1, SharesNamed
<1>4. \A r \in Refs : Due(r, w)' = Due(r, w)
  <2> TAKE r \in Refs
  <2>1. CASE r = q
    BY <1>2, <1>3, <2>1
  <2>2. CASE r # q
    BY <2>2 DEF Due, Named, TypeOK
  <2> QED BY <2>1, <2>2
<1> QED BY <1>4 DEF DueTo

LEMMA PursesNext == TypeOK /\ Amounts /\ PursesMatchTerms /\ [Next]_vars => PursesMatchTerms'
<1> SUFFICES ASSUME TypeOK, TypeOK', Amounts, PursesMatchTerms, [Next]_vars PROVE PursesMatchTerms'
  BY TypeNext
<1>0. UNCHANGED <<quoted, sent, purse>> => PursesMatchTerms'
  BY DEF PursesMatchTerms, Due, Named
<1>1. ASSUME NEW a \in Accounts, NEW f \in TermInputs, SetTerms(a, f)
      PROVE  PursesMatchTerms'
  BY <1>0, <1>1 DEF SetTerms
<1>2. ASSUME NEW a \in Accounts, NEW b \in Accounts \cup {NoAccount}, TransferOwnership(a, b)
      PROVE  PursesMatchTerms'
  BY <1>0, <1>2 DEF TransferOwnership
<1>3. ASSUME NEW r \in Refs, QuoteExport(r)
      PROVE  PursesMatchTerms'
  BY <1>3, CurrentTermsTyped, QuoteKeepsPurses DEF QuoteExport
<1>4. ASSUME NEW r \in Refs, NEW w \in Sellers, NEW fee \in PinInputs, QuoteImport(r, w, fee)
      PROVE  PursesMatchTerms'
  BY <1>4, ImportTermsTyped, QuoteKeepsPurses DEF QuoteImport
<1>5. ASSUME NEW r \in Refs, NEW n \in 1 .. MaxPaid, Pay(r, n)
      PROVE  PursesMatchTerms'
  BY <1>0, <1>5 DEF Pay
<1>6. ASSUME NEW r \in Refs, NEW t \in Callable(r), ReleaseByDeploying(t) \/ ReleaseAgain(t)
      PROVE  PursesMatchTerms'
  BY <1>0, <1>6, CallableTyped, PayOutKeepsPurses DEF ReleaseByDeploying, ReleaseAgain
<1>7. CASE UNCHANGED vars
  BY <1>0, <1>7 DEF vars
<1> QED BY <1>1, <1>2, <1>3, <1>4, <1>5, <1>6, <1>7 DEF Next

LEMMA PursesInit == Init => PursesMatchTerms
<1> SUFFICES ASSUME Init, NEW w \in Wallets PROVE purse[w] = SumFunctionOnSet(DueTo(w), Refs)
  BY DEF PursesMatchTerms, SumFunction, DueTo
<1> DEFINE none == [r \in Refs |-> 0]
<1>1. DueTo(w) = none
  BY DEF Init, DueTo, Due
<1>2. SumFunctionOnSet(none, Refs) = 0
  BY SumOfNothing
<1> QED BY <1>1, <1>2 DEF Init

(* Every purse holds the shares of the addresses whose terms name it, and   *)
(* no more, whatever the factory's terms are by the time of a release.      *)
THEOREM PursesMatchTermsAlways == Spec => []PursesMatchTerms
<1>1. Init => TypeOK /\ Amounts /\ PursesMatchTerms
  BY TypeInit, AmountsInit, PursesInit
<1>2. TypeOK /\ Amounts /\ PursesMatchTerms /\ [Next]_vars => (TypeOK /\ Amounts /\ PursesMatchTerms)'
  BY TypeNext, AmountsNext, PursesNext
<1> QED BY <1>1, <1>2, PTL DEF Spec

-----------------------------------------------------------------------------
(* The buyer's page.                                                        *)

USE PageConstants

PageStatuses == {"PENDING", "APPROVED", "PAYMENT_PENDING", "PAID", "EXPIRED", "REJECTED"}
PageSteps == {"opened", "idle", "wallet", "start", "confirm", "load", "show"}
Answer == [status : PageStatuses, received : Nat]

(* A hash is in hand while it is being submitted, an answer once it is read.*)
PageJob ==
  {j \in [at : PageSteps, from : PageStatuses, value : Nat, tx : Transfers \cup {None},
          answer : Answer \cup {None}] :
     /\ j.at \in {"start", "confirm"} => j.tx \in Transfers
     /\ j.at = "show" => j.answer \in Answer}

PageTyped ==
  /\ invoice \in [status : PageStatuses, received : Nat, pending : Nat]
  /\ transferred \in [Transfers -> Nat]
  /\ mined \in [Transfers -> {"no", "mined", "final"}]
  /\ seen \in [Transfers -> {"none", "CONFIRMING", "CONFIRMED"}]
  /\ copy \in [Pages -> Answer \cup {None}]
  /\ job \in [Pages -> PageJob]
  /\ answers \in [Pages -> SUBSET Answer]

Mined == {t \in Transfers : mined[t] # "no"}
Covered == Sum(Mined) >= Amount

(* The watcher's rows stand for mined transfers, those for transfers sent.  *)
RowsAreMined ==
  \A t \in Transfers : /\ seen[t] # "none" => t \in Mined
                       /\ t \in Mined => transferred[t] > 0

(* Wherever the page could learn PAID from: the row, what it shows, an      *)
(* answer on its way, however old.                                          *)
PaidIsSaid ==
  \/ invoice.status = "PAID"
  \/ \E p \in Pages : \/ copy[p] # None /\ copy[p].status = "PAID"
                      \/ \E a \in answers[p] : a.status = "PAID"
                      \/ job[p].at = "show" /\ job[p].answer.status = "PAID"

PageInv == PageTyped /\ RowsAreMined /\ (PaidIsSaid => Covered)

LEMMA PageIdleIsJob == Idle \in PageJob
BY DEF Idle, PageJob, PageSteps, PageStatuses

LEMMA PageShownIsAnswer == ASSUME PageTyped PROVE Shown \in Answer
BY DEF PageTyped, Shown, Answer

LEMMA TransferSums ==
  ASSUME PageTyped, NEW S \in SUBSET Transfers
  PROVE  IsFiniteSet(S) /\ Sum(S) \in Nat
<1>1. IsFiniteSet(S)
  BY FS_Subset
<1>2. \A t \in S : transferred[t] \in Nat
  BY DEF PageTyped
<1> QED BY <1>1, <1>2, SumIsNat DEF Sum

LEMMA PageInitHolds == PageInit => PageInv
<1> SUFFICES ASSUME PageInit PROVE PageInv
  OBVIOUS
<1>1. PageTyped
  <2>1. Idle \in PageJob
    BY PageIdleIsJob
  <2> QED BY <2>1 DEF PageInit, PageTyped, PageStatuses
<1>2. RowsAreMined
  BY DEF PageInit, RowsAreMined, Mined
<1>3. ~PaidIsSaid
  BY DEF PageInit, PaidIsSaid, Idle
<1> QED BY <1>1, <1>2, <1>3 DEF PageInv

-----------------------------------------------------------------------------
(* What is covered stays covered.                                           *)

(* A transfer gets into a block, or becomes final in it.                    *)
LEMMA BlocksCoverMore ==
  ASSUME PageInv, NEW t \in Transfers, Mine(t) \/ Finalise(t)
  PROVE  RowsAreMined' /\ (Covered => Covered')
<1>1. PICK x \in {"mined", "final"} : mined' = [mined EXCEPT ![t] = x]
  BY DEF Mine, Finalise
<1>2. transferred' = transferred /\ seen' = seen /\ transferred[t] > 0
  BY DEF Mine, Finalise, PageInv, RowsAreMined, Mined
<1>3. Mined' = Mined \cup {t}
  BY <1>1 DEF PageInv, PageTyped, Mined
<1>4. RowsAreMined'
  BY <1>2, <1>3 DEF PageInv, RowsAreMined
<1>5. Sum(Mined)' = SumFunctionOnSet(transferred, Mined \cup {t})
  BY <1>2, <1>3 DEF Sum
<1>6. Mined \cup {t} \in SUBSET Transfers
  BY DEF Mined
<1>7. IsFiniteSet(Mined \cup {t}) /\ \A u \in Mined \cup {t} : transferred[u] \in Nat
  BY <1>6, TransferSums DEF PageInv, PageTyped
<1>8. Sum(Mined) <= SumFunctionOnSet(transferred, Mined \cup {t})
  BY <1>7, SumMonotone DEF Sum
<1>9. Sum(Mined) \in Nat /\ Sum(Mined \cup {t}) \in Nat
  BY <1>6, TransferSums DEF PageInv
<1> QED BY <1>4, <1>5, <1>8, <1>9 DEF Covered, Sum

(* A new transfer is in no block, so it changes nothing of what is.         *)
LEMMA SendingCoversNoLess ==
  ASSUME PageInv, Fresh # {}, NEW n \in Nat,
         transferred' = [transferred EXCEPT ![NewTransfer] = n], UNCHANGED <<mined, seen>>
  PROVE  RowsAreMined' /\ (Covered => Covered')
<1>1. PICK new : new = NewTransfer
  OBVIOUS
<1>2. new \in Fresh
  BY <1>1 DEF NewTransfer
<1>3. new \in Transfers /\ new \notin Mined
  BY <1>2 DEF Fresh, PageInv, PageTyped, RowsAreMined
<1>4. Mined' = Mined /\ \A t \in Mined : transferred'[t] = transferred[t]
  BY <1>1, <1>3 DEF Mined, PageInv, PageTyped
<1>5. RowsAreMined'
  BY <1>4 DEF PageInv, RowsAreMined
<1>6. IsFiniteSet(Mined)
  BY TransferSums DEF PageInv, Mined
<1>7. SumFunctionOnSet(transferred', Mined) = SumFunctionOnSet(transferred, Mined)
  BY <1>4, <1>6, SumSame
<1>8. Sum(Mined)' = Sum(Mined)
  BY <1>4, <1>7 DEF Sum
<1> QED BY <1>5, <1>8 DEF Covered

(* Nothing happens to the transfers, and rows are made for mined ones.      *)
LEMMA RowsCoverNoLess ==
  ASSUME PageInv, UNCHANGED chain, seen' = seen \/ \E t \in Mined : seen' = [seen EXCEPT ![t] = RowOf(t)]
  PROVE  RowsAreMined' /\ (Covered => Covered')
<1>1. transferred' = transferred /\ mined' = mined
  BY DEF chain
<1>2. Mined' = Mined
  BY <1>1 DEF Mined
<1>3. Covered' = Covered
  BY <1>1, <1>2 DEF Covered, Sum
<1>4. \A t \in Transfers : seen'[t] = seen[t] \/ t \in Mined
  BY DEF PageInv, PageTyped
<1> QED BY <1>1, <1>2, <1>3, <1>4 DEF PageInv, RowsAreMined

-----------------------------------------------------------------------------
(* What makes the invoice PAID covers it.                                   *)

LEMMA ConfirmCovers ==
  ASSUME PageInv, NEW t \in Transfers, Accepted(t)
  PROVE  Covered
<1>1. {t} \in SUBSET Mined /\ Mined \in SUBSET Transfers
  BY DEF Accepted, Mined
<1>2. IsFiniteSet(Mined) /\ Sum(Mined) \in Nat
  BY <1>1, TransferSums DEF PageInv
<1>3. \A u \in Mined : transferred[u] \in Nat
  BY <1>1 DEF PageInv, PageTyped
<1>4. Sum({t}) <= Sum(Mined)
  BY <1>1, <1>2, <1>3, SumMonotone DEF Sum
<1>5. Sum({t}) = transferred[t]
  <2>1. {} \cup {t} = {t} /\ IsFiniteSet({}) /\ t \notin {}
    BY FS_EmptySet
  <2>2. SumFunctionOnSet(transferred, {} \cup {t}) = SumFunctionOnSet(transferred, {}) + transferred[t]
    <3>1. \A x \in {} \cup {t} : transferred[x] \in Int
      BY DEF PageInv, PageTyped
    <3> QED BY <2>1, <3>1, SumAdds
  <2>3. transferred[t] \in Nat
    BY DEF PageInv, PageTyped
  <2> QED BY <2>1, <2>2, <2>3, SumEmpty DEF Sum
<1>6. transferred[t] >= Amount
  BY DEF Accepted
<1>7. transferred[t] \in Nat /\ Amount \in Nat
  BY DEF PageInv, PageTyped
<1> QED BY <1>2, <1>4, <1>5, <1>6, <1>7 DEF Covered

LEMMA MatchCovers ==
  ASSUME PageInv, NEW t \in Transfers, Match(t), invoice'.status = "PAID"
  PROVE  Covered
<1> DEFINE Final == {u \in Transfers : seen[u] = "CONFIRMED"}
<1>1. Final \in SUBSET Mined /\ Mined \in SUBSET Transfers
  BY DEF PageInv, RowsAreMined, Mined
<1>2. IsFiniteSet(Mined) /\ Sum(Mined) \in Nat /\ Sum(Final) \in Nat
  BY <1>1, TransferSums DEF PageInv
<1>3. \A u \in Mined : transferred[u] \in Nat
  BY <1>1 DEF PageInv, PageTyped
<1>4. Sum(Final) <= Sum(Mined)
  BY <1>1, <1>2, <1>3, SumMonotone DEF Sum
<1>5. ~(Sum(Final) < Amount)
  BY DEF Match
<1> QED BY <1>2, <1>4, <1>5 DEF Covered

-----------------------------------------------------------------------------
(* One step of a page.                                                      *)

(* What one page comes to show and to do, and what may still come for it.  *)
Moves(p, c, j, A) ==
  /\ copy' = [copy EXCEPT ![p] = c]
  /\ job' = [job EXCEPT ![p] = j]
  /\ answers' = [answers EXCEPT ![p] = A]

SaysPaid(c, j, A) ==
  \/ c # None /\ c.status = "PAID"
  \/ \E a \in A : a.status = "PAID"
  \/ j.at = "show" /\ j.answer.status = "PAID"

LEMMA PageMoves ==
  ASSUME PageTyped, NEW p \in Pages, NEW c \in Answer \cup {None}, NEW j \in PageJob,
         NEW A \in SUBSET Answer, Moves(p, c, j, A)
  PROVE  /\ copy' \in [Pages -> Answer \cup {None}]
         /\ job' \in [Pages -> PageJob]
         /\ answers' \in [Pages -> SUBSET Answer]
         /\ PaidIsSaid' => invoice'.status = "PAID" \/ PaidIsSaid \/ SaysPaid(c, j, A)
<1>1. /\ copy' \in [Pages -> Answer \cup {None}]
      /\ job' \in [Pages -> PageJob]
      /\ answers' \in [Pages -> SUBSET Answer]
  BY DEF Moves, PageTyped
<1>2. copy'[p] = c /\ job'[p] = j /\ answers'[p] = A
  BY DEF Moves, PageTyped
<1>3. \A q \in Pages \ {p} : copy'[q] = copy[q] /\ job'[q] = job[q] /\ answers'[q] = answers[q]
  BY DEF Moves, PageTyped
<1>4. ASSUME PaidIsSaid', invoice'.status # "PAID"
      PROVE  PaidIsSaid \/ SaysPaid(c, j, A)
  <2>1. PICK q \in Pages : SaysPaid(copy'[q], job'[q], answers'[q])
    BY <1>4 DEF PaidIsSaid, SaysPaid
  <2>2. CASE q = p
    BY <1>2, <2>1, <2>2
  <2>3. CASE q # p
    <3>1. SaysPaid(copy[q], job[q], answers[q])
      BY <1>3, <2>1, <2>3
    <3> QED BY <3>1 DEF PaidIsSaid, SaysPaid
  <2> QED BY <2>2, <2>3
<1> QED BY <1>1, <1>4

(* A step that says nothing new about the invoice keeps the invariant.      *)
LEMMA PageKeeps ==
  ASSUME PageInv, PageTyped', RowsAreMined', Covered => Covered', PaidIsSaid' => PaidIsSaid \/ Covered
  PROVE  PageInv'
BY DEF PageInv

(* ... nor does what a row or a block does, unless it makes the row PAID.   *)
LEMMA ServerKeeps ==
  ASSUME PageInv, UNCHANGED pages,
         invoice' \in [status : PageStatuses, received : Nat, pending : Nat],
         invoice'.status = "PAID" => invoice.status = "PAID" \/ Covered,
         transferred' \in [Transfers -> Nat], mined' \in [Transfers -> {"no", "mined", "final"}],
         seen' \in [Transfers -> {"none", "CONFIRMING", "CONFIRMED"}],
         RowsAreMined', Covered => Covered'
  PROVE  PageInv'
<1>1. copy' = copy /\ job' = job /\ answers' = answers
  BY DEF pages
<1>2. PageTyped'
  BY <1>1 DEF PageInv, PageTyped
<1>3. PaidIsSaid' => PaidIsSaid \/ Covered
  BY <1>1 DEF PaidIsSaid
<1> QED BY <1>2, <1>3, PageKeeps

LEMMA RowTyped ==
  ASSUME PageTyped, NEW t \in Transfers
  PROVE  [seen EXCEPT ![t] = RowOf(t)] \in [Transfers -> {"none", "CONFIRMING", "CONFIRMED"}]
BY DEF PageTyped, RowOf

(* The handlers of the server and of the watcher, time and the chain.       *)
LEMMA ServerNext ==
  ASSUME PageInv,
         \/ Approve \/ Reject \/ ExpireStale \/ Lapse
         \/ \E t \in Transfers : See(t) \/ Match(t) \/ Mine(t) \/ Finalise(t)
  PROVE  PageInv'
<1>0. PageTyped /\ invoice \in [status : PageStatuses, received : Nat, pending : Nat]
  BY DEF PageInv, PageTyped
<1>1. CASE Approve \/ Reject \/ ExpireStale \/ Lapse
  <2>1. UNCHANGED <<pages, chain, seen>> /\ transferred' = transferred /\ mined' = mined
    BY <1>1 DEF Approve, Reject, ExpireStale, Lapse, chain
  <2>2. /\ invoice' \in [status : PageStatuses, received : Nat, pending : Nat]
        /\ invoice'.status = "PAID" => invoice.status = "PAID"
    BY <1>0, <1>1 DEF Approve, Reject, ExpireStale, Lapse, PageStatuses
  <2>3. RowsAreMined' /\ (Covered => Covered')
    BY <2>1, RowsCoverNoLess
  <2> QED BY <1>0, <2>1, <2>2, <2>3, ServerKeeps DEF PageTyped
<1>2. ASSUME NEW t \in Transfers, See(t)
      PROVE  PageInv'
  <2>1. UNCHANGED <<pages, chain>> /\ transferred' = transferred /\ mined' = mined /\ t \in Mined
        /\ seen' = [seen EXCEPT ![t] = RowOf(t)]
    BY <1>2 DEF See, chain, Mined
  <2>2. Sum({u \in Transfers : seen[u] = "CONFIRMING"} \cup {t}) \in Nat
    BY <1>0, TransferSums
  <2>3. /\ invoice' \in [status : PageStatuses, received : Nat, pending : Nat]
        /\ invoice'.status = invoice.status
    BY <1>0, <1>2, <2>2 DEF See
  <2>4. RowsAreMined' /\ (Covered => Covered')
    BY <2>1, RowsCoverNoLess
  <2>5. seen' \in [Transfers -> {"none", "CONFIRMING", "CONFIRMED"}]
    BY <1>0, <2>1, RowTyped
  <2> QED BY <1>0, <2>1, <2>3, <2>4, <2>5, ServerKeeps DEF PageTyped
<1>3. ASSUME NEW t \in Transfers, Match(t)
      PROVE  PageInv'
  <2>1. UNCHANGED <<pages, chain, seen>> /\ transferred' = transferred /\ mined' = mined
    BY <1>3 DEF Match, chain
  <2>2. Sum({u \in Transfers : seen[u] = "CONFIRMED"}) \in Nat
    BY <1>0, TransferSums
  <2>3. invoice' \in [status : PageStatuses, received : Nat, pending : Nat]
    BY <1>3, <2>2 DEF Match, PageStatuses
  <2>4. invoice'.status = "PAID" => Covered
    BY <1>3, MatchCovers
  <2>5. RowsAreMined' /\ (Covered => Covered')
    BY <2>1, RowsCoverNoLess
  <2> QED BY <1>0, <2>1, <2>3, <2>4, <2>5, ServerKeeps DEF PageTyped
<1>4. ASSUME NEW t \in Transfers, Mine(t) \/ Finalise(t)
      PROVE  PageInv'
  <2>1. UNCHANGED <<pages, invoice, seen, transferred>>
    BY <1>4 DEF Mine, Finalise
  <2>2. mined' \in [Transfers -> {"no", "mined", "final"}]
    BY <1>0, <1>4 DEF Mine, Finalise, PageTyped
  <2>3. RowsAreMined' /\ (Covered => Covered')
    BY <1>4, BlocksCoverMore
  <2> QED BY <1>0, <2>1, <2>2, <2>3, ServerKeeps DEF PageTyped
<1> QED BY <1>1, <1>2, <1>3, <1>4

(* What the page shows, asks and is told, none of which reaches the chain   *)
(* or the row.                                                              *)
LEMMA ReadingNext ==
  ASSUME PageInv, NEW p \in Pages,
         \/ Open(p) \/ Poll(p) \/ PressPay(p) \/ Decline(p) \/ ReadBack(p) \/ ShowBack(p) \/ BreakOff(p)
         \/ \E a \in answers[p] : Land(p, a) \/ Lose(p, a)
         \/ \E t \in Transfers : PressCheck(p, t)
  PROVE  PageInv'
<1>0. /\ PageTyped /\ invoice' = invoice /\ UNCHANGED <<chain, seen>>
      /\ transferred' = transferred /\ mined' = mined
  BY DEF PageInv, Open, Poll, PressPay, Decline, ReadBack, ShowBack, BreakOff, Land, Lose, PressCheck, chain
<1>1. RowsAreMined' /\ (Covered => Covered')
  BY <1>0, RowsCoverNoLess
<1>2. copy[p] \in Answer \cup {None} /\ job[p] \in PageJob /\ answers[p] \in SUBSET Answer
  BY <1>0 DEF PageTyped
<1>3. Shown \in Answer /\ (Shown.status = "PAID" => PaidIsSaid)
  BY <1>0, PageShownIsAnswer DEF Shown, PaidIsSaid
<1>4. SaysPaid(copy[p], job[p], answers[p]) => PaidIsSaid
  BY DEF PaidIsSaid, SaysPaid
<1>5. ASSUME NEW c \in Answer \cup {None}, NEW j \in PageJob, NEW A \in SUBSET Answer,
             Moves(p, c, j, A), SaysPaid(c, j, A) => PaidIsSaid
      PROVE  PageInv'
  <2>1. /\ copy' \in [Pages -> Answer \cup {None}]
        /\ job' \in [Pages -> PageJob]
        /\ answers' \in [Pages -> SUBSET Answer]
        /\ PaidIsSaid' => invoice'.status = "PAID" \/ PaidIsSaid
    BY <1>0, <1>5, PageMoves
  <2>2. PageTyped'
    BY <1>0, <2>1 DEF PageTyped
  <2>3. PaidIsSaid' => PaidIsSaid \/ Covered
    BY <1>0, <2>1 DEF PaidIsSaid
  <2> QED BY <1>1, <2>2, <2>3, PageKeeps
<1>6. /\ copy = [copy EXCEPT ![p] = copy[p]]
      /\ job = [job EXCEPT ![p] = job[p]]
      /\ answers = [answers EXCEPT ![p] = answers[p]]
  BY <1>0 DEF PageTyped
<1>7. Idle \in PageJob /\ Idle.at = "idle"
  BY PageIdleIsJob DEF Idle
<1>8. CASE Open(p)
  <2> DEFINE j == [Idle EXCEPT !.at = "opened"]
  <2>1. j \in PageJob /\ j.at = "opened"
    BY <1>7 DEF PageJob, PageSteps
  <2> HIDE DEF j
  <2>2. Moves(p, Shown, j, {})
    BY <1>8 DEF Open, Moves, j
  <2>3. SaysPaid(Shown, j, {}) => PaidIsSaid
    BY <1>3, <2>1 DEF SaysPaid
  <2> QED BY <1>3, <1>5, <2>1, <2>2, <2>3
<1>9. CASE Poll(p)
  <2>1. Moves(p, copy[p], job[p], answers[p] \cup {Shown})
    BY <1>6, <1>9 DEF Poll, Moves
  <2>2. SaysPaid(copy[p], job[p], answers[p] \cup {Shown}) => PaidIsSaid
    BY <1>3, <1>4 DEF SaysPaid
  <2>3. answers[p] \cup {Shown} \in SUBSET Answer
    BY <1>2, <1>3
  <2> QED BY <1>2, <1>5, <2>1, <2>2, <2>3
<1>10. CASE PressPay(p)
  <2> DEFINE j == [Idle EXCEPT !.at = "wallet", !.from = copy[p].status, !.value = Outstanding(p)]
  <2>1. copy[p] \in Answer /\ Outstanding(p) \in Nat
    BY <1>2, <1>10 DEF PressPay, ToPay, Outstanding, Answer
  <2>2. j \in PageJob /\ j.at = "wallet"
    BY <1>7, <2>1 DEF PageJob, PageSteps, Answer
  <2> HIDE DEF j
  <2>3. Moves(p, copy[p], j, answers[p])
    BY <1>6, <1>10 DEF PressPay, Moves, j
  <2>4. SaysPaid(copy[p], j, answers[p]) => PaidIsSaid
    BY <1>4, <2>2 DEF SaysPaid
  <2> QED BY <1>2, <1>5, <2>2, <2>3, <2>4
<1>11. CASE Decline(p) \/ BreakOff(p)
  <2>1. Moves(p, copy[p], Idle, answers[p])
    BY <1>6, <1>11 DEF Decline, BreakOff, Moves
  <2>2. SaysPaid(copy[p], Idle, answers[p]) => PaidIsSaid
    BY <1>4, <1>7 DEF SaysPaid
  <2> QED BY <1>2, <1>5, <1>7, <2>1, <2>2
<1>12. CASE ReadBack(p)
  <2> DEFINE j == [job[p] EXCEPT !.at = "show", !.answer = Shown]
  <2>1. j \in PageJob /\ j.answer = Shown
    BY <1>2, <1>3 DEF PageJob, PageSteps
  <2>2. Moves(p, copy[p], j, answers[p])
    BY <1>0, <1>6, <1>12 DEF ReadBack, Moves, PageTyped
  <2> HIDE DEF j
  <2>3. SaysPaid(copy[p], j, answers[p]) => PaidIsSaid
    BY <1>3, <1>4, <2>1 DEF SaysPaid
  <2> QED BY <1>2, <1>5, <2>1, <2>2, <2>3
<1>13. CASE ShowBack(p)
  <2>1. job[p].at = "show" /\ job[p].answer \in Answer
    BY <1>2, <1>13 DEF ShowBack, PageJob
  <2>2. Moves(p, job[p].answer, Idle, answers[p])
    BY <1>6, <1>13 DEF ShowBack, Moves
  <2>3. SaysPaid(job[p].answer, Idle, answers[p]) => PaidIsSaid
    BY <1>4, <1>7, <2>1 DEF SaysPaid
  <2> QED BY <1>2, <1>5, <1>7, <2>1, <2>2, <2>3
<1>14. ASSUME NEW a \in answers[p], Land(p, a)
       PROVE  PageInv'
  <2>1. a \in Answer /\ answers[p] \ {a} \in SUBSET Answer
    BY <1>2
  <2>2. Moves(p, a, job[p], answers[p] \ {a})
    BY <1>6, <1>14 DEF Land, Moves
  <2>3. SaysPaid(a, job[p], answers[p] \ {a}) => PaidIsSaid
    BY <1>4, <1>14 DEF SaysPaid
  <2> QED BY <1>2, <1>5, <2>1, <2>2, <2>3
<1>15. ASSUME NEW a \in answers[p], Lose(p, a)
       PROVE  PageInv'
  <2>1. answers[p] \ {a} \in SUBSET Answer
    BY <1>2
  <2>2. Moves(p, copy[p], job[p], answers[p] \ {a})
    BY <1>6, <1>15 DEF Lose, Moves
  <2>3. SaysPaid(copy[p], job[p], answers[p] \ {a}) => PaidIsSaid
    BY <1>4 DEF SaysPaid
  <2> QED BY <1>2, <1>5, <2>1, <2>2, <2>3
<1>16. ASSUME NEW t \in Transfers, PressCheck(p, t)
       PROVE  PageInv'
  <2> DEFINE j == [Idle EXCEPT !.at = "start", !.from = copy[p].status, !.tx = t]
  <2>1. copy[p] \in Answer
    BY <1>2, <1>16 DEF PressCheck, Form
  <2>2. j \in PageJob /\ j.at = "start"
    BY <1>7, <2>1 DEF PageJob, PageSteps, Answer
  <2> HIDE DEF j
  <2>3. Moves(p, copy[p], j, answers[p])
    BY <1>6, <1>16 DEF PressCheck, Moves, j
  <2>4. SaysPaid(copy[p], j, answers[p]) => PaidIsSaid
    BY <1>4, <2>2 DEF SaysPaid
  <2> QED BY <1>2, <1>5, <2>2, <2>3, <2>4
<1> QED BY <1>8, <1>9, <1>10, <1>11, <1>12, <1>13, <1>14, <1>15, <1>16

(* A transfer is sent, by the page's wallet or from elsewhere.              *)
LEMMA SendingNext ==
  ASSUME PageInv, NEW p \in Pages, Send(p) \/ \E n \in 1 .. Amount : PayElsewhere(p, n)
  PROVE  PageInv'
<1>0. PageTyped /\ Fresh # {} /\ UNCHANGED <<mined, seen>> /\ mined' = mined /\ seen' = seen
  BY DEF PageInv, Send, PayElsewhere
<1>1. PICK new : new = NewTransfer
  OBVIOUS
<1>2. new \in Transfers
  BY <1>0, <1>1 DEF NewTransfer, Fresh
<1>3. ASSUME NEW n \in Nat, transferred' = [transferred EXCEPT ![NewTransfer] = n]
      PROVE  RowsAreMined' /\ (Covered => Covered') /\ transferred' \in [Transfers -> Nat]
  <2>1. RowsAreMined' /\ (Covered => Covered')
    BY <1>0, <1>3, SendingCoversNoLess
  <2>2. transferred' \in [Transfers -> Nat]
    BY <1>0, <1>3 DEF PageTyped
  <2> QED BY <2>1, <2>2
<1>4. CASE Send(p)
  <2> DEFINE j == [job[p] EXCEPT !.at = "start", !.value = 0, !.tx = new]
  <2>1. job[p] \in PageJob /\ job[p].value \in Nat /\ copy[p] \in Answer \cup {None} /\ answers[p] \in SUBSET Answer
    BY <1>0 DEF PageTyped, PageJob
  <2>2. j \in PageJob /\ j.at = "start"
    BY <1>2, <2>1 DEF PageJob, PageSteps
  <2>3. invoice' = invoice /\ Moves(p, copy[p], j, answers[p])
    BY <1>0, <1>1, <1>4 DEF Send, Moves, PageTyped
  <2> HIDE DEF j
  <2>4. RowsAreMined' /\ (Covered => Covered') /\ transferred' \in [Transfers -> Nat]
    BY <1>3, <1>4, <2>1 DEF Send
  <2>5. /\ copy' \in [Pages -> Answer \cup {None}]
        /\ job' \in [Pages -> PageJob]
        /\ answers' \in [Pages -> SUBSET Answer]
        /\ PaidIsSaid' => invoice'.status = "PAID" \/ PaidIsSaid \/ SaysPaid(copy[p], j, answers[p])
    BY <1>0, <2>1, <2>2, <2>3, PageMoves
  <2>6. PageTyped'
    BY <1>0, <2>3, <2>4, <2>5 DEF PageTyped
  <2>7. PaidIsSaid' => PaidIsSaid \/ Covered
    BY <2>2, <2>3, <2>5 DEF PaidIsSaid, SaysPaid
  <2> QED BY <2>4, <2>6, <2>7, PageKeeps
<1>5. ASSUME NEW n \in 1 .. Amount, PayElsewhere(p, n)
      PROVE  PageInv'
  <2>1. n \in Nat /\ invoice' = invoice /\ UNCHANGED pages
    BY <1>5 DEF PayElsewhere
  <2>2. RowsAreMined' /\ (Covered => Covered') /\ transferred' \in [Transfers -> Nat]
    BY <1>3, <1>5, <2>1 DEF PayElsewhere
  <2> QED BY <1>0, <2>1, <2>2, ServerKeeps DEF PageTyped
<1> QED BY <1>4, <1>5

(* The hash goes in: startPayment, then confirmPayment.                     *)
LEMMA SubmittingNext ==
  ASSUME PageInv, NEW p \in Pages, SubmitStart(p) \/ SubmitHash(p)
  PROVE  PageInv'
<1>0. PageTyped /\ job[p] \in PageJob /\ copy[p] \in Answer \cup {None} /\ answers[p] \in SUBSET Answer
  BY DEF PageInv, PageTyped
<1>1. /\ UNCHANGED chain /\ transferred' = transferred /\ mined' = mined
      /\ copy' = [copy EXCEPT ![p] = copy[p]] /\ answers' = [answers EXCEPT ![p] = answers[p]]
  BY <1>0 DEF SubmitStart, SubmitHash, chain, PageTyped
<1>2. job[p].tx \in Transfers
  BY <1>0 DEF SubmitStart, SubmitHash, PageJob
<1>3. ASSUME NEW j \in PageJob, j.at # "show", job' = [job EXCEPT ![p] = j],
             invoice' \in [status : PageStatuses, received : Nat, pending : Nat],
             invoice'.status = "PAID" => invoice.status = "PAID" \/ Covered,
             seen' = seen \/ \E t \in Mined : seen' = [seen EXCEPT ![t] = RowOf(t)]
      PROVE  PageInv'
  <2>1. RowsAreMined' /\ (Covered => Covered')
    BY <1>1, <1>3, RowsCoverNoLess
  <2>2. seen' \in [Transfers -> {"none", "CONFIRMING", "CONFIRMED"}]
    <3>1. CASE seen' = seen
      BY <1>0, <3>1 DEF PageTyped
    <3>2. ASSUME NEW t \in Mined, seen' = [seen EXCEPT ![t] = RowOf(t)]
          PROVE  seen' \in [Transfers -> {"none", "CONFIRMING", "CONFIRMED"}]
      <4>1. t \in Transfers
        BY DEF Mined
      <4> QED BY <1>0, <3>2, <4>1, RowTyped
    <3> QED BY <1>3, <3>1, <3>2
  <2>3. /\ copy' \in [Pages -> Answer \cup {None}]
        /\ job' \in [Pages -> PageJob]
        /\ answers' \in [Pages -> SUBSET Answer]
        /\ PaidIsSaid' => invoice'.status = "PAID" \/ PaidIsSaid \/ SaysPaid(copy[p], j, answers[p])
    <3>1. Moves(p, copy[p], j, answers[p])
      BY <1>1, <1>3 DEF Moves
    <3> QED BY <1>0, <3>1, PageMoves
  <2>4. PageTyped'
    BY <1>0, <1>1, <1>3, <2>2, <2>3 DEF PageTyped
  <2>5. PaidIsSaid' => PaidIsSaid \/ Covered
    BY <1>3, <2>3 DEF PaidIsSaid, SaysPaid
  <2> QED BY <2>1, <2>4, <2>5, PageKeeps
<1>4. Idle \in PageJob
  BY PageIdleIsJob
<1>5. invoice \in [status : PageStatuses, received : Nat, pending : Nat]
  BY <1>0 DEF PageTyped
<1>6. CASE SubmitStart(p)
  <2> DEFINE j == [Idle EXCEPT !.at = "confirm", !.tx = job[p].tx]
  <2>1. j \in PageJob /\ j.at # "show"
    BY <1>2, <1>4 DEF PageJob, PageSteps
  <2> HIDE DEF j
  <2>2. job' = [job EXCEPT ![p] = j] /\ seen' = seen
    BY <1>6 DEF SubmitStart, j
  <2>3. /\ invoice' \in [status : PageStatuses, received : Nat, pending : Nat]
        /\ invoice'.status = "PAID" => invoice.status = "PAID"
    BY <1>5, <1>6 DEF SubmitStart, StartPayment, PageStatuses
  <2> QED BY <1>3, <2>1, <2>2, <2>3
<1>7. CASE SubmitHash(p)
  <2> DEFINE j == [Idle EXCEPT !.at = "load"]
  <2>1. j \in PageJob /\ j.at # "show"
    BY <1>4 DEF PageJob, PageSteps
  <2> HIDE DEF j
  <2>2. job' = [job EXCEPT ![p] = j] /\ ConfirmPayment(job[p].tx)
    BY <1>7 DEF SubmitHash, j
  <2>3. PICK t \in Transfers : t = job[p].tx
    BY <1>2
  <2>4. CASE Accepted(t)
    <3>1. t \in Mined /\ Covered
      BY <2>4, ConfirmCovers DEF Accepted, Mined
    <3>2. invoice' = [invoice EXCEPT !.status = "PAID", !.received = transferred[t]]
          /\ seen' = [seen EXCEPT ![t] = RowOf(t)]
      BY <2>2, <2>3, <2>4 DEF ConfirmPayment
    <3>3. invoice' \in [status : PageStatuses, received : Nat, pending : Nat]
      BY <1>0, <1>5, <3>2 DEF PageTyped, PageStatuses
    <3> QED BY <1>3, <2>1, <2>2, <3>1, <3>2, <3>3
  <2>5. CASE ~Accepted(t)
    <3>1. invoice' = invoice /\ seen' = seen
      BY <2>2, <2>3, <2>5 DEF ConfirmPayment
    <3> QED BY <1>3, <1>5, <2>1, <2>2, <3>1
  <2> QED BY <2>4, <2>5
<1> QED BY <1>6, <1>7

LEMMA PageNextKeeps == ASSUME PageInv, [PageNext]_pageVars PROVE PageInv'
<1>1. CASE UNCHANGED pageVars
  BY <1>1 DEF pageVars, chain, pages, PageInv, PageTyped, RowsAreMined, PaidIsSaid, Covered, Mined, Sum
<1>2. CASE PageNext
  BY <1>2, ServerNext, ReadingNext, SendingNext, SubmittingNext DEF PageNext, Submit
<1> QED BY <1>1, <1>2

(* A page says "Payment received" only when transfers that cover the        *)
(* invoice are in blocks: with any number of pages and transfers, answers   *)
(* that come late, out of order or never, hashes reported twice or after    *)
(* the watcher, and money sent from elsewhere.                              *)
THEOREM ShownPaidIsPaidAlways == PageSpec => []ShownPaidIsPaid
<1>1. PageInit => PageInv
  BY PageInitHolds
<1>2. PageInv /\ [PageNext]_pageVars => PageInv'
  BY PageNextKeeps
<1>3. PageInv => ShownPaidIsPaid
  BY DEF PageInv, PaidIsSaid, ShownPaidIsPaid, Covered, Mined
<1> QED BY <1>1, <1>2, <1>3, PTL DEF PageSpec
=============================================================================
