----------------------------- MODULE AfaGateway -----------------------------
(***************************************************************************)
(* The settlement contract and the backend's use of it: the factory's       *)
(* current terms, the deposit address quoted for each invoice, the tokens   *)
(* lying at it, and what each release sent where.                           *)
(*                                                                          *)
(* A deposit address is the CREATE2 hash of its terms, so an address IS a   *)
(* terms record here (the hash is taken to be injective).  Tokens are only  *)
(* ever paid to an address that was quoted.  A call that reverts changes    *)
(* nothing, so the failing branch of each require is a guard.               *)
(***************************************************************************)
EXTENDS FeeSplit, FiniteSets, Functions

CONSTANTS Refs,         \* invoices, by reference
          Accounts,     \* accounts that can call the factory
          Wallets,      \* where tokens can be sent
          NoWallet,     \* the zero address
          NoAccount,    \* the zero address, as a caller
          NoTerms,      \* no deposit row for this invoice yet
          TermInputs,   \* arguments setTerms is called with
          Sellers,      \* wallets a foreign seller asks to be paid at
          PinInputs,    \* fees an import is approved with
          MaxPaid       \* bound: tokens paid to one address in all

NoSplit == [gateway |-> 0, freezone |-> 0, beneficiary |-> 0]
Shares == [gateway : Nat, freezone : Nat, beneficiary : Nat]

(* What the factory stores, and the terms an address commits to.            *)
FactoryTerms == [fee : FeeTerms, gatewayWallet : Wallets, freezoneWallet : Wallets,
                 beneficiary : Wallets]
Terms == [ref : Refs, fee : FeeTerms, gatewayWallet : Wallets, freezoneWallet : Wallets,
          beneficiary : Wallets]

(* What a call to setTerms can carry, valid or not.                         *)
CallArguments ==
  [fee : [feeBps : Nat, freezoneBps : Nat, feeMin : Nat, feeMax : Nat],
   gatewayWallet : Wallets \cup {NoWallet}, freezoneWallet : Wallets \cup {NoWallet},
   beneficiary : Wallets \cup {NoWallet}]

ASSUME ConstantsAssumption ==
  /\ IsFiniteSet(Refs)
  /\ TermInputs \subseteq CallArguments
  /\ NoWallet \notin Wallets
  /\ NoTerms \notin Terms
  /\ Sellers \subseteq Wallets
  /\ PinInputs \subseteq Nat
  /\ MaxPaid \in Nat

VARIABLES owner,      \* the factory's owner
          current,    \* the factory's terms
          code,       \* deposit addresses with a contract deployed at them
          quoted,     \* per invoice: the deposit row's terms, or NoTerms
          balance,    \* per invoice: tokens lying at its deposit address
          paidIn,     \* per invoice: tokens ever paid to it
          sent,       \* per invoice: tokens its releases have sent to each share
          releases,   \* per invoice: number of Released events
          purse       \* per wallet: tokens received from releases

vars == <<owner, current, code, quoted, balance, paidIn, sent, releases, purse>>

-----------------------------------------------------------------------------
(* _setTerms's requirements.                                                *)
Acceptable(f) ==
  /\ f.gatewayWallet # NoWallet
  /\ f.freezoneWallet # NoWallet
  /\ f.beneficiary # NoWallet
  /\ f.fee.feeBps <= BasisPoints
  /\ f.fee.freezoneBps <= BasisPoints
  /\ CeilingFits(f.fee)

CurrentTerms(r) ==
  [ref |-> r, fee |-> current.fee, gatewayWallet |-> current.gatewayWallet,
   freezoneWallet |-> current.freezoneWallet, beneficiary |-> current.beneficiary]

(* The import override: the remainder is the seller's, the fee is pinned.   *)
ImportTerms(r, seller, fee) ==
  [ref |-> r, fee |-> PinnedFee(current.fee, fee), gatewayWallet |-> current.gatewayWallet,
   freezoneWallet |-> current.freezoneWallet, beneficiary |-> seller]

Init ==
  /\ owner \in Accounts
  /\ current \in {f \in TermInputs : Acceptable(f)}
  /\ code = {}
  /\ quoted = [r \in Refs |-> NoTerms]
  /\ balance = [r \in Refs |-> 0]
  /\ paidIn = [r \in Refs |-> 0]
  /\ sent = [r \in Refs |-> NoSplit]
  /\ releases = [r \in Refs |-> 0]
  /\ purse = [w \in Wallets |-> 0]

SetTerms(sender, next) ==
  /\ sender = owner
  /\ Acceptable(next)
  /\ current' = next
  /\ UNCHANGED <<owner, code, quoted, balance, paidIn, sent, releases, purse>>

TransferOwnership(sender, next) ==
  /\ sender = owner
  /\ next # NoAccount
  /\ owner' = next
  /\ UNCHANGED <<current, code, quoted, balance, paidIn, sent, releases, purse>>

(* Wrong on purpose: approving again moves the address to today's terms.    *)
QuoteExportAgain(r) ==
  /\ quoted' = [quoted EXCEPT ![r] = CurrentTerms(r)]
  /\ UNCHANGED <<owner, current, code, balance, paidIn, sent, releases, purse>>

(* allocateDepositAddress for an export: today's terms, kept on the row.    *)
(* An invoice that has an address keeps it.                                 *)
QuoteExport(r) ==
  /\ quoted[r] = NoTerms
  /\ quoted' = [quoted EXCEPT ![r] = CurrentTerms(r)]
  /\ UNCHANGED <<owner, current, code, balance, paidIn, sent, releases, purse>>

(* ... and for an import, with the figures the invoice carries.             *)
QuoteImport(r, seller, fee) ==
  /\ quoted[r] = NoTerms
  /\ quoted' = [quoted EXCEPT ![r] = ImportTerms(r, seller, fee)]
  /\ UNCHANGED <<owner, current, code, balance, paidIn, sent, releases, purse>>

Pay(r, amount) ==
  /\ quoted[r] # NoTerms
  /\ paidIn[r] + amount <= MaxPaid
  /\ balance' = [balance EXCEPT ![r] = @ + amount]
  /\ paidIn' = [paidIn EXCEPT ![r] = @ + amount]
  /\ UNCHANGED <<owner, current, code, quoted, sent, releases, purse>>

AddShares(s, x) ==
  [gateway |-> s.gateway + x.gateway, freezone |-> s.freezone + x.freezone,
   beneficiary |-> s.beneficiary + x.beneficiary]

(* Wrong on purpose: a wallet named twice is sent one share.                *)
CreditedOnce(t, x, w) ==
  IF w = t.gatewayWallet THEN x.gateway
  ELSE IF w = t.freezoneWallet THEN x.freezone
  ELSE IF w = t.beneficiary THEN x.beneficiary ELSE 0

(* The three transfers of one _release, on the wallets the terms name; one  *)
(* wallet may be named twice.                                               *)
Credited(t, x, w) ==
  (IF w = t.gatewayWallet THEN x.gateway ELSE 0)
    + (IF w = t.freezoneWallet THEN x.freezone ELSE 0)
    + (IF w = t.beneficiary THEN x.beneficiary ELSE 0)

(* Wrong on purpose: the split follows the factory's terms of the moment.   *)
PayOutOnCurrentTerms(t) ==
  LET x == Split(current.fee, balance[t.ref])
  IN  /\ balance' = [balance EXCEPT ![t.ref] = 0]
      /\ sent' = [sent EXCEPT ![t.ref] = AddShares(@, x)]
      /\ releases' = [releases EXCEPT ![t.ref] = @ + 1]
      /\ purse' = [w \in Wallets |-> purse[w] + Credited(t, x, w)]

(* AfaDeposit._release at the address of the terms t, quoted for t.ref.     *)
PayOut(t) ==
  LET x == Split(t.fee, balance[t.ref])
  IN  /\ balance' = [balance EXCEPT ![t.ref] = 0]
      /\ sent' = [sent EXCEPT ![t.ref] = AddShares(@, x)]
      /\ releases' = [releases EXCEPT ![t.ref] = @ + 1]
      /\ purse' = [w \in Wallets |-> purse[w] + Credited(t, x, w)]

Funded(t) == quoted[t.ref] = t /\ balance[t.ref] > 0

(* The factory's release(terms) on an address that has no contract yet: it  *)
(* is deployed, and its constructor pays out what is already there.         *)
ReleaseByDeploying(t) ==
  /\ t \notin code
  /\ code' = code \cup {t}
  /\ IF Funded(t) THEN PayOut(t) ELSE UNCHANGED <<balance, sent, releases, purse>>
  /\ UNCHANGED <<owner, current, quoted, paidIn>>

(* ... and on one that has, which reverts when there is nothing to release. *)
ReleaseAgain(t) ==
  /\ t \in code
  /\ Funded(t)
  /\ PayOut(t)
  /\ UNCHANGED <<owner, current, code, quoted, paidIn>>

(* Anyone may call release with any terms; the terms a caller has reason    *)
(* to pass are the ones quoted for an invoice or the factory's current ones.*)
Callable(r) == {CurrentTerms(r)} \cup ({quoted[r]} \ {NoTerms})

Next ==
  \/ \E a \in Accounts, f \in TermInputs : SetTerms(a, f)
  \/ \E a \in Accounts, b \in Accounts \cup {NoAccount} : TransferOwnership(a, b)
  \/ \E r \in Refs : QuoteExport(r)
  \/ \E r \in Refs, w \in Sellers, fee \in PinInputs : QuoteImport(r, w, fee)
  \/ \E r \in Refs, n \in 1 .. MaxPaid : Pay(r, n)
  \/ \E r \in Refs : \E t \in Callable(r) : ReleaseByDeploying(t)
  \/ \E r \in Refs : \E t \in Callable(r) : ReleaseAgain(t)

Spec == Init /\ [][Next]_vars

-----------------------------------------------------------------------------
(* Values of the right kind; the stored terms always passed _setTerms.      *)
TypeOK ==
  /\ owner \in Accounts
  /\ current \in FactoryTerms
  /\ code \subseteq Terms
  /\ quoted \in [Refs -> Terms \cup {NoTerms}]
  /\ balance \in [Refs -> Nat]
  /\ paidIn \in [Refs -> Nat]
  /\ sent \in [Refs -> Shares]
  /\ releases \in [Refs -> Nat]
  /\ purse \in [Wallets -> Nat]
  /\ \A r \in Refs : quoted[r] # NoTerms => quoted[r].ref = r

(* No dust stranded, ever: what was paid to an address is still there or    *)
(* was sent in three shares, however many payments and releases there were. *)
NothingStranded ==
  \A r \in Refs : paidIn[r] = balance[r] + SplitSum(sent[r])

(* Released on the terms it was quoted under: whatever the owner does to    *)
(* the factory between the quote and the release, the first release gives   *)
(* exactly the quoted split of what had arrived.                            *)
QuotedSplitHonoured ==
  \A r \in Refs : releases[r] = 1 =>
    sent[r] = Split(quoted[r].fee, paidIn[r] - balance[r])

(* Nobody is paid anything but the shares of addresses whose terms name     *)
(* them, a wallet named twice getting both: each purse is the sum of those  *)
(* shares over the invoices.                                                *)
Named(t, w) ==
  {share \in {"gateway", "freezone", "beneficiary"} :
     w = CASE share = "gateway"  -> t.gatewayWallet
           [] share = "freezone" -> t.freezoneWallet
           [] OTHER              -> t.beneficiary}
Due(r, w) == IF quoted[r] = NoTerms THEN 0 ELSE SumFunctionOnSet(sent[r], Named(quoted[r], w))
PursesMatchTerms == \A w \in Wallets : purse[w] = SumFunction([r \in Refs |-> Due(r, w)])

(* An address handed to a buyer is never moved, and a release empties it.   *)
AddressKeeps ==
  \A r \in Refs :
    /\ quoted[r] # NoTerms => quoted'[r] = quoted[r]
    /\ balance'[r] < balance[r] => balance'[r] = 0
QuotedAddressStable == [][AddressKeeps]_vars

=============================================================================
