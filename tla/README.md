# Afa gateway: a TLA+ model

Afa is a currency gateway for a free-trade zone. A merchant raises an invoice;
the buyer pays it in a stablecoin at an address of its own; the bank pays the
merchant in rial (export), or takes the importer's rial and lets the importer's
crypto reach a foreign seller (import). A Next.js server and a chain-watching
daemon share one Postgres database; a small Solidity contract turns each
address's money into three shares.

The specifications here are translated from that code: `src/contracts`,
`src/lib/server`, `src/app/api`, `src/scripts` and `src/components/checkout`.
`PROJECT.json` maps every definition to the lines it stands for.

## 1. The system

| part | state | operations | what is hard about it |
|---|---|---|---|
| Settlement contract `contracts/AfaGateway.sol` | factory owner and terms; code at addresses; token balances | `setTerms`, `transferOwnership`, `release` (deploys the address's contract, which pays out), `AfaDeposit.release` | counterfactual addresses outlive the terms of the day; truncating division in three shares; anyone may call release, any number of times |
| Address allocation `lib/server/gateway.ts`, `chain/gateway-contract.ts` | `DepositAddress` row with the serialised terms | `allocateDepositAddress`, `previewSplit` | an address must never move once quoted; the backend repeats the contract's arithmetic |
| Invoice lifecycle `api/invoices`, `…/transition` | `Invoice` row: status, rial leg, cancellation, amounts, deadline | approve, reject, lockRate, confirmRialDeposit, startPayment, confirmPayment, expire, requestCancel, cancel, confirmRialReturn | read, decide, then `update` by id: requests and the watcher interleave between |
| Watcher `lib/server/chain/watcher.ts`, `scripts/watch-chain.ts` | `ChainTx` rows, cursor, the invoice's amounts | `runWatcher`, `matchInvoice`, `retryUnmatchedDeposits`, `expireStaleInvoices`, `refreshConfirmations`, `promoteSettlement`, `recordChainTx` | a cursor over a chain that reorganises; overlapping passes; finality; money in parts or late; expiry racing a sighting |
| Booking and payout `postings.ts`, `ledger.ts`, `payout.ts` | append-only ledger entries; payout settlement | `alreadyPosted` then `post`; `raisePayoutSettlement` | runs after the status commit, outside its transaction; check and insert are two steps |
| Settlements `api/settlements`, `…/transition` | `Settlement` row | submit, setPayoutAccount, approveAdmin, rejectAdmin, lockRate, submitPayoutTx, settle, rejectBank; promotion by the watcher | two paths confirm the crypto; daily limit is read then inserted |
| Refunds `api/refunds`, `refunds.ts` | `Refund` row | request, approve, reject, markSent | races the settlement of the same money |
| Release recording `api/deposits` | `sweptAt` on the deposit row | POST | many releases on the chain, one on record |
| Login codes and rate limit `auth/otp.ts`, `api/auth/otp/*`, `ratelimit.ts` | `OtpCode` rows; buckets in memory | issue, supersede, mail, guess, redeem by code or link | marking old codes and adding one, and counting and consuming, are separate statements |
| Access list, accounts, sessions `auth/access.ts`, `auth/session.ts`, `api/auth/portal`, `api/system/*`, `api/profile` | `AllowedEmail`, `User`, `Session` rows; one setting, one flag | sign in, register, open a panel by its link (`AUTH_OPEN_ACCESS`), add, change and remove entries, assign roles, disable, enable, rename | list, account and session are three records written one after another; open access asks the list nothing |
| Wallet ownership `wallets/ownership.ts`, `api/wallets` | `WalletChallenge`, `Wallet` rows | challenge, verify, add, delete | whose wallet it is, is asked at the beginning only |
| The buyer's page `components/checkout`, `app/pay`, `serialize.ts` | a copy of the invoice in a browser | poll, pay by wallet, hand a hash over, reload | answers overtake each other; the page is the only witness of a hash |

How they interact: the web handlers and the watcher never call each other; they
share rows. An approval allocates an address (contract arithmetic, terms frozen
on the row). The watcher, or the payer reporting a hash, moves an invoice to
PAID; whichever does books it and raises the payout settlement. The settlement
desk pays rial, the bank releases addresses on the chain and reports one
release; refunds undo a payment. Each of these posts a group of ledger entries.
Signing in asks the access list what an address may be, and every request asks
the account. With `AUTH_OPEN_ACCESS` set (it is off by default) a panel's link
opens it without signing in, as an account of its kind. The page talks to the invoice routes only.

## 2. Modules

| module | models | from |
|---|---|---|
| `FeeSplit` | the fee and the three shares, as the contract and `previewSplit` compute them | `AfaGateway.sol:93-124`, `gateway-contract.ts:130-141` |
| `AfaGateway` | factory, quotes, payments, releases | `AfaGateway.sol`, `gateway.ts:34-80` |
| `InvoicePromise` | abstract: which ends a file can come to and where the rial is then | what the handlers together promise |
| `InvoiceLifecycle` | every action of the transition route, matching, expiry, booking, payout | `transition/route.ts:80-467`, `watcher.ts`, `postings.ts`, `payout.ts` |
| `SettlementDesk` | settlements, refunds, release recording and every ledger group | `settlements/**`, `refunds/**`, `deposits/route.ts`, `postings.ts`, `refunds.ts`, `ledger.ts` |
| `DepositWatcher` | one pass of the watcher await by await, against blocks, finality and reorganisations; the report of a hash and the invoice it pays | `watcher.ts:63-330, 520-620`, `verify.ts`, `chain/client.ts`, `watch-chain.ts`, `transition/route.ts:250-318` |
| `LoginCodes` | codes and links, attempts, the rate limit | `auth/otp.ts`, `api/auth/otp/**`, `ratelimit.ts` |
| `AccessControl` | list, accounts, sessions and everything that changes them | `auth/access.ts`, `auth/session.ts`, `auth/portal`, `register`, `system/users`, `system/access`, `profile` |
| `WalletOwnership` | challenges and wallet rows | `wallets/ownership.ts`, `api/wallets/**` |
| `PaymentPage` | what the buyer's page shows and does, with the server behind it | `Checkout.tsx`, `checkout.ts`, `transition/route.ts`, `watcher.ts` |
| `MC…` | small instances for TLC | |
| `…_proofs` | theorems; `Payment_proofs` is about `AfaGateway` and `PaymentPage` | |

`AfaGateway` and `SettlementDesk` both extend `FeeSplit`: the books are kept
with the same arithmetic the contract pays with. Each of the others stops where
another begins. `InvoiceLifecycle` takes the chain as a status per transfer and
`DepositWatcher` has its blocks; `DepositWatcher` keeps what a match does to an
invoice to "paid or not" and `InvoiceLifecycle` has its reads and writes. An
invoice enters `SettlementDesk` PAID, booked and with its payout raised.
`LoginCodes` ends with a redeemed address and `AccessControl` begins with one.
`PaymentPage` has the handlers in turn, since `InvoiceLifecycle` has them overlap.

### How code becomes actions

* **A handler is two to five steps of a worker.** The handlers of files have one
  shape: read the row, test guards on what was read, `prisma.update` by id, then
  (after the commit, outside it) `alreadyPosted`, `post`, `raisePayoutSettlement`.
  The read and the decision are one action (`Approve`, `Settle`, …), which puts a
  job on the worker; `Commit` writes the job whatever the row says by now;
  `CheckPosted`, `PostInvoicePaid`/`Post` and `RaisePayout` follow. Between any
  two, other workers run, and `Fail` drops the job: a killed process, or a
  database that went away.
* **`Slots` are requests being served, `Sweepers` are watcher passes.** With one
  shared worker (`Slots = Sweepers = {"worker"}`) handlers run in turn, which is
  how the code's comments and tests think of them. With separate ones they overlap.
* **A transaction of several statements** (issuing a code, issuing a challenge)
  is two steps under READ COMMITTED: the first marks the rows it can see, the
  second adds the new row and makes both visible. A later transaction that saw
  less marks less.
* **The chain** in `InvoiceLifecycle` and `SettlementDesk` is a status per
  transfer: not there, mined, final. `SeeTransfer` and `Scan` let a pass look at a
  mined transfer at any time and again: more than the cursor allows, never less.
* **The chain in `DepositWatcher`** is a height, a finalised height, and the
  block of each transaction. `IrreversibleBlock` is the node's `finalized` tag or
  the count back from the head: the code falls back to counting whenever the tag
  cannot be read, so either may be the answer at any time. `NewBlock` keeps the
  head within `MinConfirmations` of finality: an operator's count as deep as the
  chain needs (`env.ts` leaves the choice to them). Without it CONFIRMED would not
  mean irreversible. The head and the irreversible block of a pass are two
  requests of the code and one step of the model; finality in between only helps.
  Windows are asked lowest first; a refused one is halved until a single block is
  refused.
* **Time** is `window` or `overdue` (deadline ahead, past, past by a day) and moves
  by `Lapse`; a code is fresh, past the cooldown or expired; the 24 hours of the
  daily limit are one day; a rate-limit window ends by `NewWindow`, which is also a
  restart (buckets live in memory).
* **The two ways to PAID** are both in `DepositWatcher`: `Match`, of a pass, from
  confirmed rows; and `ConfirmPayment`, of the transition route, from one mined
  transfer whose hash was reported. The report is three steps: the receipt, the row,
  and the write by id, whatever has become of the invoice.
* **Open access** is a constant, `OpenAccess`, and `Demo` gives the addresses of the
  accounts that stand for the panels. A role of the model is two kinds of the code, so
  `AskPortal` may find an account of the kind or not; finding one (`Adopt`) is a read
  and a session, finding none (`Represent`) a new account before it. The seed's
  administrator is there at the beginning; its other two operators are as any the
  administrator puts on the list.
* **The contract's `require`s** are guards: a reverted call changes nothing. An
  address *is* its terms record, that is, `keccak256` is taken to be injective.
* **Secrets** are inputs: whether what was typed is the code, or a signature the
  address's, is a choice of the environment.
* **The page** keeps `copy` (what it shows), `answers` (poll answers on their way)
  and `job` (what the user or `submitHash` is in the middle of). A click keeps the
  invoice as the page showed it *then*: the React closure.
* **Amounts** are small integers in the state machines; a payment's splitting is
  exact integer arithmetic, as in the contract.
* Callers of file handlers are assumed to have passed `requireRole` and ownership
  checks: a refused call writes nothing. `AccessControl` has the checks themselves.
* In the desk a trade's `Gross` is constant, a transfer handed over is sufficient
  (`verifyTransfer` refused the others), and the bank's rial margin
  (`bankSpread`) is left out.

Variables marked *(history)* in a module are written and never read by an
action; the properties speak through them of earlier steps.

Definitions marked *Wrong on purpose* are plausible mistakes (a dropped guard, a
swapped order, a rounding of both shares). No specification uses them.
`PROJECT.json` pairs each with the property that must notice it.

## 3. Runs

All runs use `CHECK_DEADLOCK FALSE`: the bounds let a behaviour come to an end
with every file closed or every code used up, which is no error.

| run | question | instance |
|---|---|---|
| `gateway` | is what an address received sent out whole, in the quoted split, whoever changes what in between? | 2 invoices, 2 callers, 5 settings of which `_setTerms` refuses 3, one naming a wallet twice; 3 units per address |
| `overlap` | what survives handlers overlapping? | 1 invoice of either direction, 2 workers that each serve requests or passes, transfers of 3 and 4 against an amount of 3 and a fee of 1 |
| `serial` | in turn, do the handlers keep the promise, and does the daemon make progress? | 1 worker, transfers of 2 and 3, one worker may die |
| `desk_overlap` | is rial paid only for final crypto, is every decision still true when written, and do the books balance whatever is booked twice or never? | an import, 1 direct settlement, 2 transfers, 2 requests and a sweep, `Pairwise`, one may die |
| `desk_apart` | rial once and at a locked rate, within the limit, and as the books say? | 2 direct settlements of 4 under a limit of 4, an export, a refund, 1 late payment and 1 release; 2 workers, `Apart` |
| `desk_stuck` | a statement of the code that it does not keep (section 6) | 1 direct settlement, 1 transfer, under fairness |
| `watcher` | does the cursor run ahead of the work, is CONFIRMED irreversible, and what pays? | 2 passes and a reporter, `Pairwise`, 1 address, 2 blocks, 1 reorganisation |
| `watcher_credit` | is irreversible money that covers an invoice credited, and with nobody reporting nothing else? | 1 pass that may die, 2 transfers, 3 blocks of which a fresh install may pass over the first, 1 row retried per pass, under fairness |
| `login_codes` | what can overlapping requests do beyond requests in turn? | 2 addresses, 2 codes, 2 requests at once, 2 attempts, 2 redemptions per window, 2 windows |
| `access` | do list, accounts and sessions say the same, and is somebody left to administer? | the seeded administrator and another account, 2 addresses, open access on, 2 requests at once, `Apart`, each may stop half-way |
| `wallets` | does verified mean proved, and by one account? | 2 accounts, 1 address, 2 challenges, 2 requests at once |
| `payment_page` | does the page show what is, stop asking, and get a hash accepted? | 1 page, 2 transfers, amount 2, 1 poll answer on its way, 1 failed request, under fairness |

`Apart` is a state constraint in two runs. In `SettlementDesk`: no two workers are at
the same time between reading and writing one row, nor both between the daily sum and
the insert. In `AccessControl`: no two requests are about one address, and no two are the
system panel's. TLC checks the first state that breaks it and does not go on from there.
The code does not keep requests apart; what overlap breaks is listed below.
`Pairwise` in `watcher` and `desk_overlap` only makes the runs shorter: no more than two
of the passes, reports and requests are under way at once, any two. The theorems about
the same properties need nothing of the kind.

### Why the bounds are enough

* `MaxPaid = 3`: a payment, a release, a top-up and a second release fit, and
  with a 75 % or pinned fee every rounding case occurs (fee below, at and above
  floor and ceiling; fee swallowing the payment). That the shares add up for
  *every* amount is proved.
* Transfers of 2, 3, 4 against amount 3, fee 1: too little for either direction;
  enough for an export and short by the fee for an import; enough for both; and
  enough only together. Each invoice is independent of the others in
  every handler (all queries are by id or address), so one suffices.
* Two workers give every pairwise overlap of requests and passes; no handler of
  files reads more than once, so a further one adds a commit of the same kind.
  The safety properties of every run are proved for any number of workers, and so where a
  run has one worker, or workers `Apart`, the theorem asks less than the run does (section 5).
* `MaxFailures = 1` where crashes matter: failing twice is failing once with a
  different prefix. 0 where overlap already yields the same states: a pass that
  dies is a pass that takes no further step.
* `MaxReceipts = 2` lets a second rial payment happen, if it can.
  `MaxHeld = 1`, `MaxReleases = 1`: money arriving late, and a release beside it.
* Gross 4, fee 50 % with floor 1 shared by halves, a setting of 40 %: the
  settings' share of a fee differs from the contract's.
* Limit 4 with settlements of 4: one fits and a second does not.
* `Batch = 2`, `MaxRequests = 1` in `watcher`: a span of up to three blocks is two
  windows, one of which can be halved and one refused for good. One reorganisation moves
  or drops the transaction before, during and after its scan; a second does
  nothing new to a transaction that is already `moved`.
* `Batch = 1` and `MaxBlock = 3` in `watcher_credit`: a first pass at block 3 begins at
  block 2, so money in block 1 is behind it. Without the exemption for that
  `FundedIsCredited` is violated there.
* `Take = 1` in `watcher_credit` is fewer than the two rows that may wait: the older one is
  tried and counts the younger. Rows of other addresses, which can hide one, are
  exempt (section 6).
* One demo address stands for the four of the code: it goes to whichever panel is
  opened first, and the others adopt an account elsewhere or get none. Nothing in
  the code ties two of them together. Open access is on for the whole run; what
  happens before anybody uses it is what happens with it off.
* Two codes, two challenges: superseding needs an old and a new one. Three windows
  of the rate limit repeat what the second begins.
* One buyer's page: pages share only the row. A second transfer is the top-up or
  the payment from elsewhere. One answer on its way meets the page's own reload, not
  another poll; with `MaxAnswers = 2` polls overtake each other and nothing fails, but
  the run takes minutes longer. `ShownPaidIsPaidAlways` is for any number.
* What a run leaves to the proofs alone: `desk_overlap` has no refunds and one
  percentage, so that `BooksBalance` holds when a refund is split by other settings is
  `BooksBalanceAlways`; `desk_apart` has no deaths, and the theorems in turn allow them
  for everything but the figures of the ledger.
* Symmetry is used on workers, settlements, codes, challenges and accounts of runs without
  liveness, where no property or initial value names one.

### What each property says

**Contract.** `NothingStranded`: paid in = still there + the three shares, so no
dust. `QuotedSplitHonoured`: the first release is exactly the quoted split of
what arrived, though the owner set other terms meanwhile. `PursesMatchTerms`:
every wallet got the shares of addresses naming it, a wallet named twice both.
`QuotedAddressStable`: an address is never moved and a release empties it.

**Invoice.** `RialLegInOrder`: a rate before rial in, rial in before rial back,
imports only, and statuses backed by the record, even when written from a stale
read. `PaidIsBacked`: PAID stands on transfers at the invoice's own address that
cover it, the fee included on an import. `PayoutAfterBooks`: a payout only after
the booking, exports only, one. `DecisionsStayTrue` is what makes these hold
under stale reads and is mainly there for their proof (section 5).
`ClosedFileHoldsNoRial`: CANCELLED means rial that came in went back. `KeepsPromise`:
the handlers refine `InvoicePromise` under a mapping of statuses to phases and of the
rial columns to none/held/returned. `FundedIsDecided`: final money covering the invoice,
in parts or after expiry, ends with the invoice paid or already closed.
`AbandonedIsExpired`: an invoice that nothing came for expires, even after a sighting
that never became final.

**Desk.** `RialBacked`: rial is paid only for final crypto or a paid invoice.
`DecisionsHold`: what a job was decided on is still so when it is written, again
for the proof of the others.
`RialAgainstRate`: only at a locked rate to an account the merchant named.
`BooksBalance`: per trade, tokens held = merchant + gateway + free zone (and, on
imports, the seller), after any postings. `ReceiptOnce`, `EndsAreFinal`,
`WithinDailyLimit`: one rial payment, ends are ends, the day's sum. `BooksAgreeWithFiles`:
with nobody in the middle of something, the merchant is owed exactly the net
of the unsettled. `ReleaseClearsShares`: a release of exactly the booked deposit
leaves no fee outstanding, i.e. the ledger booked by the address's terms and
not by the settings of the day. `RialBacked`, `DecisionsHold`, `RialAgainstRate` and
`BooksBalance` hold whatever overlaps; the others need handlers `Apart`. Without it two
`settle` requests that both read CRYPTO_CONFIRMED record two receipts, a stale
`setPayoutAccount` reopens a rejection, two `submit`s pass the limit, and what is done
twice is booked twice.

**Watcher.** `NothingSkipped`: whatever passes overlap, are refused, move the
cursor back or die, a transaction behind the cursor that pays a watched address
has its row. `ConfirmedIsFinal`: a row says CONFIRMED only of a transaction in an
irreversible block, though passes and reports write figures read long before.
`PaidIsCovered`: a paid invoice stands on irreversible money at its own address that
covers it, or on one mined transfer there that does so alone and that somebody
reported. All three except transactions a reorganisation moved, which the code
does not look for again (section 6), and `NothingSkipped` blocks before the first that
a fresh install scans. `FundedIsCredited`: final money that covers an open invoice
comes to pay it, a death between a row and its match being made good by a later
pass. Except money before that first block, money at an address released meanwhile,
and rows behind as many confirmed ones of other addresses as a pass retries.

**Login.** `LiveCodesOverlapped`: two live codes of an address come from requests
that overlapped. `RedeemedOnceInTurn`: of redemptions in turn one succeeds.
`GuessesBounded`: overlapping guesses exceed the attempts by no more than there are
of them. `GuessesRateLimited`: a new code starts a new count, so across codes only
the rate limit bounds guessing, and it does.

**Access.** `OnlyTheListGrants`: whoever holds an operator's role had an address the
list held it for, whatever overlaps or stops, or is an account that open access made
in that role. `OperatorsListed`: between requests
that ran to their end, an operator who can act is on the list in that role, or has a
session that open access opened and nobody cut. Neither exception is ever an
administrator's, and neither exists where `AUTH_OPEN_ACCESS` is off.
`SomeoneAdministers`: and somebody may come in as an administrator. The last two
except accounts that changed their address (section 6). `OperatorsListed` needs
requests at different addresses: a verdict read before a removal opens a session after
it. `SomeoneAdministers` needs the panel's in turn as well: two administrators who
disable each other at once both succeed.

**Wallets.** `VerifiedIsProved`: a verified row stands on a spent challenge of its own
account and address. `ProvedOnceInTurn`, `OpenChallengesOverlapped`: one challenge,
one proof, but for overlap. `RivalsAskedBefore`: two accounts hold one address only
if each asked before the other was verified.

**Page.** `ShownPaidIsPaid`: "payment received" is never on a page without transfers
in blocks that cover the invoice, however late an answer. `PagesFollow`: a page left
open on an invoice that can no longer be paid comes to stop asking for money.
`ReportSettles`: a hash handed over once its transfer is mined settles the invoice
with no watcher running, even when `startPayment` is refused.

Type invariants are proved (section 5) and not run again, `FeeWithinCeilings` and
`UntouchedUntilReleased` of earlier runs are parts of the proofs.

## 4. Fairness

Fairness is used by `serial`, `desk_stuck`, `watcher_credit` and `payment_page` only.

* `InvoiceLifecycle`, `SettlementDesk`: `WF` on `Continue`: a request being served
  runs on unless it fails. `WF` on `SeeTransfer`, `SF` on `MatchInvoice`, `ExpireStale`
  and `Refresh`: `scripts/watch-chain.ts` starts a pass every interval for ever, a pass
  that throws is logged and the next starts, and each pass goes through every
  unmatched row, every maturing row and every stale invoice. Strong rather than
  weak because a handler in progress disables the step for a while each time.
  `MatchInvoice` is fair *per transfer*: `take: 100` in `retryUnmatchedDeposits` cannot
  hide one while fewer than a hundred rows wait. `SeeTransfer` is fair for every transfer,
  which the code is not for two kinds: those at an address released before the scan, and
  those mined before the first block that a fresh install scans (section 6).
  `FundedIsDecided` is to be read without them; `FundedIsCredited`, where the blocks
  are, excepts them by name.
* `WF` on `Finalize` in the desk: the chain makes what it keeps final. In
  `InvoiceLifecycle` no transfer is obliged to become final: the properties only
  speak of those that do.
* `DepositWatcher`: `WF` on `NewBlock` and `Finalize`, since the chain goes on; `WF` on
  `Scan`, `Revisit` and `Match` of each pass for the same loop; `SF` on `Refresh`,
  because a row whose count has not changed is skipped, and blocks that keep
  coming change it again and again; and a pass does not give up for ever
  (`<>[][~GiveUp]`): an endpoint that refuses a single block for good stops the
  cursor in the code, too. Deaths are bounded by `MaxFailures`.
* `PaymentPage`: `WF` on `Poll` (a timer), on the steps of `submitHash`, and on answers
  arriving. No watcher is made to run there.
* Nobody is made to act: no fairness on any request, payment, press or release.

## 5. Theorems

tlapm checks every proof to the last leaf, from the constants' assumptions
(`BasisPointsAssumption` and each module's `ConstantsAssumption`), for any number
of invoices, workers, transfers, accounts, amounts and settings. No theorem needs
a bound.

* `Amounts_proofs`. `SplitConserves`: the shares are naturals and add up to
  the payment. `ImportPaidOnceIsExact`: an import paid in one transfer of sum plus pinned
  fee gives the seller the sum. `FeeMonotone`: more paid, never less fee. The rest of
  the module is about the sums of the models (`PursesMatchTerms`, `GuessesRateLimited`,
  the daily limit): the library's `SumFunctionOnSet` folds in an order nobody knows,
  and that the order does not matter is an induction over the set. An induction scheme
  is beyond the provers, the argument is not: each lemma takes a smallest
  subset for which it fails (`SmallestSubset`) and finds a smaller one.
* `Payment_proofs`, the contract. `TypeCorrect`; then `NothingStrandedAlways` and
  `QuotedSplitHonouredAlways` from the inductive `Amounts`. `QuotedSplitHonoured`
  speaks of one release only and is not inductive: the invariant adds that with
  no release nothing left (`UntouchedUntilReleased`, so the first split is of
  everything that came) and that an address released was quoted
  (`ReleasedWasQuoted`, so no quote is written after it). `QuotedAddressStableAlways` is
  an action property from the same invariant. `PursesMatchTermsAlways`: a release adds
  to each purse what it adds to the sum over addresses (`SumChanges`), a wallet that is
  named twice getting both shares.
* `Payment_proofs`, the buyer's page. `ShownPaidIsPaidAlways`, for any number of pages and
  transfers. What a page shows is a copy, an answer a copy on its way, and the row itself is
  written from what a handler or a pass saw of the chain. `PageInv` says of all of them the
  same: whoever says PAID (`PaidIsSaid`: the row, an answer, a page) says so of an invoice
  that transfers in blocks cover (`Covered`), and rows stand for mined transfers
  (`RowsAreMined`). Blocks are not taken back in this model (`DepositWatcher` has the
  reorganisations): once covered, always covered, so a copy may be as old as it likes.
* `InvoiceLifecycle_proofs`. The inductive invariant is
  `TypeOK /\ DecisionsStayTrue /\ RialLegInOrder /\ PaidIsBacked /\ PayoutAfterBooks`.
  The last three are about rows, but a `Commit` writes what a job decided long
  before; `DecisionsStayTrue` says a job's reasons still hold. They do because
  everything it relies on only grows: a rate once locked, rial once in, a transfer
  once mined (`MinedGrows`). One lemma per group of actions.
  Under `[]OneAtATime`: `ClosedFileHoldsNoRialInTurn`, and the refinement
  `PromiseKeptInTurn`, from `GuardsStand` (a job about to be written was decided from the
  row as it still is), `RialByStatus` (what each status says of the rial) and
  `PaidOnceShown`; each write is then one of the moves of `InvoicePromise`.
* `SettlementDesk_proofs`. The invariant is
  `TypeOK /\ DecisionsHold /\ RialAgainstRate /\ RialBacked /\ BooksBalance`. Same
  argument for jobs (`FileStays`, `JobStays`: prices, accounts, payments and final
  transfers are never taken back). `BooksBalance` follows from a lemma per ledger
  group: each group of entries is balanced by itself, whatever the amounts,
  terms and percentage, and `PlusAddsUp`; so it survives lost, repeated and
  reordered postings.
  Under `[]RowsApart`, `FilesInTurn` ties receipts and funding to the status of each file and a
  job about to be written to the status it still has: `ReceiptOnceInTurn` and
  `EndsAreFinalInTurn`, and with `[]SubmitsApart` `WithinDailyLimitInTurn`, workers dying or
  not. Another worker's write is of another row and leaves all of it alone. What a worker
  that dies leaves unbooked nobody books, so the figures of the ledger are proved
  `failures = 0 => ...`: `BooksInTurn` says that what has happened is in the ledger
  or being booked by one worker, never both (`LedgerInTurn`), and then what the groups posted
  make each account (`FileBooks`, `AddressBooks`). At rest the two
  are `BooksAgreeInTurn` and `ReleaseClearsInTurn`; the second needs
  that the split the payout makes is the very split that was booked.
* `DepositWatcher_proofs`. The invariant is
  `TypeOK /\ FinalityLag /\ RowsHold /\ PassesHold /\ ReportsHold /\ PaidHolds`. A pass
  writes from figures that may be old. `PassesHold` and `ReportsHold` say what is
  still true of them: the irreversible block it read is not above today's, a
  transfer it fetched is where it was or was moved by a reorganisation, a
  transaction due for matching is settled and has its row. `FinalityLag` is why the
  count back from the head is a right answer. `Advances` (finality never recedes, no
  row is lost, `moved` remembers) carries all of it over every other actor's step,
  so each action has one lemma about its own pass. `PaidHolds` has the two ways to PAID
  apart: the money at the address is irreversible and enough (`CountedIsFinal` turns the
  confirmed rows a match counts into such money, and `FinalMoneyOn` keeps it), or the hash
  reported for the invoice vouches for it (`Voucher`: mined, to this address, enough alone),
  which `ReportHolds` says of a report from the receipt on. `PaidIsCoveredAlways` follows.
  `NothingSkippedAlways` adds `Placed`, `BookmarkHolds` and `ScansHold`: a transfer
  that has no row yet lies beyond the cursor, and up to where a pass will put the cursor
  it is in a window still to be asked for or among the logs in hand, whatever windows
  the span was cut into and however they were halved.
* `LoginCodes_proofs`, `WalletOwnership_proofs`. What a property says of two records must be
  known already of the request that will write the second: e.g. a request that
  superseded has in `seen` every live code its own slot wrote, and a code read to be
  redeemed has not been redeemed by that slot. `GuessesBounded` counts requests under way, by
  lemmas about the cardinality of a set that gains or loses one member.
  `RivalsAskedBefore` needs the order of `asked` and `since` for challenges and jobs as well.
  `GuessesRateLimitedAlways` counts with each wrong guess recorded the requests already
  admitted to make one (`Metered`): together they are what the buckets let through.
* `AccessControl_proofs`. `OnlyTheListGrants` with the roles that requests carry: a job on its
  way to give a staff role has its address in `listed` already, an account's
  address is in `held`, and nobody is on the way in by open access unless it is on, nor
  ever as an administrator (`JobsOpen`). `OpenAccess` is a constant of either value: with
  FALSE the exceptions for it (`Made`, `Guest`) are empty and the theorems are about the
  list alone, with TRUE a panel's link may be used or not at any time.
  Under `[]AddressesApart`, `ApartInv` says step by step what each request under way has
  still to bring into line, and that what it has read is still so:
  `OperatorsListedInTurn`. Each action is proved against what its own request sees
  (`Turn` before, `Fits` after, which leaves out the accounts that others still settle);
  `Reaches` and `OthersWait` say that it touches nothing the others read, and `AddsUp`
  puts the views together. With `[]PanelInTurn`, beside the keys that requests are about
  to take away there is another (`KeyInside`): `SomeoneAdministersInTurn`. Both speak of
  requests that ran to their end, as the properties do.

Theorems named `...InTurn` of files, desk and access have a hypothesis about the whole
behaviour, since these properties are false without one (section 3). It is no more than
that two workers do not meet:

| hypothesis | says | leaves free |
|---|---|---|
| `OneAtATime` | no two workers are between the read and the write of one invoice | other invoices, bookings, payouts, the chain, deaths |
| `RowsApart` | the same of one file, refund or address | other files, every ledger posting |
| `SubmitsApart` | no two `submit`s are between the daily sum and the insert | everything else |
| `AddressesApart` | no two requests are about one address | requests at other addresses, ends of sessions |
| `PanelInTurn` | one request of the system panel at a time | sign-ins, registrations, renamings |

A single worker satisfies all of them (`OneWorkerIsApart`, `OneSlotIsApart`); a lock per row
would give the first two. The code enforces none; nothing else is bounded or assumed.

Every safety property a run checks is proved. Only model-checked: liveness, which under
fairness is beyond the prover.

## 6. Discrepancies between the code and what it says

One is a run with an expected violation, `desk_stuck`: the watcher is to promote
settlements whose transfer matures; if the scan confirms the row first,
`refreshConfirmations` never sees it and the settlement stays CRYPTO_RECEIVED.

The others were met while modelling. Where a model covers them it lets them
happen and no property claims otherwise.

Money and files:

* *The pinned fee.* `gateway.ts:39-43` pins an import's fee so that the seller
  receives the contract sum "to the last unit"; the contract takes the pinned
  fee at *every* release, so an import paid in parts with a release in between pays it twice.
* *Cancelled over rial.* Schema and route say CANCELLING cannot be skipped while rial is
  held; `cancel` decides from a stale status and can close the file over a rial
  deposit recorded meanwhile.
* *Booked twice.* `ledger.ts:59` says `alreadyPosted` prevents doubling; it is a read
  before an insert with no unique key, so payer and watcher can both post.
* *Both sides paid.* A refund is refused once the rial is paid, but only at the time of
  the request (`refunds/route.ts:100`, `phase3.test.ts:175`). Requested before and sent
  after, both are paid.
* *Last writer wins.* An approval read before a rejection is written over it,
  against `transition/route.ts:64-68`; in settlements `setPayoutAccount` does the
  same (`settlements/…/route.ts:76`, against `statusEvents.ts:41-43`).
  `requestCancel` writes back the status it read although its comment
  (`344-348`) says it is "Deliberately not a status change".
* *Expire with rial held.* `transition/route.ts:329` lets an admin expire an import
  in PAYMENT_PENDING, whose rial the bank holds; `watcher.ts:244-247` says why
  the sweep must not. `InvoicePromise` therefore lets a file lapse with rial held.
* *Booked before final.* `confirmPayment` posts from a transfer that is mined
  and not final; `schema.prisma:467-470` says `receivedAmount` is "Only ever
  written from finalised transfers". `PaidIsBacked` and, where somebody reported the
  hash, `PaidIsCovered` therefore ask for a mined one. It also
  sets the amount to that one transfer's, forgetting parts that came before.
* *Paid and never booked.* A process that stops between the PAID commit and the
  posting leaves the payment unbooked: PAID is closed to the watcher.
* *Two refunds.* Two overlapping requests both find none open (`refunds/route.ts:96`).
* *Fee shares of a refund.* `refunds.ts:129` splits the fee by today's settings
  while `postings.ts:28-32` booked it by the address's terms.
* *DEPOSIT_HELD below zero.* A refund and a release of the same deposit each take it off.
* *Later releases.* `sweptAt` refuses a second release of an address, which
  therefore is never booked (`deposits/route.ts:144`). The page that reports a
  release gives up after twenty tries of three seconds, with no way to report later.

Watcher:

* *A dropped transaction is confirmed.* `refreshConfirmations` (`watcher.ts:556`) promotes a
  row by the block it stored, without asking whether the transaction is still there.
* *Counting after a failed call.* `env.ts` says the confirmation count is "only consulted"
  when it is chosen; `irreversibleBlock` counts whenever the node did not answer, so on
  a chain whose finality lags further than the count, one failed call confirms early.
* *One row per hash.* `ChainTx` is keyed by hash: of two transfers in one transaction the
  first is kept and the other never recorded. `FundedIsCredited` is checked with one each.
* *A starved queue.* The retry reads the hundred oldest unmatched rows; a hundred that
  never match hide every younger one. `FundedIsCredited` excepts it (`CrowdedOut`).
* *A fresh install.* Without a cursor the scan begins a batch below the head
  (`watcher.ts:48-53`), and what was paid before that is never scanned: it is credited
  only if somebody reports the hash. `NothingSkipped` (`origin`) and `FundedIsCredited`
  (`Scannable`) except it.
* *A wider span.* A pass covers `MaxRequests` windows and a part of another, and halving adds
  requests: `env.ts:72` calls the setting an upper bound.
* *Released too early.* A transfer mined before its address was released and scanned after
  is not watched for any more; `NothingSkipped` speaks of addresses not released.
* *Not re-counted.* `watcher.ts:464-466` says a missed note is "re-counted by the next
  sighting"; a transfer already recorded is not sighted again. A note may also set
  `pendingAmount` on an invoice already PAID, which `serialize.ts:84` shows.
* *Watched addresses.* `watch-chain.ts:22-26` says invoices are "always quoted a bank receive
  wallet" and subscribes to those; they are quoted addresses of their own, whose deposits
  wait for the interval.

Signing in, access, wallets:

* *Two live codes.* `otp.ts:33-35` says a user can never have two; overlapping requests can.
* *One address, two accounts.* `ownership.ts:71-72` says that would make verified
  meaningless; A asks, B asks, A verifies, B verifies.
* *Changing the address.* A profile's new address leaves its list entry behind: the
  operator keeps the role unlisted, is refused at the next sign-in, and if it was the
  only administrator nobody can come in.
* *Removal in several writes.* A verdict read before a removal opens a session after it;
  a stop between the list entry and the sessions leaves the sessions usable.
* *Open access.* A panel's link asks neither the list nor `disabledAt`: it adopts an
  operator's account although its entry was removed, and the demo account even though it
  was disabled. `env.ts:105-108` says that the flag makes the deployment public, so this
  is meant; `OnlyTheListGrants` and `OperatorsListed` except it.
* *Locked out.* Two administrators who disable each other at once both succeed.
* *A window restarts with the process*: the rate limit is kept in memory.

Pages:

* *A form for a rejected invoice.* `Checkout.tsx:22-24` says the endpoint "refuses to say
  anything about an invoice that is not payable"; it tells PENDING and REJECTED ones
  like any other, and the page shows the payment form for them.
* *Pay the rest, which is on its way.* What is outstanding ignores `pendingAmount`, while the
  page says "Nothing more to do — this settles on its own"; it ignores an import's fee, too.
* *Reported once.* The hash is reported right after broadcast, when it is rarely in a
  block, and not again, though the notice says it will confirm.
* *Expired is the end.* An EXPIRED page stops polling, so a late payment that is credited
  is not shown.
* *Older answers win.* A late answer turns "paid" back into the form until the next poll. The
  panels' stores apply answers in the order they arrive; their pings reach other tabs
  of one browser only, and a lost answer pings nobody. The review dialog decides on
  the copy it opened with. The server checks each of these again.
* *A countdown that may not.* The merchant's payment screen calls `expire` when time runs
  out, which only an administrator may.

## 7. Not modelled

KYC decisions and the rest of the profile (single-row updates nothing else
depends on: no handler asks for a KYC status before raising an invoice);
reference counters; rate lookup and tolerance, money formatting and parsing
(stateless); password hashing; receipt decoding and mail delivery (I/O);
notifications, audit and status events (append-only, never read back by a flow);
reports and transaction lists (read-only); the four panels and their stores;
deployment, demo media, tools and tests. Each is a component with its reason in
`PROJECT.json`.

What decides anything about money, files or permissions is on the server, under
`lib/server`, `app/api` and `contracts`, and nearly all of that is modelled. More
than two thirds of the repository's lines are the rest: panel pages and
components that lay rows out, the scripts that render the documentation's films,
seed and type files, and tests. They keep no state beyond a copy, so the share of
the repository's lines the models stand for stays well below a third however
completely the rest is modelled.

## 8. Plan

Done, in order of importance: 1. `FeeSplit`, `AfaGateway`: where the money is.
2. `InvoiceLifecycle` against `InvoicePromise`. 3. `SettlementDesk`.
4. `DepositWatcher`. 5. `LoginCodes`, `AccessControl`, `WalletOwnership`.
6. `PaymentPage`. 7. The safety theorems of all but the last. 8. `NothingSkipped`.
9. The refinement `KeepsPromise` and the other properties of handlers in turn.
10. Sums over sets, and with them the purses, the guesses and the daily limit.
11. `ShownPaidIsPaid` for the page. 12. How far apart two workers must be for the properties
that overlap breaks: not in turn, only not at one row.

Next:

13. The panels' stores as copies that follow the rows, on the pattern of `PaymentPage`.
