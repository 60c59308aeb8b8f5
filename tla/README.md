# Nokturn: a verification project

Nokturn settles signed intents on tokenized equities in batches. Owners sign an
intent off chain; a coordinator collects intents into batches; solvers compete
on chain to clear a batch; a settlement contract pulls, nets, routes and
delivers; two call auctions a day open and close the market; an indexer reads
back what happened. This project models the parts of that system that hold
state, checks them with TLC on small instances, and proves the most important
results with TLAPS for every instance.

Contents: [inventory](#inventory), [modules](#modules-and-the-code),
[runs](#runs), [bounds](#bounds-and-why-they-are-enough),
[fairness](#fairness), [proofs](#proofs),
[disagreements](#disagreements-between-documents-and-code),
[not modelled](#not-modelled), [plan](#plan).

## Inventory

Paths are relative to the repository.

| Component | State it keeps | Operations that change it | What makes it correct |
|---|---|---|---|
| `Settlement.sol` (with `Guarded.sol`) | `best`, `finalized`, `solutionsSubmitted` per batch; allowlists, exposure caps, the day's exposure; `pausedUntil` | `submitSolution`, `finalize` (collect, unwind or route, deliver, pay fees), `expireBatch`, `pause`, the governor's setters | an owner loses nothing that was not exchanged as signed; the contract holds nothing between calls; a batch ends once and is scored once |
| `SolverRegistry.sol` | bond, exit time, scoreboard per solver; the minimum bond; the token balance | `bond`, `requestUnbond`, `withdrawBond`, `slash`, `reportFailedFinalize`, `recordWin`, `setMinBond` | the contract holds what it owes; a winner's bond outlives its duty |
| `ClearingVerifier.sol`, `ClearingMath.sol` | none | `verify` | only solutions at one price, inside the band, conserving tokens and no worse than the baseline pass |
| `AuctionHouse.sol` (with `Guarded.sol`) | auctions, books, commitments with escrow, closing prints | `openAuction`, `commitAuctionIntent`, `cancelBeforeFreeze`, `freeze`, `extend`, `submitCross`, `challenge`, `executeCross`, `abortAuction`, `refundEscrow`, `pause`, `setAuctionTokenAllowed` | escrow is returned or exchanged at the cleared price; bonds and escrows never mix; prints are never altered |
| `SessionManager.sol`, `CivilDate.sol` | calendar entries, DST boundaries, protective mode | setters, `reportHealthy` | sessions cover time without gaps; transitions agree with sessions |
| `PriceOracle.sol` | feeds, opening references | `setFeed`, `finalizeOpenReference` | a stale or diverging price is not reported as healthy |
| `AgentMandate.sol`, `MandateAccount.sol` | mandates, spending per day | `createMandate`, `revokeMandate`, `authorize`, `releaseUnspent` | an agent never spends over its daily limit |
| Coordinator (`api/src/mempool.ts`, `routes/intents.ts`, `revalidate.ts`) | `byBatch`, `byHash`, `byOwnerNonce`, `frozenFeeds`, all in memory | `POST /v1/intents`, status lookups, the solver feed, `sweep`, `withdraw` | maps agree; a nonce is held while its signature lives; balances are not promised twice; every solver sees one feed |
| Coordinator lifecycle and announcer (`api/src/lifecycle.ts`, `announce.ts`) | the open batch, tracked batches, what was told of session, protection and oracle, the log cursor, receipts awaited | `poll`, `tick`, `closeDue`, `afterClose`, `step` | batches are heard in order; every batch's end is told once; no range of logs is skipped |
| Solver service (`solver/src/run.ts`, `send.ts`, `finalize.ts`, `recover.ts`, `store.ts`) | one JSON file per batch, tasks in flight | `processBatch`, `submit`, `finalizeWon`, `recover` | a batch is submitted once; a won batch is finalized in time in spite of crashes and lost replies |
| Solver clearing (`solver/src/clearing.ts`, `solve.ts`, `math.ts`) | none | `clear`, `allocate`, `tryNetted`, `tryRouted` | what it plans the contract verifies; the price executes the most volume |
| Venue quote (`solver/src/v3math.ts`, `v3pool.ts`) | none | `quoteExactIn` | it is the pool's answer, rounded against the trader |
| Auction keeper and planner (`solver/src/keeper.ts`, `cross.ts`) | what was refused | `tick`, `planCross` | every auction is driven to an end; a planned cross passes `_applyCross` |
| Batch search (`packages/shared/batch.ts`, `openWindow`, the reader of `api/src/chain.ts`) | remembered transitions | `nextValidBatchId`, `solvableBatchId`, `openWindow` | it offers the batches the contract accepts, none other |
| Indexer (`indexer/src/ingest.ts`, `store.ts`, `index.ts`, `reconcile.ts`) | checkpoint, stored block hashes, projected rows, baselines | `step`, `rewind`, `commit`, `recordBaselines` | rows are those of the canonical chain, each log once; it catches up |
| Receipts and pages (`indexer/src/receipt.ts`, `api/src/routes/batches.ts`, `app/src/lib/batches.ts`) | none | the receipt, the scan, the list | the figures add up and name the winner |
| Order path (`TradeWidget.tsx`, `CommitCard.tsx`, `wallet-guard.ts`, `lib/intent.ts`, `routes/nonces.ts`, the checks of `POST /v1/intents`) | the cards' flags and reads; the pool; Permit2's nonces | `approve`, `sign`, `commit` | what is admitted can be collected; cards, coordinator and contracts agree; buttons come back |
| Trading tab (`app/src/components/trade`, `IntentsProvider.tsx`, both halves of the stream) | the form, sent intents, sockets | quote, refresh, reconnect | what is shown is what was asked; the stream comes back |
| Rust verifier, analytics, web pages, infra | derived figures | none of the protocol's state | out of scope |

How they interact:

- Owner → coordinator: a signed intent over HTTP. The coordinator reads
  balances, allowances, nonces and winners from the chain between awaits, and
  holds the intent in memory. Solvers read the frozen feed of a closed batch.
- Solver → `Settlement.submitSolution`, later `finalize`. `Settlement` calls
  `ClearingVerifier.verify` (pure), `SessionManager` (batch window, band),
  `PriceOracle` (prices), the venue adapter (baseline and swaps), Permit2 (to
  pull with the owner's signature) and `SolverRegistry` (activity, wins, failed
  finalizes).
- `AuctionHouse` shares registry, oracle, calendar and Permit2 with
  `Settlement` and keeps a bond per cross of its own. `executeCross` credits its
  winner on the scoreboard that `finalize` writes (`recordWin`).
- The coordinator's lifecycle polls the chain, derives the batches and tells
  listeners over a stream; the solver starts a task at each `collect_closed`
  frame and the tab refreshes at each frame.
- Keeper and indexer only read the chain and call public functions; receipts
  are built from the indexer's tables, with quotes it stored while the state was
  there.

What is hard in this system: an owner can change balance, allowance or nonce at
any moment between a signature, an admission, a win and a finalize; the same
balance can lie under several intents, batches or auctions; deadlines of two
contracts have to fit together; several public functions race to end the same
batch or auction; the coordinator's checks span awaits while the chain moves;
rounding happens in several places on one amount. The hazards are listed with
their lines in `PROJECT.json`.

## Modules and the code

| Module | Models | Composes |
|---|---|---|
| `ClearingMath` | `libraries/ClearingMath.sol` | |
| `ClearingVerifier` | `ClearingVerifier.sol`, as predicates on a solution | `ClearingMath` |
| `SolverRegistry` | `SolverRegistry.sol`; one function per field of `Solver` | |
| `Settlement` | `Settlement.sol`, `Guarded.sol` and the world around them | `SolverRegistry`, `ClearingVerifier` |
| `BatchLifecycle` | what a batch promises, abstractly | refined by `Settlement` |
| `Lists` | `inOrder`: what a filter leaves of a list | |
| `SharedLemmas` | lemmas: sums over finite sets, filtered lists, quotients | `Lists` |
| `SettlementProofs` | theorems: types, bonds, the refinement, the accounts of the core | `Settlement`, `SharedLemmas` |
| `AuctionBook` | the book functions of `AuctionHouse.sol` | `ClearingMath` |
| `AuctionHouse` | `AuctionHouse.sol`, `Guarded.sol` and the world around them | `AuctionBook` |
| `AuctionProofs` | theorems: books, crosses, limits, prints | `AuctionHouse`, `SharedLemmas` |
| `AuctionAccounts` | theorems: what the house, its customers and its owners hold | `AuctionProofs` |
| `Coordinator` | `mempool.ts`, `routes/intents.ts`, `revalidate.ts` and the chain they read | |
| `CoordinatorProofs` | theorems: the mempool's maps, its feeds, what its owners have promised | `Coordinator`, `SharedLemmas` |
| `SolverService` | `run.ts`, `send.ts`, `finalize.ts`, `recover.ts`, `store.ts` and the chain they act on | |
| `Keeper` | `keeper.ts` and the times and phases of an auction | |
| `Lifecycle` | `lifecycle.ts`, `announce.ts` and the logs they read | `Lists` |
| `CrossPlanner` | `cross.ts` | `AuctionBook` |
| `SolverClearing` | `clearing.ts`, `solve.ts`, `math.ts` | `ClearingVerifier` |
| `VenueQuote` | `v3math.ts`, the reads of `v3pool.ts` | |
| `BatchClock` | `SessionManager.sol`, `CivilDate.sol`, `batch.ts`, `openWindow` | |
| `Indexer` | `ingest.ts`, `store.ts`, `project.ts`, `baseline.ts`, `index.ts`, `reconcile.ts` | `Lists` |
| `Receipt` | `receipt.ts`, the list of batches, the app's scan | |
| `OrderPath` | `TradeWidget.tsx`, `CommitCard.tsx`, `wallet-guard.ts`, `lib/intent.ts`, `routes/nonces.ts`, the front door of `routes/intents.ts`, `usable` in `run.ts`, and what Permit2 takes | |
| `AgentMandate` | `AgentMandate.sol`, the signature check of `MandateAccount.sol` | |
| `Preflight` | `simulate.ts`, `math.ts`, and `_chargeExposure` and `_settleFees` of `Settlement.sol` | `ClearingMath` |
| `Faucet` | `routes/faucet.ts`: windows, queue, transfers | `Lists` |
| `OpenReference` | `finalizeOpenReference` of `PriceOracle.sol`, `_reference` of `AuctionHouse.sol`, `reference` of `keeper.ts` | `BatchClock` |
| `TabView` | the quote of the trade card, the list of sent intents, the stream's two ends | |
| `ServicesProofs` | theorems: the solver's file and the announcements | `SolverService`, `Lifecycle`, `SharedLemmas` |
| `PlansAndViewsProofs` | theorems: the mandates, the quote on the card, the faucet, preflight, receipts, the indexer's tables | `AgentMandate`, `TabView`, `Faucet`, `Preflight`, `Receipt`, `Indexer`, `SharedLemmas` |
| `ClearingProofs` | theorems: the solver's plan and its quote, the keeper's cross | `SolverClearing`, `VenueQuote`, `CrossPlanner`, `SharedLemmas` |
| `MCServices` | those who act: `SolverService`, `Keeper`, `Lifecycle`, `OrderPath` | all four |
| `MCPlansAndViews` | plans and views: all the others from `CrossPlanner` on | all of them |
| other `MC*` | instances for TLC | |

**Settlement and SolverRegistry.** A transaction is atomic, so an action is one
call that does not revert; a reverting call changes nothing and is not a step.
A valid `submitSolution` that is outbid changes nothing but still counts against
the solver's quota. `finalize` has two outcomes, two actions:
`finalizeUnwind` when some leg cannot be collected (the legs before it are
taken, their nonces burned, and refunded to the owners), and `finalizeSettle`
for the whole of collect, route, deliver, fee and scoring. Exposure is charged
in `finalize` with the code's two counters: one per token keyed by the day, and
a global one that restarts with the day. Nothing refuses a solution whose array of
tokens names one twice: `repeats` holds the further places with their prices. Each is
checked against the band, charged once more on the token's counter (`chargedFor`, the
global counter is charged once), counted once more in the fee, and paid out once more, which
reverts unless the contract has it. The outside world is explicit: owners
move funds, revoke Permit2 or burn nonces; the pool's spread changes or the
adapter stops quoting; prices become unhealthy; the calendar changes its answer
for a batch; the issuer changes a token's multiplier; the governor changes
allowlists, caps and the minimum bond or slashes; the guardian pauses; solvers
bond and exit; an auction reports its winner to the same registry (`AuctionStep`).
`outcome`, `fills`, `movedOut` and `auctionWins` are history variables.
Solutions are members of a finite set that contains wrong ones; indices, packed
layout and array lengths are replaced by records, and a signature by a flag.

**AuctionHouse.** The same reading of transactions. Auctions are named in
advance; `books` keeps the order of commitments because the freeze pulls in
that order and drops what it cannot take. A cross is any list of executions the
solver may send, checked by `_applyCross` against volume, limits, collar and
conservation, and rolled back by a challenge. Prices are already scaled to the
quote's units. The oracle's, the registry's and the calendar's answers are
variables that change by themselves.

**Coordinator.** The process is single threaded, so an action is the stretch
between two awaits. An admission (`posts`) passes through facts, the prior
claims, the window, the last stamp and the admission; each of its chain reads
sees the chain as it is at that step, the last stamp may arrive late, and any
read may fail. A screening (`lookups`, the build of a frozen feed) takes its
facts at one block and applies them later. `sweep` runs wherever the code calls
it. Abstractions: one sell token; `covered` is the smaller of balance and
allowance; one word of the nonce bitmap per owner; the first stamp of a request
and its facts are read at one moment; the stamps of lookups and feeds are fresh
when processed; a build in progress when its batch is swept is dropped; the
calendar's windows are fixed. `accepted` is history.

**SolverService.** Each batch is a task and each `await` a state of it
(`task[b]`). Between two awaits the chain moves, a rival takes or loses the lead,
somebody else finalizes or expires the batch, a read fails, the wall clock
backstop fires, a signal stops the process or it dies. `record` is the file on
disk: it survives, everything in `memory` does not. A send whose reply is lost may
or may not have reached the chain.

**Keeper.** `look` reads the phase and lists the calls it wants; `act` tries the
next one as a dry run, and `sendAndWait` sends it: other callers, a challenge, a
multiplier change, a failing node or a restart come between. The chain's side
is the guards of `AuctionHouse` that do not look at the book. What the process knows
(`refusedCalls`, `released`, `publishedAt`) is gone when it ends; one started again takes up
where the chain is, whoever opened the auction. A plan needs reads of its own, which fail
while the book or the reference cannot be read (`"reads"`). A second of the model is an
extension period, and passes under a running keeper only after it has looked: the keeper
polls every block. `downLate` is history: past the auction's deadline the process ended or
was missing.

**Lifecycle.** Polls and ticks overlap as in the code: a poll notes a head and
closes what is due at once, a tick runs its reads one after the other and any of them may hang
(`current`), fail or see a reverted chain; the announcer runs beside them.
`frames`, `toldTopics`, `toldOutcomes` are what a listener has heard. The first reading of a
topic is announced by nobody. A price whose read reverts (`NoAnswer`) is forgotten, and of
prices only the turn from `Healthy` to `Unhealthy` is told: a token that goes from healthy
over no answer to unhealthy is told of to nobody. `turnedFrom` is history, the reading held
before the present one. The frame of an unhealthy price takes a read, which may fail
when the frame of another token is already out: it is sent again (`frameFailed`).

**CrossPlanner, SolverClearing, VenueQuote.** Pure code, one action from a job to
its outcome, where a job is any member of a finite set. The binary searches are
recursive functions with the code's bounds and midpoints, and what they find is compared
with a search of everything; what a plan builds is put to the model of the
contract that has to accept it (`AuctionBook`, `ClearingVerifier`). For a cross that is
`applyCross`, apart from the planner's own `checkCross`: the contract takes at most
`MAX_CROSS_EXECUTIONS` executions and reverts on any seller of the book whose deviation is above
the whole (`limitsReturn`). The planner looks at neither, and nothing checks the deviation at the
commitment, so `PlanAlwaysBuilds` says that the contract takes a plan exactly
when those two hold (`ContractReads`). The
widths and scales of the libraries are constants, so that wrapping and rounding
are met on small numbers.

**BatchClock.** The contract's calendar, the windows derived from it and the
TypeScript that mirrors them, over days of 60 seconds with clock changes,
holidays and early closes. `spans` is what the reader remembers of transitions;
a behaviour asks several seconds in any order, so that memory is used out of
order.

**Indexer.** A chain that is extended and rewritten under an indexer whose step is
several reads and one transaction. `store` is the database: checkpoint, hashes,
logs, the tables a log becomes, the stored quotes. A batch ends by settling, by
passing through below the threshold or because its winner cannot be collected, or by
expiring; the row of each carries its reason (`reasonOf`), and the winning solution comes from
the calldata of whichever `finalize` closed it (`closingLog`), an unwinding one too. The
reconciliation is four of its checks: outcome, solver, best, and the row that is
missing. A range the node refuses to serve ends the process, as a crash does. Reads fail, the process dies
between any two steps, the checkpoint's own block disappears. Hashes are numbers
never used twice. `Reorg` may throw away any blocks above the deployment while no
step is in the middle of its reads. Inside one it leaves what the step
already relies on and has no way to look at again: after the check of the checkpoint, the
checkpoint; after the logs were read, the end of the range, or else a log above the
cut, whose hash gives the rewrite away. Confirmations are there for that, and on a fork
nobody reverts during a step. Without it the code is not right: a range without
logs, rewritten before its last block is read, is committed without the
logs the new blocks have.

**Receipt.** A job is the life of one batch on the chain; the receipt is what the
code makes of the rows, against what the chain did. The hash of a submission is that of
the solution sent, and does not name its sender: one sent twice, by one solver or two, has two rows
with one hash, the second of which the contract rejected. A receipt shows every copy of
the winning solution as accepted. `pages` follows the list while it
grows.

**OrderPath.** One owner and the presses of three buttons. A press (`tries`) is a
state machine with one action per stretch between two awaits: the wallet guard,
the two questions to the coordinator in either order, the signature in one of the
forms wallets return, the request, its reply or none, the dry run, the send,
the receipt. Between them the clock moves, the wallet's endpoint changes, the
owner spends, revokes, burns a nonce or delegates the account, another press is
on its way. The coordinator answers a request at one moment (its own interleavings
are in `Coordinator`), the solver takes any subset of what it may use, and
`finalizeBatch` and `freezeBook` take what Permit2 takes. `promises`, `failed`
and `refusals` are history. One sell token, and a signature is its form: what
it covers is the intent it travels with.

**TabView.** Three parts that do not meet: quotes whose answers come in any order,
rows refreshed by overlapping requests over reloads and restarts, and the
stream's places, pings, cuts and reconnects. A cut is noticed by both ends, by one or by
none. A tab that does not notice (`"deaf"`) sends nothing that could fail, and only the browser
may tell it; `WatcherReturns` asks nothing of it until it does.

**Preflight.** The same arithmetic twice: what the solver asks before it submits
and what the contract makes of it at finalize. A plan that passes is taken for
won; then the day, the caps, the charges of other batches and the pool
change. `reverts` records what had changed when a finalize failed.

**AgentMandate.** An agent signs any of a set of intents, several with one nonce;
anybody authorizes and releases them, and Permit2 takes an authorized one at any
moment of its validity. A digest is its intent. `drawn` is history: what was taken, with
the booking it was taken under. An intent that ends with its mandate is good
until the second before (`AuthorizedStaysGood`): `_checkRules` lets it end at the
expiry, at which `accountAuthorized` says no.

**Faucet.** Requests pass two windows and wait in one queue. A task reads the balances
of the account and then the faucet's own, counts the nonces with those still in the pool, sends a transfer per missing
asset and waits for the receipts; any of these may throw, and what was sent is
mined all the same, or reverts and uses up its nonce. Windows and queue are in memory: a
restart (`FaucetRestarts`) forgets both and whoever was waiting, so that the limits are
those of a process (`WindowsBound`). `gaveUp` is history: accounts whose request ended with a
transfer still out, the only ones the faucet may send to twice (`ToppedUpOnce`
excepts them: the next request reads the balance without it).

**OpenReference.** Rounds of the feed keep coming; anybody settles the day once the
window is over, by the code's walk back from the latest round, of bounded length.
The auction takes the settled reference, or the last answer when there is none
yet, at the first call that needs one, and keeps it. `reach` is history: how many
rounds there were when the day was settled, and whether that was too late for the auction.

## Runs

| Run | Instance | Shows |
|---|---|---|
| `settlement_batches` | two overlapping batches, one solver, two owners, seven solutions per batch | funds, scores and exposure stay right while owners, the market or the governor interfere: `OwnersWhole`, `CustodyEmpty`, `SettledAsSigned`, `ScoresMatchOutcomes`, `DayAccountsAgree`, `TypeOK` |
| `settlement_race` | one batch, two solvers, exits, pauses and multiplier changes | the lead, the deadline and the exit: `ImplementsLifecycle`, `BondOutlivesDuty`, `RegistrySolvent` |
| `settlement_paused` (violation) | one batch and the guardian | `ExpiredWinnerHadChance` fails |
| `settlement_burned` (violation) | one batch and the owners | `UnwindBurnsOffender` fails |
| `auction_cross` | one opening auction, two solvers, orders of all kinds | `OwnersWhole`, `CrossStands`, `LimitUpToRounding`, through extensions, challenges, rollbacks |
| `auction_shared` | two closing auctions over one balance | `AccountsHold`: it holds what it owes over both and no account is ever below zero; `PrintsStand` whatever the order in which they execute |
| `auction_returns` | one auction with pause, calendar and multiplier changes | `EscrowReturns`, a liveness property |
| `auction_limit` (violation) | a limit whose ratio does not divide | `LimitNeverBroken` fails |
| `coordinator_pool` | three intents of one owner, two batches | `PoolHolds`, `PoolCovered`, `FeedStable` |
| `services` | one or two batches of a solver, one auction of a keeper, the announcements of up to three batches, an owner at the cards | over crashes, lost replies, rivals and hanging reads: `StoreKept`, `TasksEnd` (solver); `KeeperFinishes` (keeper); `ListenersUpToDate`, `OutcomesAccounted`, `OpenedAreClosed` (announcements). One owner, up to two presses: `PromisesKept`, `CardsRight`, `ButtonsComeBack` |
| `plans_and_views` | jobs for the pure parts, three calendars, eight chains for the indexer, a tab | plans are right and accepted: `PlanAlwaysBuilds`, `ClearingHolds`, `RoundTripNeverProfits`; times agree with the contract: `WindowsAgree`; views agree with the chain: `IndexAgrees`, `IndexerCatchesUp`, `ReceiptTrue`, `QuoteMatchesForm`, `TabCatchesUp`; an agent stays within its mandate: `MandateHolds`; what preflight says is what finalize does: `PreflightHolds`; an account is topped up once: `FaucetHolds`; the opening reference is exact: `ReferenceKept` |
| `coordinator_stale` (violation) | the same with settlements during admissions | `PendingCovered` fails |

Run one with `tlc -workers 2 -config MCSettlementRace.cfg MCSettlement`; the
modules and cfgs are paired in `PROJECT.json`, which also names for every
property of a passing run a mutant of the code that breaks it.

Several of these are conjunctions of named parts, each a property of its own with
its own comment: `PoolHolds` is `PoolConsistent` and `NonceHeld`, `PoolCovered` is `PendingCovered`
and `FeedCovered`; `PreflightHolds` is `MirrorExact`, `RevertsExplained` and
`RefusedRightly`; `MandateHolds` is
`LedgerExact` (the day's total is that of its open bookings), `WithinDay` and
`AuthorizedStaysGood`; `ReferenceKept` is `ReferenceHolds`: `OwnOpening`, `ReferenceExact`,
`SettledWhenever` and `KeeperSeesReference`; `FaucetHolds` is `ToppedUpOnce`, `NeverCollides` (no
transfer is refused for its nonce) and `WindowsBound`; `ClearingHolds` is `PlansVerify`
(the contract takes the plan) and `ClearingBest`, that is `BandEdgesExact` (the price is not pushed
beyond the oracle's band), `VolumeMaximal` and `RationExact`; `PlanAlwaysBuilds`
contains `BalancingPriceSmallest`, `RoundTripNeverProfits` contains
`NoTickSkipped`, `IndexAgrees` contains `BaselinesTrue`; `WindowsAgree` is
`TransitionExact`, `FirstValidBatch`, `SolvableExact` and `OpensBeforeAuction`;
`ReceiptTrue` is `AttributionAddsUp`, `ReceiptNamesWinner`, `FloorsHold`,
`ScanAgrees` and `PagesComplete`; `TabCatchesUp` is `RowsCatchUp` and
`WatcherReturns`; `CardsRight` is `LoneIntentAccepted` (an intent the card builds
is admitted), `SpendsWhereRead` (a transaction goes to the chain the card read)
and `JoinsCrossShown`;
`StoreKept` is `WonStaysRecoverable` and `RecordsTellTruth`, which contains `SubmitsOnce`; `ListenersUpToDate` is
`BatchesHeardInOrder` and `TopicsUpToDate`; `OutcomesAccounted` is `OutcomesOnce`
and `RangesHeard`.

Deadlock checking is off everywhere: every model has a last timestamp, after
which all batches and auctions may have ended, or a job that is done.

`services` and `plans_and_views` hold several systems that share no memory. A
behaviour is about one of them (`service`, `subject`), and the others stay at one
of their initial states: the runs are the sum of what each would be by itself.

## Bounds and why they are enough

The state spaces are one hundred thousand to one million states each.

- **Scales.** `BPS` is 10 and `WAD` 1 or 2, amounts are at most 20, so that a
  fee, its two caps, the limit ratio, the stored limit and a fill all round on
  the amounts used. Windows and deadlines are one or two ticks, in the code's
  order (cooldown ≥ window + deadline, pause longer than the deadline, a day
  boundary between the two batches).
- **Settlement.** Two batches are enough for one signature or balance to be in
  two winning solutions and for charges on two sides of a day; two solvers for
  a lead to be taken over. The solutions contain one netted in full, one with a
  fee, a routed one whose intent the netted ones leave alone, one with two intents
  over one balance, one that reverses the order of collection, and two that must be
  refused. `MaxTime` covers the last deadline of the later batch.
- **Parts of the world.** `Settlement`, `AuctionHouse` and `Coordinator` have a
  variable `acting` that never changes: the parts of the outside world that move
  in this behaviour, one of the sets in the constant `Disturbances`. In
  `settlement_batches`, `auction_cross` and `coordinator_pool` it is one group at
  a time: all interleavings of one group with the protocol are checked,
  interleavings between groups, such as an owner and the governor both interfering with one batch, are not. In the settlement
  run the governor delists only one of the two tokens, and the calendar moves
  between open sessions and none (`GroupBound`). The proofs hold for every
  value of `Disturbances`.
- **Auction.** Two orders over one balance, a market, a limit and a relative
  order; up to two orders a book and three executions a cross; one extension;
  two days for prints. In `auction_cross` the owner who acts is the one with two
  orders, and moves funds only until the freeze, since nothing reads the account
  afterwards (`OwnersEarly`).
- **Coordinator.** Three intents: two that together exceed the balance and one
  that reuses a nonce. Two windows are tried where the code tries three. In one
  group of behaviours solvers win and batches settle while admissions run side
  by side; settlements come by the deadline and between admissions, and
  `coordinator_stale` lets them race (`"race"`) and shows what that changes. In
  the other, lookups and feeds screen while the owner acts, reads fail and the
  process restarts; there one admission runs at a time, time ends when the first
  batch is solved, and the owner keeps two units and one nonce
  (`ScreeningBound`).
- **Services.** A solver's case names the batches that close and the outside parts
  that act together (`SolverCases`): a rival with other callers and failing reads; the
  wall clock with a signal and a cut stream; a crash with a rival; two batches
  with room for one (`MaxTracked` = 1). One crash (`SolverCrashes`) at any
  point, six seconds (`SolverHorizon`), deadlines of one and two. `KeeperCases`
  likewise: a crash with a moved multiplier, a crash with other callers, a challenge with a book that
  cannot be read, a failing node; one crash, one challenge, one extension, nine seconds. Freeze,
  crossing and reference are at one, two and three, the deadline for aborting at five, and
  `KeeperReleaseAfter` is five: as in the code it leaves room after that deadline for a
  challenge window and a retry, and time goes on beyond it. `LifecycleCases` picks the kind of
  node, whether reads or log reads fail, whether the chain reverts, and the
  last second told apart (`LifecycleHorizon` beyond it); log ranges of one block, two chunks a
  tick, so that the announcer falls behind. `TopicAt` gives the price every turn: healthy,
  unhealthy and back, no answer, unhealthy again.
- **Order path.** `PathCases` names the presses (one or two of sign, approve,
  commit), the amounts, whether Permit2 is approved, how far the heads of two
  chains are apart (`gap` against `SlackBlocks`), the last second and who else
  acts. A balance of three (`PathBalance`) against amounts of one and two: two
  intents fit or do not. Two batches and two crosses; `ValidFor` = 6 lasts over
  a window, its solving and its deadline, as a quarter of an hour does in the code
  (300 + 10 + 300 seconds), and is used up by a slow signature. `LongestWindow`
  is the longest wait for the end of a batch. The owner acts once; a nonce word of
  ten bits (`NonceRange`), a stamp one second old (`StaleStamp`).
- **Plans.** `CrossJobs`: five entries of every kind, tied and untied, on both
  sides of the limits, one seller with a deviation above the whole, and a contract that takes four
  executions (`MAX_CROSS_EXECUTIONS`), so that a plan is refused for either. `ClearingJobs`: four intents at two prices whose tiers
  meet inside the band or beyond it, pools of two depths per direction, both
  profiles. `QuoteJobs`: positions across negative and positive ticks, spacings 1 and
  2, every start tick and 12 amounts, with `QuoteQ` = 16 for 2^96, words of
  `QuoteWord` = 4 bits, arithmetic that wraps at `QuoteWrap` = 256 and a fee of
  one tenth (`QuoteFeeUnit`). `TickPrice` is any increasing table.
- **BatchClock.** Days of 60 seconds whose marks keep their order and are apart
  by more than a batch and a guard band; over four days of a five day week and a
  weekend, with both clock changes. `ClockAsks` = 2 questions at most
  `ClockApart` = 6 seconds apart, earlier or later, with `ClockSpans` = 3
  spans remembered, so that the reader forgets.
- **Indexer.** The cases end a batch in every way: settled, below the threshold, unwound,
  expired. Each has its own height (`height`, at most `IndexHorizon`),
  its logs, one or two rewrites of any depth and up to one failing read or
  crash; ranges of two blocks and a rewind of at most two (`MaxRewind`), so that
  a deep rewrite goes beyond it.
- **Tab.** Four edits (`FormEdits`) over three amounts, two refreshes at once
  (`RefreshLimit`), one reload or restart (`TabReloads`); two tabs, two places,
  three cuts (`StreamCuts`), so that dead sockets of a tab fill the
  server. Each cut may leave the tab deaf.
- **Receipt.** Three fills of either token against every routed amount; up to
  three submissions of two solvers, copies of one solution among them; six batches in pages of two.
- **Mandates.** Three intents of one mandate, two of them with one nonce, one
  intent that does not fit it and one of a second mandate; two prices, a day
  boundary after the second second, an expiry at the last one
  (`MandateHorizon`); at most two mandates (`MaxMandates`).
- **Preflight.** Two batches of one solver, netted or routed, in full or halved caps; charges
  of others of nine, one of which names its token twice; two settings of the caps, which move once after a plan
  was asked about; days of four seconds (`DayLength`) with a midnight between
  window and deadline; a pool that gives up to two more than `minOut`.
- **Faucet.** Three requests, the first and last for one account, from two clients; one
  request an hour of two seconds (`Hour`), so that both windows refuse and let go
  again before the last second (`FaucetHorizon`); a faucet whose coins run out, where one
  transfer may revert, and one whose coins do not, where the process may restart; a wait that ends before a transfer is mined (`ReceiptWait`).
- **Opening references.** Every opening of the three calendars; a window of three seconds
  (`OpenRefWindow`), a walk of three rounds (`MaxOpenRefRounds`), one round a second
  at most, from a second before the bell (`TapeBefore`) to two after the window
  (`TapeAfter`), so that the walk reaches all, a part or nothing of it; one extension.
- **Symmetry** is not used: owners and solvers of the instances differ.

Named bounds in the modules: `MaxTime`, `MaxBonded`, `MaxSlashes` (registry),
`MaxTime` (auction), `MaxTime`, `MaxPosts`, `MaxAttempts`, `MaxScreening`
(coordinator).

## Fairness

Three runs ask for progress.

`auction_returns` assumes weak fairness of `Tick`
(time passes), of `abortAuction` and of `refundEscrow`. Both calls are public,
need no solver, no oracle and no open market, and neither is guarded by the
pause; whoever wants the escrow back can make them, and the keeper makes the
first. No fairness is assumed of `finalize`, `executeCross` or any solver. None is
assumed of `expireBatch`, which no service of the repository calls (only the
script `infra/scripts/expire.mjs`, by hand), so no property says that a won
batch ends.

`services` and `plans_and_views` assume that a running process is scheduled and the chain goes
on, and nothing of the other parties:

- solver: blocks come (`Block`), and each task takes its next step
  (`TaskStep(b)`), because a pending promise of the code is settled by viem's
  own timeouts; nothing of the backstop, a rival or a restart;
- keeper: time passes (`Second`), its own loop goes on (`look`, `act`,
  `sendAndWait`), since every read is retried at the next block, and a process that ended is
  started again (`runKeeper`): the container ends with it (`entrypoint.sh`) and the host restarts
  it, nobody says when;
- owner: a try that was started goes on (`TryStep`): a request is answered or
  its connection fails, and the person answers the wallet. Nobody presses again,
  and time need not pass;
- lifecycle: blocks (`Mined`) and the poll's interval timer. Not the tick:
  its reads may hang for ever, and `OpenedAreClosed` holds regardless;
- indexer: blocks (`MineBlock`) and the loop of `index.ts` (`IndexerStep`), which goes on
  after a failed step and is restarted after a crash; rewrites and failures
  are bounded and not fair;
- tab: the refresh timer and the answers to it, the server's ping timer and the
  tab's reconnect timer, and the indexer for a batch that ended
  (`receiptIndexed`).

## Proofs

Every property that `settlement_batches`, `settlement_race`, `auction_cross`,
`auction_shared` and `coordinator_pool` check is also a theorem, for all sets of
solvers, batches, solutions, auctions, intents, owners, tokens and concurrent
requests, every combination of disturbances and all values of the time
constants. One has a hypothesis on the combinations, `PoolAlwaysCovered`.

| Module | Theorem | States |
|---|---|---|
| `SettlementProofs` | `TypeCorrect` | `Spec => []TypeOK` |
| | `DutyInvariant` | `Spec => [](TypeOK /\ DutyInv)` |
| | `BondHeld` | `Spec => BondOutlivesDuty`: nobody withdraws a bond while a batch it won is unretired and within its deadline |
| | `EndInvariant` | `Spec => [](TypeOK /\ EndInv)` |
| | `SettlementImplementsLifecycle` | `Spec => ImplementsLifecycle`: the core refines `BatchLifecycle` |
| | `RegistryBacked` | `Spec => []RegistrySolvent` |
| | `ScoresExact` | `Spec => []ScoresMatchOutcomes` |
| | `SignaturesRespected` | `Spec => []SettledAsSigned` |
| | `NothingKept` | `Spec => []CustodyEmpty` |
| | `OwnersMadeWhole` | `Spec => []OwnersWhole` |
| | `DaysChargedOnce` | `Spec => []DayAccountsAgree` |
| `AuctionProofs` | `CrossesStand` | `Spec => []CrossStands` |
| | `LimitsHold` | `Spec => []LimitUpToRounding` |
| | `PrintsNeverAltered` | `Spec => PrintsStand` |
| `AuctionAccounts` | `HouseHoldsWhatItOwes` | `Spec => []HouseSolvent` |
| | `TypeCorrect` | `Spec => []TypeOK`: well typed, no account below zero |
| | `AccountsAlwaysHold` | `Spec => []AccountsHold`: both |
| | `OwnersKeepTheirs` | `OwnersTradeOnly` implies `Spec => []OwnersWhole` |
| `CoordinatorProofs` | `PoolAlwaysHolds` | `Spec => []PoolHolds`: types, maps and nonces |
| | `ServedAsFrozen` | `Spec => FeedStable` |
| | `FeedsAlwaysCovered` | `Spec => []FeedCovered` |
| | `PoolAlwaysCovered` | `TimelySettlement` implies `Spec => []PoolCovered` |
| `ServicesProofs` | `StoreAlwaysKept` | `SolverSpec => []StoreKept` |
| | `ListenersAlwaysUpToDate` | `LifecycleSpec => []ListenersUpToDate` |
| | `OutcomesAlwaysAccounted` | `NeverPutBack` implies `LifecycleSpec => OutcomesAccounted` |
| | `CardsAlwaysRight` | `PathInit /\ [][PathNext]_pathVars => []CardsRight` |
| | `PromisesAlwaysKept` | `PathInit /\ [][PathNext]_pathVars => []PromisesKept` |
| `PlansAndViewsProofs` | `MandateAlwaysHolds` | `MandateSpec => []MandateHolds` |
| | `QuoteAlwaysMatches` | `TabSpec => []QuoteMatchesForm` |
| | `FaucetAlwaysHolds` | `FaucetSpec => []FaucetHolds` |
| | `PreflightAlwaysHolds` | `PreflightSpec => []PreflightHolds` |
| | `ReceiptAlwaysTrue` | `ReceiptSpec => []ReceiptTrue` |
| | `IndexAlwaysAgrees` | `IndexerSpec => []IndexAgrees` |
| `ClearingProofs` | `ClearingAlwaysHolds` | `ClearingSpec => []ClearingHolds` |
| | `NoTickEverSkipped` | `QuoteSpec => []NoTickSkipped` |
| | `PlansAlwaysBuild` | `CrossSpec => []PlanAlwaysBuilds` |

**Assumptions**, all evaluated by TLC on its instances: `ScaleAssumption`,
`RegistryAssumption`, `SettlementAssumption`, `AccountsAssumption`,
`AuctionAssumption`, `CoordinatorAssumption`, `SolverAssumption`,
`LifecycleAssumption`, `PathAssumption`, `MandateAssumption`, `FaucetAssumption`,
`PreflightAssumption`, `ReceiptAssumption`, `IndexerAssumption`, `CrossAssumption`,
`ClearingAssumption`, `QuoteAssumption`. A candidate
solution is only assumed to be what the ABI decodes (`WellTyped`): amounts are
naturals, accounts are accounts, lists are finite; whatever it claims may be
wrong. Two assumptions carry weight.
`UNBOND_COOLDOWN >= SOLUTION_WINDOW + FINALIZE_DEADLINE` relates two constants
of two contracts: 7 days against 310 seconds. `AccountsAssumption` says that an
owner of intents is not also a solver, the treasury or the contract: the books
of `OwnersWhole` are kept per account, and a solver is paid fees and moves its
bond in the same token. `OwnersTradeOnly`, the hypothesis of `OwnersKeepTheirs`,
says the same of the auction: an owner who challenges is paid a seized bond, one
who solves moves its own. It is a hypothesis of that theorem alone, and
`auction_cross` satisfies it.
`AuctionAssumption` asks of an intent what the ABI decodes, and that the
contract itself is no party to one. `CoordinatorAssumption` asks the same of an
intent, that there are finitely many, and that the values for "nothing" are
none of the records they stand beside.

`TimelySettlement`, the hypothesis of `PoolAlwaysCovered`, says of a behaviour in
which batches settle that they do so by the deadline, not while an
admission is between its reads, and that no status lookup screens and no restart
happens in it. All three parts are needed. A settlement that races an admission is
`coordinator_stale`. A lookup may withdraw an intent that a
solver has already won (its owner had moved the funds, then brought them back): the
coordinator counts it as free while `finalize` can still take it. A restart
forgets the claims of a batch that still settles. `coordinator_pool` satisfies
the hypothesis; the other theorems of the module need none of it.

**The argument.** *Types*: one lemma per action; the slash does not exceed the
bond because a floored share does not (`ShareBound`).

*Sums* (`SharedLemmas`): the community module defines a sum by recursion over
subsets, and the library's induction theorems cannot be instantiated here. Each
lemma (`SumInt`, `SumRemove`, `SumUnion`, `SumPlus`, `SumRename`, ...) is proved
from the well-foundedness of strict inclusion instead: a set for which the
statement fails has a smallest member (`SmallestSet`), and taking one element
out of it contradicts that. `SumPartition` and `SumExtend` are the two shapes of
bookkeeping: a total split by token, and an account to which a batch of entries
is added.

*Bonds*: `BondOutlivesDuty` is not inductive, since the exit in question may
have been requested many steps before. `DutyInv` is its strengthening: once a
batch has a winner, a pending exit of that winner ends more than a cooldown
after the batch's own collection end. A submission establishes it because only
an active solver, one without a pending exit, can be recorded, and only after
the collection end; `requestUnbond` re-establishes it because it counts from now;
nothing else moves an exit except to clear it. With the assumption above, an
exit that is due is then past the deadline of every batch its owner has won.

*Refinement*: `EndInv` ties the history variable `outcome` to the contract's own
`finalized` flag and says that only a batch with a winner ends; under the mapping
`BatchPhase`, `BatchLeader`, `BatchLead` each action is then an abstract step
or a stutter.

*Signatures*: what `finalize` executes was verified in `submitSolution`, at other
prices and in another session. `RecordedInv` carries from one to the other that a
recorded solution belongs to its batch and keeps every leg within its amount and
its limit; `FillsInv` says that a settled leg's nonce is burned, its batch has
ended and its parties are owners. The nonces make the settled legs of one
finalize distinct from each other and from all earlier ones (`AllCollected`,
`NewFills`).

*Balances*: `finalize` is one step in which each account changes by a sum.
`NothingKept` unfolds it: what is pulled, routed, delivered and skimmed as
surplus adds up to zero in every listed token, for any answer of the venue, and
a token the solution does not list is not touched (`UnlistedToken`). This needs
`RecordedInv` again: a leg or a venue call in an unlisted token would slip past
the balances the contract compares. `OwnersMadeWhole` reads the same step from
an owner's side; its sums run over the set of settled legs, a history, so that
the legs of this batch, distinct by their nonces, are added with `SumExtend`.

*Exposure*: `DayAccountsAgree` needs `DayInv`, that the day last charged is not
in the future; a charge adds a leg to one token's counter and to the global one,
and the legs are split by token with `SumPartition` (`ChargeSplits`). A token named
twice is charged twice on its own counter, so the global one is never the larger, and the
two are equal while nothing settled that repeats a token; that this is still said of the
same solutions after a step is `SettledStands`.

*Scores*: `ScoresExact` counts failed finalizes per expired batch, and wins per settled batch and
per auction that reported one (`auctionWins`), since both contracts write one counter. The
refinement takes the auction's wins away again (`BatchWins`).

*Books and escrows of the auction*: `BaseInv` says where a commitment is. A book
holds each of its commitments once and an order in no book but its auction's;
an escrow is taken by the freeze and given back once, after the end; fills exist
only under a standing or an executed cross, never beyond the escrow; a standing cross has a
solver, a price and the final reference. None of this is stated in one place of the code:
it is the product of every handler's phase checks.

*Crosses*: `CrossStands` speaks of sums over the book and follows from
`StandsInv`: each position keeps what `_applyCross` checked of it (`FillOk`), the
figures of the cross what it added up (`FiguresOk`), and a step that leaves the
phase CROSSED or EXECUTED leaves book, fills, reference and figures alone
(`SameCross`). What has to be shown is that the reference a cross was checked
under cannot change beneath it: it became final with the cross, or in an
`extend` before it. `LimitUpToRounding` is the same invariant read from one order, with
the two floors of the stored limit and of the fill put together. It excepts a
buyer who asks for more than `WAD` units per unit of the quote: `_limitOf` stores
a zero, which `_match` and `_applyCross` read as no limit. The proof showed that
exception; the instance checked first had no such order.

*Prints*: a print is written when an auction executes, and `PrintInv` says that a
closing auction that has not executed has none: two auctions of one token and
one day are one, so an execution always writes into an empty place.

*The house*: per intent, `dues` is what the house owes, `spent` what the owner
parted with and `gained` what the receiver got. Most steps leave them alone
(`QuietClaims`); the freeze, the execution and the refund move them by sums that
have to match the ledger's. For the execution this is conservation: `CrossStands`
says that fills and dust balance, so that what is paid out is what the orders
sold and one bond. `HouseHolds` is the equation `HouseSolvent`
states, in this form. Since dues are natural numbers the house is never below
zero; `Covered` says it of everybody else. There the freeze is the hard step: it
pulls escrow after escrow from owners with several orders, and `FreezePulls`
shows, by the position of the last one taken, that together they never exceed the balance.
`OwnersHold` is the equation of `OwnersWhole` over `spent` and `gained`.

*The pool*: `PoolHolds` is strengthened to `PoolInv`. A held nonce carries its intent's own
`validUntil` (`HeldInv`), which lets a sweep drop it only when it is dead; what is
pending waits in its batch, once, and the reverse (`WaitInv`); what was admitted holds its
nonce until it ends, although its status may be gone by then (`AcceptInv`, from which
`NonceHeld` follows: two intents holding one key are one); and a stamp an
admission still carries is not from the future (`StampInv`), so that a late
reply never sweeps more than the chain's time allows. `sweep` and `withdraw` are
called from several handlers and have lemmas of their own (`SweepBatch`,
`SweepNonce`, ...).

*Feeds*: a feed is replaced only through `unbuilt`, which is false of a served one
until the sweep that drops its batch. That what it serves was covered is an
induction over the positions of the list that `screen` walks: up to each, the
intents kept draw no more than the owner had. It needs `FeedInv`: between the
freeze and the answer of the reads, an intent that came in time can leave the batch
but none can join it, so what is served is what the walk kept, less withdrawals; a
late one can, which is why `FeedCovered` speaks of those accepted in time.

*Claims*: `PendingCovered` compares two sums that an admission
cannot see at one moment. `FundInv` says that what an admission read is never more than
what is left to promise; `AsideInv` that what it has set aside as spent or
unwinnable stays so, because nonces are not given back and a batch without a winner past its
window gets none; `WonInv` that what a solver has won is still pending, so that a
settlement turns claims into pulls, one for one. With them the recount before
`admit`, in one stretch with it, is exactly the step that re-establishes the sum.

*The solver's file*: `StoreKept` asks that a batch that was won has an open record, and
says nothing of the steps before. `SolverInv` adds them: until the file has a
batch nothing of it was sent, and it enters the file once, since its frame comes
once (`SentInv`); a lead comes from a receipt of this solver's, and a
finalize only from a lead nobody can take any more, because the window is over (`LeadInv`);
a closed record has a reason that lasts: a receipt, a deadline that has passed, a
batch that has ended (`ClosedInv`). None of these looks at the process, so that
a crash at any await preserves them; a restart only closes records past their
deadline.

*The announcements*: `BatchesHeardInOrder` speaks of what was sent, the code decides by
what it tracks. `LifecycleInv` ties them together: a batch that collects is the one
open batch, its opening was told and its close was not; any other that was opened was
closed, tracked or not (`TrackedGood`), so that an eviction, which takes closed
ones only, swallows no close. No frame is later than the last tick or the latest close
(`ClockInv`), and on a chain a poll in the middle of a tick closes at a second its queued
head has too (`ScheduleInv`), which is why the next tick never goes back. What `closeDue` and
the eviction leave of a list is said once (`InTheirOrder`), by the positions
they keep. For the outcomes, `OutcomeOf` says of each batch what was read: behind the
cursor, or waiting in a range that failed halfway and will be read again, and in
that case nothing of it was told. `TopicsUpToDate` is inductive as it stands: what is told and what
is remembered change in one step, and a turn that was not told leaves no `Healthy` behind it. `NeverPutBack`, the hypothesis, excludes a
fork that goes back while batches have ended: a log mined again before a poll
notices is told twice. The instances of `services` satisfy it.

*The cards*: `LoneIntentAccepted` speaks of refusals, which are history, so the induction is
over what leads to one. `TryGood` says what a try under way has checked, and that the time it was
told has come; `QuietInv` that until some try has reached the coordinator or the
chain, or the owner has acted, nothing is held, booked or spent, and the wallet has what every
card of the page was allowed to sign for (`Undisturbed`, `CanPay`). A lone try is
answered out of that quiet. Of the checks of `verdict`, in their order, only three can then
fail: the form, the open batch, and the validity, which lasts over the batch's solving unless
the signature took longer than `LongestWindow` leaves of it. A commitment is in the
book of the cross its page showed because the house asks that it outlive the
cross it joins, and it ends before the one after (`BooksInv`).
`PathAssumption` asks for that: crosses of one kind are a trading day apart,
`AFTER_CROSS_SECONDS` is an hour. It also asks that before the end of a window the
next is never further off than `LongestWindow`, which is what that constant means.

*The promises*: `PromisesKept` speaks of one collection at a time, and whether it finds the funds depends
on all the others. `KeptInv`, which holds until the owner acts on the chain, accounts for
them: what is gone from the balance was promised, and what is spent is the nonce of a promise (`FundsInv`,
`SpentInv`); each promise is one press, and the intents of one nonce do not
live at once (`PromisesInv`, `MempoolInv`). While no promise is to an auction, what may
still be collected is covered by what is held: `coveredBeside` asks for it when an intent joins,
and a collection takes from both sides the same. With an auction among them it need not be covered, and
then a leg that is missed shows that the promises together are more than there is
(`TakenFits`, `MissedOfBatch`, `MissedOfBook`), or that a nonce is shared, or that the signature
was late: nothing else is left. `takes` is what the walk through a list takes; that there is exactly one
such set is `TakesIs`, by a smallest counterexample. The induction replaced a first form of
the exception, in which two promises together exceeded the balance: three may where no two do.

*The mandates*: `WithinDay` counts what may still be taken and what was taken, and is not
inductive: a release makes room for an authorization. `DayInv` counts every booking of a
day that was not released, today's or an older day's, and `DrawnInv` says that one that was
taken stays booked: `releaseUnspent` asks for a nonce that is not spent, and taking the intent
spent it. What `WithinDay` counts is part of those bookings. `BudgetInv` is what makes
`authorize` keep the cap: the counter it compares is the sum of the bookings of its day, since
a release on a later day leaves it alone. `MandateAssumption` asks of the days
only that they do not go back.

*The quote*: of all requests on their way only that of the last edit is live, and it asks
for the amount in the field (`QuoteInv`).

*The faucet*: the nonces that are mined or wait to be are the first ones, each once
(`NonceInv`), and the count a task starts from stays the next free one while it has its turn
(`CountInv`), since nobody else sends and mining moves a nonce from one side of the count to the
other. Of the queue only the first has begun (`QueueInv`), so a transfer on its way
belongs to it or was given up on (`PendingInv`): what `readHeld` finds due was computed from a balance
nothing is on its way to, and stays due while the faucet reads its own and until it is sent (`DueInv`). A transfer that reverts takes
from what is on its way and adds nothing (`CreditLost`). A restart leaves the chain alone and counts
those it forgets as given up on (`RestartKeeps`). A window keeps the times of the last hour
only; `WindowInv` says that it keeps as many as were taken, counted from any second from now
on, which is what lets `WindowAppend` bound every hour that contains the present. `FaucetAssumption` asks
that the assets are distinct.

*Preflight*: one lemma for each figure says that the solver's equals the contract's: exposure
is summed in one pass there and per token here (`ExposureMirrors`), what is left over is
one balance there and four sums here (`WithheldMirrors`); the second comparison is of what
rounds down in the same way, so the verdicts agree in every state (`VerdictMirrors`,
`FeesMirror`), and a venue that returns more raises the fee's cap by less than the fee
(`FeeCapGrowsSlower`, for `ShareOfFee <= BPS`). The rest is time. `WonInv` says of what passed that it
fits on every day on which it may be charged, until that day is charged again or a cap is lowered;
`RefusedInv` of what did not that it never fits on the day it was meant for, until a cap is raised:
charges of a day only grow. Both need that a day to come is uncharged (`DaysAhead`). The assumption
says what a plan is: naturals, its legs and routes in tokens of a finite list.

*Receipts*: of all submissions that were accepted when they came the last is the one that was
kept, and accepted again when looked at alone (`LastAcceptedIsBest`), which is why the highest
accepted row names the winner where no log does. It is also the first of its copies: the
savings belong to the solution, and a copy does not beat them (`CopiesFollow`), so what a
finalized batch shows as accepted is that row and copies after it (`WinnerShown`). A routed amount is split by quotients; their
sum is the whole to less than a unit per fill (`SharesOfAll`), and where more was routed
than sold each fill is shown as routed entirely (`ShareOfFill`). `FloorsHold` needs of a
job only what the verifier checked of it at the winning submit: `ReceiptAssumption` says that the
baselines of each direction were not below the venue then. `PagesInv` says that a reader
has, of what was there at the start, everything down to its cursor: a page ends with the
newest that are left, whatever was indexed above the cursor meanwhile (`NewestFirst`).

*The index*: `IndexAgrees` speaks of the checkpoint's block alone, but a rewind may choose any
block that is stored. `IndexInv` says of each of them (`PairsAgree`) that, if the chain still has
it, the stored logs and quotes up to it are the chain's. That survives a block more, since its hash is
new (`GrownAgrees`), and a cut, since below a block that stays all is what it was (`CutAgrees`). `RangeRead` and
`RangeStale` are the two things a range can be between its two reads: it goes on from the
store on the present chain, or the hash of one of its logs gives the rewrite away; `moved` tells
them apart. The tables need more: that projecting range after range is projecting all at once
(`ProjectedJoined`), that the winning row of the first `finalize` that closed the batch is what a rewind would leave
(`WinsUpTo`), that no transaction is stored twice. These hold of lists of logs a chain can have
(`Lawful`): in the order of their blocks, no event of a transaction twice, an end only after a submission
that leads for good and nothing submitted after it. What is mined keeps them lawful (`LawfulMined`),
and so does a cut. `Projected` and the binary search are recursive functions;
that they have a solution is by a smallest counterexample (`FoldExists`, `SearchSolvable`), and the
search finds the deployment from every head (`SearchFinds`). The induction refuted
the first form of `Reorg`, which allowed any rewrite inside a step down to the depth of the
confirmations: with two rewrites in one step the second reached below what was confirmed. TLC
had not met it at a height of five; the run has a chain of six for it now.

*The cross*: a higher price keeps every seller and brings no new buyer, and a buyer's tokens only
fall with it (`SidesMove`), roundings included; so once demand does not exceed supply it never
does again (`ShortStays`) and a search that halves cannot pass the first such price
(`ShortHalves`, `PriceFound`). The search is a recursive function; that it has a solution is by a
smallest counterexample (`PriceSolvable`). The floors of the shares leave over fewer units than there are
sellers with a remainder, and each of those has room for one more, so the sellers that get a unit
are the first in the order of `cross.ts`, exactly as many as there are units (`FirstRanks`, `SplitExact`).
The comparisons, the planner's and the contract's, then follow from sums of floors (`PlanTaken`); what is
left between the two is `ContractReads`. `CrossAssumption`
asks that the search does not start at a price of zero, where the prices of `cross.ts` divide by zero.

*The clearing*: the closed forms of the band are its edges (`BandIs`), so that the loops after them never turn.
Between two of the prices tried nothing changes hands: from any price of the band the executable
volume does not fall on the way to the next limit on one side of it (`VolumeBest`), which is what the comment of `clear`
calls Lemma 2. Rations are sums of floors: what the shares leave over goes out in an order, each
up to its room (`TierRationed`, `FittedRationed`, `SideRationed`). That the verifier takes a plan comes down to
`PlanHolds`, said of fills and not of the solution's functions (`PlanVerifies`). A netted plan has it
because the allocation ends in a pass that nothing was refused in: every pass takes one
intent out, there is a pass more than intents, and the passes, a recursive function, have a solution by a smallest
counterexample (`AllocateTaken`); the shortfall of each direction's baselines goes to the fills with room, and to
no fill more than it has (`RaisedFits`); what the venue returns covers the residual (`RouteBrings`). A routed
one because of what is left when no limit is broken: the shares of the quote add up to it (`SharesAre`,
`RoutedPlanIs`), and two directions at one price share no intent (`UnitedFit`). `ClearingAssumption` asks of
a job what the chain and the adapter let through: a positive price of the quote token, a band no wider
than the price, amounts that are naturals. No intent need be worth anything: two over nothing on the larger side, or one that sells nothing for what a venue gives all the same,
make `tryRouted` divide by zero. Then `solve` throws and there is no plan (`Thrown`); the run has such jobs.

*The quote's ticks*: compressing rounds down on negative ticks too, so the word and the bit of a
tick are those of its quotient (`BitsOf`); among the bits of a word the first of the masked ones is the next tick. `QuoteAssumption`
asks that the initialized ticks are multiples of the spacing.

**Only model-checked.** Every other safety invariant of the runs has a theorem; these have not:

- `RoundTripNeverProfits`, but for its part `NoTickSkipped`: the walk over ticks there and
  back, with wrapping products and rounded divisions at every step, is an induction over two
  folds whose steps do not match up.
- `WindowsAgree`, `ReferenceKept`: the calendar's search and the walk over rounds are recursive operators
  (`BatchClock`, and `OpenReference`, which uses the calendar); a module with a theorem cannot reach one.
- Liveness (`EscrowReturns`, `OpenedAreClosed`, `TasksEnd`, `KeeperFinishes`, `ButtonsComeBack`,
  `IndexerCatchesUp`, `TabCatchesUp`): fairness and ENABLED are out of this prover's reach.
- The refutations (`violation` runs), which are single counterexamples.

## Disagreements between documents and code

Four runs refute a sentence of the documents; `PROJECT.json` quotes each.

- A pause does touch a batch already won: it stops `finalize` and not
  `expireBatch` (`settlement_paused`).
- An unwind burns the nonces of the legs collected before the failing one, not
  the one of the owner who made it fail (`settlement_burned`).
- A limit order in the auction may be filled below its signed ratio by rounding
  (`auction_limit`); `LimitUpToRounding` bounds by how much.
- The coordinator may admit an intent the remainder does not cover, when an
  earlier batch settles between its two reads (`coordinator_stale`).

Two more have no run. `checkCross` in `cross.ts` is said to return "the name of the error it would
revert with, or null": for a book with a seller whose deviation is above the whole, or a plan of
more executions than the contract takes, it returns null and `submitCross` reverts
(`PlanAlwaysBuilds` says exactly when). And `solvableBatchId` tells a solver to
come back for the window after the one that closes in the very second it asks.
`SolvableExact` names the exception.

Four more were met in `OrderPath`; its properties name them as exceptions:

- `nonces.ts` says that a nonce has to be free on chain and not held by an
  accepted intent, and `CommitCard.tsx` that the coordinator knows which those are. It does
  not know those promised to an auction: one owner may be given one nonce twice,
  and one balance, and one of the two promises fails (`SharedWithAuction`).
- `_requireCollectable` leaves `finalize` "free to read a failed collection as
  the owner changing their mind". An intent that ends between `solveEnd` and
  `finalize` fails by the clock. The trade card's validity leaves that to
  people who take minutes to sign.
- `CommitCard` shows a commitment as made once its receipt is there, a reverted
  one too (`landCommitment`).
- A wallet on a fork younger than the slack cannot be told apart
  (`SpendsWhereRead`).

`simulate.ts` says that a solution that would fail at finalize is never submitted.
`preflight` does not count the solver's own batches in flight (up to `MAX_TRACKED`):
two of them, each within the cap that is left, are both submitted, and the second
cannot be finalized on that day (`RevertsExplained` names it).

Three in `PriceOracle` and around it, exceptions or limits of `OpenReference`:

- `_timeWeightedFeed` says that it walks back "from the last one at or before
  windowEnd". It starts at the latest round, and each later one uses up one of
  its sixteen turns: the same day, settled later, has another price or none
  (`ReferenceExact` says of what part the price is the average).
- `keeper.ts` takes the auction's own reference once there was an extension and asks the
  oracle otherwise. A cross that was challenged away before any extension has left
  a reference the keeper does not use, and one settled after the auction
  had taken the last answer makes it place the orders relative to the opening
  that the auction has excluded (`KeeperSeesReference` names both); its cross is refused.
- A Sunday is given Monday's opening instead of `NotATradingDay`; nobody asks for one.

Exceptions that properties make, because the code decides so: a batch whose
submit call threw is recorded as abandoned though it may win
(`WonStaysRecoverable`); a receipt that does not come within the wait
is given up (`OutcomesAccounted`); nothing is told of a price that was unhealthy when first
read, or after no answer (`TopicsUpToDate`); a receipt shows copies of the winning solution
as accepted (`ReceiptNamesWinner`).

The keeper lets go of an auction when `RELEASE_AFTER` is over, and `KeeperFinishes` names those
that are not over by then (`LetGo`). One is past its deadline with the process missing, or was
crossed so late that the challenge window outlasts the keeper. Of another the book or the reference cannot be
read: the look ends by that exception before it comes to `abortAuction`. A refusal is final for
this process: a dry run of `executeCross` that a challenge overtook is never repeated, though the
auction may be crossed again, and one refused by an error of the node neither. A cross whose
multiplier moved cannot be executed, and the keeper does not abort in `CROSSED`.

## Not modelled

Left out because they hold no state of their own, or because what they compute
cannot be told from a small model:

- `Settlement.setGuardian`, `submitIntentOnchain` (an event) and views; the
  registry's `setSettlement` and `setAuctionHouse`, which happen once before
  the first batch; `reportInvalidSurplus`, which has no caller.
- `AuctionHouse.setGuardian`, `publishIndicative`, `indicative` and their
  search, and the calendar's early closes, which move `crossAt`.
- Hashing and packing; a signature is a flag or, in `OrderPath`, its form.
- Real pool arithmetic (tick walks, TWAP): a spread stands for it.
- `PriceOracle`'s weekend prices and its check of two sources, `ClosingPrintFeed`'s view, the setters and protective
  mode of `SessionManager`: their answers are variables or tables here.
- The funds of a mandate's account (`approvePermit2`, `withdraw`), and the checks
  a desk makes of an agent's intent besides Permit2's.
- The shape checks of routes, the routes that only read and format, the
  indexer's metrics, the web pages, the analytics, the Rust port of the verifier,
  deployment and demonstration scripts.
- Reentrancy: `finalize` and every function of `AuctionHouse` that moves tokens
  are `nonReentrant`, and tokens are the listed ones.

## Plan

1. Settlement with its registry, verifier and abstract life of a batch. *Done,
   first theorems proved.*
2. AuctionHouse. *Done.*
3. Coordinator, its announcements, the solver service and the keeper. *Done,
   checked.*
4. Clearing, cross planner, venue quote, batch clock. *Done, checked against the
   contracts' own rules.*
5. Indexer, receipts, the trading tab, the order path. *Done, checked.*
6. Mandates, preflight, the opening reference, the faucet. *Done, checked.*
7. Proofs of the core: types, bonds, the refinement, every account. *Done.*
8. Proofs of the auction: books, crosses, limits, prints, every account. *Done.*
9. Proofs of the coordinator: maps, nonces, feeds, claims. *Done.*
10. Proofs of the solver's file and of the announcements. *Done.*
11. Proofs of the mandates, of the quote a card shows and of the faucet. *Done.*
12. Proofs of the order path: the cards; of preflight and of the receipts. *Done.*
13. Proofs of the promises of the order path and of the indexer. *Done.*
