# SolMarket (highgarden) in TLA+

TLA+ models of the money path of this repository: the on-chain program, the
signed quotes and their nonces, a trade and its two legs with the platform's
inventory, the ingestion of fills by the hedger, the hedge jobs, the resolution
of a market by five actors that share two database rows and one account, and a
user's custodial wallet; and of the order-book feed that two processes keep
alive between them. TLC checks each model on a small instance; TLAPS proves
the safety results for every value of the constants.

Paths below are relative to the repository. Every definition of a module that
stands for code is listed with its file and lines in `PROJECT.json` (`map`).

## 1. The system

A user trades YES and NO shares of a Polymarket market against the platform. The
server signs a quote, the user's transaction fills it on Solana, and the hedger
buys or sells the same shares on Polymarket. When Polymarket resolves, the
outcome is forwarded to Solana and winners claim one USDC per share.

| Component | State it keeps | Operations | Talks to | Model |
|---|---|---|---|---|
| **On-chain program** `apps/solana/programs/contract` | Config, Market, UserPosition and UsedNonce accounts, the treasury vault | `create_market`, `place_order`, `resolve_market`, `claim`, `close_position`, `close_used_nonce`, pause and unpause | emits OrderFilled, MarketResolved, Claimed | `SolMarketProgram`, `MarketLedger` |
| **Quotes and nonce sweeper** `apps/server/services/service.{quote-signer,nonce-sweeper}.ts` and the signing in `service.trade-orchestrator.ts` | Quote rows | sign and persist, mark consumed, sweep | program, Postgres | `QuoteLifecycle` |
| **Fill ingestion** `apps/hedger/ingest`, `db/cursor.ts` | BotCursor row and its copy in memory | live listener, poller, boot backfill | RPC node, hedge queue | `FillIngest` |
| **Hedger** `apps/hedger/hedger` | BullMQ jobs; Fill, Hedge and Exposure rows | enqueue, worker, permanent-failure callback, auto-pause, boot recovery | Redis, Polymarket, Postgres, program | `Hedger` |
| **Resolution** `apps/hedger/{resolver,reconcile,market-status}`, `apps/server` admin and fast resolvers | Market and ResolverState rows | detect, submit, redeem; recheck; mirror gamma; resolve by hand or by price | gamma, program, websocket clients | `Resolution` |
| **Trade orchestration** `service.trade-orchestrator.ts`, `service.trade-idempotency.ts`, `service.solana-trade.ts`, `controller.trade.ts` | idempotency keys in Redis, Fill and Hedge rows | Polymarket leg, on-chain leg, bookkeeping, on two paths | all of the above | `Trade` |
| **Inventory** `apps/hedger/inventory/liquidator.ts`, `service.inventory-netter.ts` | PlatformInventory rows | net a trade against stock, liquidate stock | trade orchestration, Polymarket | `Trade` |
| **Claims, withdrawals, deposits** `service.solana-claim.ts`, `service.solana-withdraw.ts`, `service.sol-deposit-poller.ts` | Claim and SolDeposit rows, user wallets | claim, withdraw, detect and sweep deposits, mint | program, RPC node | `CustodialFunds` |
| **Mirror** `apps/mirror` | reference counts, one WebSocket | follow the intent, subscribe, converge, refresh, close when idle | Redis, Polymarket | `BookFeed` (the user socket and the messages are not) |
| **Websocket fan-out and caches** `apps/server/socket`, `service.mirror-control.ts`, `service.*-cache.ts` | sockets, subscriptions, references, the intent SET | connect, subscribe, evict, touch, hydrate | Redis, clients | `BookFeed` (the caches are not) |
| **Listing** `service.approve-and-list.ts`, `controller.approve.ts`, `controller.reject.ts`, `auto-lister.service.ts` | Listing and Market rows | approve and reject, by an administrator or the auto-lister; create on chain; wire the tokens into the intent SET | program, gamma, mirror | `BookFeed` (status and intent), `SolMarketProgram` (`create_market`); the copying of metadata is not |
| **Accounts, OTP, comments, bookmarks, news; web; packages; infrastructure; the older Anchor program `apps/contract`** | single rows, or none | create, read, update, delete | | not modelled |

One fact runs through several modules. `send_with_fee_payer`
(`src/packages/contract/src/client.ts:432-452`) awaits the confirmation of a
transaction and ignores its `value.err` (447): a transaction that passed its
preflight and failed on chain counts as a success for every caller, except the
withdrawal service, which looks (`service.solana-withdraw.ts:158`). The callers
that go through it are modelled so: `QuoteLifecycle` (a row is consumed without
a fill), `Trade` (`failed`), `CustodialFunds` (`ClaimProcessed`, `ConfirmClaim`,
`short`) and `Resolution` (`mistaken`). The deposit poller does the same with its
sweep and its mint (229, 336-340). Properties of those modules say exactly what is
left true.

### What is hard in it, and what makes each part correct

- *Program.* A transaction is atomic, but instructions arrive in any order.
  Every signed quote with a random nonce fills at most once; totals, positions, vault
  and events agree; a resolution fixes what each winner is owed.
- *Quotes.* The program closes a nonce account without looking at the quote's
  expiry. That a closed nonce cannot be used again rests on the sweeper's clock,
  its buffer, the chain's clock and the expiry check of `place_order`: four parts
  in two processes.
- *Ingestion.* Several transactions share a slot, signatures arrive newest first
  and cut off by a limit, the websocket drops silently, the process stops
  between memory and row. No fill may fall behind the cursor unnoticed.
- *Hedger.* A job may run more than once (retry, stall, redelivery, boot), each
  await may throw, and the order at Polymarket is not idempotent. Every
  share traded is accounted for, every job ends, and exposures add up.
- *Resolution.* Resolver, reconciler, poller, administrator and fast resolver
  each read, await and write, with no lock and no condition on the
  write, while gamma may change its mind. Nobody is told to claim an outcome that
  the chain does not pay, and the market settles in the end.
- *Trade.* Two legs that cannot be one transaction, attempts of one request that
  meet on a Redis key with a lifetime, rows that three writers may be first to
  write, stock that two processes take from, orders that fill more than was asked
  or after their caller has given up. Every share is counted once or known to be lost,
  a reply never contradicts the chain, and rows have a size that was filled.
- *Custodial funds.* A send may throw and land all the same, now or much later.
  The poller and `check_now` work on one wallet, and the vault that pays a claim is
  shared with every market. USDC is minted against SOL that was swept, who is told
  "done" was paid, and a failure does not block the wallet: each under premises that
  the properties spell out, because the code needs them.
- *Feed.* Interest is counted on the server, made durable in Redis, counted again
  in the mirror, and framed in a connection that reopens on a timer; nudges are
  lossy, a converge works on an old reply, a write of the intent may fail unnoticed, and
  listings write it past the counts. The intent follows the interest from the server's
  next good write on; what stays in the intent is streamed in the end, what stays out of
  it is let go.

`PROJECT.json` (`hazards`) lists these at the lines where they bite.

## 2. The modules

| Module | What it is |
|---|---|
| `SolMarketProgram` | one action per instruction, over accounts |
| `MarketLedger` | abstract specification: a log of fills, one resolution, one payout per holder |
| `QuoteLifecycle` | EXTENDS the program; server, sweeper and two clocks; implements `MarketLedger` |
| `Hedger` | BullMQ queue, worker, rows, Polymarket, crash and boot |
| `FillIngest` | history, listener, poller, cursor, crash and boot |
| `Resolution` | gamma, chain, two rows, five actors |
| `Trade` | requests and their attempts, Polymarket, the chain, keys, rows, the netter and the liquidator |
| `CustodialFunds` | one wallet: deposit checks, withdrawals, claims, and what becomes of their transactions |
| `BookFeed` | sockets and references, intent and nudges, the mirror's registry, connection and timers |
| `MCQuoteLifecycle`, `MCHedger`, `MCTrade`, `MCCustodialFunds`, `MCBookFeed` | model values and bounds for TLC (the other two modules take theirs in the .cfg) |
| `QuoteLifecycleProofs`, `HedgerProofs`, `FillIngestProofs`, `ResolutionProofs`, `TradeProofs`, `CustodialFundsProofs`, `BookFeedProofs` | theorems about the module each is named for |
| `SumTheorems` | theorems about sums over finite sets, for the three of them that need such sums |

A definition whose comment starts with "Mutant of" is a plausible bug, next to
the definition it alters; no specification uses it. `PROJECT.json` (`mutants`)
pairs each with the property that it breaks.

### Correspondence

**SolMarketProgram.** `market`, `position`, `usedNonce`, `vault`, `usdc` are the
accounts; `fills` and `claimed` are the event log. An action's guard is the
conjunction of the handler's checks in the order that matters; a failing
transaction leaves no trace and is no step. Arithmetic is the code's checked u64
arithmetic with `U64_MAX` a constant: an overflow disables the instruction. The
abstractions are three: account, PDA, owner and signer checks mean "the right
accounts are passed"; the ed25519 check means `q \in signed`; Borsh is not
modelled.

**QuoteLifecycle.** `SignQuote` is `sign_quote_internally` with `persist_quote`
(a request-id nonce is derived again, with a fresh expiry, and the row keeps the
first one); `MarkQuoteConsumed` is the update after `place_order` has returned,
which it also does for a transaction that failed on chain; `Due`, `Batch`,
`SweepClose`, `SweepRecord`, `SweepInterrupted` are `sweep_once`. `wall` is
the server's clock, `clock` the chain's, at most `MaxClockSkew` apart.

**Hedger.** One step per await of `HedgeProcessor.handle` (`pc`), so that jobs
interleave and any await may throw (`AttemptFails`). `jobState`, `attempts` and
`stalls` are BullMQ's; `attempts` counts failures and not stalls, which is
what `handle` sees in `attemptsMade`. `bought` is what Polymarket really
traded. A Polymarket order trades any part of its size, and a BUY, sent as a
dollar amount, up to `Improvement` shares more. An UnrecoverableError
(`polymarket-client/src/client.ts:399-409`) fails the job for good whatever attempts are
left, and boot may throw in the middle of its corrections of the exposures.
`unrecorded` and `clean` are history variables.

**FillIngest.** A signature is a position in `history`. `cursor` is the copy in
memory, `row` the BotCursor row. `Newest` is `getSignaturesForAddress` with its
`until` and `limit`; `Dispatch` is `process_signature` up to the cursor;
`Advance` and `Persist` are the two halves of `Cursor.advance`. `threw` and
`unseen` are history variables.

**Resolution.** `state` is the ResolverState row, `market` the Market row's
status and winner (a PAUSED row is "UMA"), `chain` the Market account,
`announced` the outcomes published with `claimable: true`. `pc` and `seen` hold
where each actor stands between two awaits and what it read. A handler of the
server has no loop: it may start whenever the row is unresolved. A landed
transaction whose answer is lost is part of `SendResolve`. `mistaken` is a
history variable: outcomes whose transaction failed on chain and was taken for a
success. `MaxDisturbances` bounds changes of gamma, throws and stops together.

**Trade.** `path` is the orchestrator's method that `process` calls. The
controller at this commit calls `execute_trade_no_hedge`
(`controller.trade.ts:64`), the other path being complete and a line away; both
are checked. `key` is the request's Redis entry, `pc` an attempt's next await,
`cand` what the netter has read and `netted` what it got with its conditional
update, `leg` the shares of its own order. A BUY is sent as a dollar amount
(`polymarket-client/src/client.ts:308-320`), what it bought is not capped (378-385)
and `assert_filled` has no upper bound: a leg may exceed what was left to order by
`Improvement` shares (`Excess`), as in `Hedger`, and that is what is signed, filled
and written. An order that timed out, threw or was cut off by a stop may have traded any
part all the same (`FillViaPolymarket`, `Crash` with `Orderable`). `sent`, `landed`
and `failed` are the attempts' transactions. The nonce comes from the request id, so
one attempt fills while its `used` account is open; once the sweeper has closed that
(`SweepNonce`, when `quote` is consumed) a later attempt may fill the request again.
`fillRow` and `hedge` are written by the server and, in `HedgeFill`, by the hedger; the
latter's own excess is in `Hedger`. `liq` is one tick of the liquidator, whose reverse
order may have traded when the row is given up (`Abandon`). `position`, `unrecorded`
and `lapsed` are history variables: every share traded on Polymarket, those of
them that no row and no attempt knows of (less those a row counts although they were
traded back), and the requests whose key expired under a running attempt.

**CustodialFunds.** A transaction is sent and then lands, fails or expires as an
action of its own (`SweepProcessed`, `TransferProcessed`, `ClaimProcessed`),
whatever its sender has concluded meanwhile. `rows` are the SolDeposit rows with
the fate of each sweep; `pc`, `amount` and `mine` hold where each check stands and
what it has read. `wpc` and `cpc` are the next step of a call, then its answer. A mint
may fail on chain and count as done (`MintUsdc`). The cool-off ends by `createdAt`
alone, however far the row is (`CoolOffEnds`). A claim may begin before the chain
has resolved the market, while it is still traded (`TradeShares`,
`ResolveOnChain`): the service does not look at the status
(`service.solana-claim.ts:301-303`). It may fail on chain with shares left, as
`claim.rs:133` does when the vault runs short; the vault is not a variable here, so
that this happens at any time. `paid`, `traded`, `short`, `overlapped` and `late` are
history variables: what was paid, and whether one of the four things has happened that the
properties exempt.

**BookFeed.** Both processes are event loops, so a handler up to its next await
is one action. `Publish` is the MULTI of SADD or SREM with its nudges; it may fail, which
is only logged (`BeginTracking`, `EndTracking`). The mirror gets nudges and SMEMBERS
replies on two connections, in order on each (`HandleMessage`, `ReadIntent`,
`Converge`). `listing` and `reviews` are the calls of the administrator and of the
auto-lister that approve or reject a market: status read, status written, tokens put into
the intent or taken out of it (`ReviewStarts`, `ReviewWrites`, `ReviewWires`), with a
throw or a stop between any two. `astray` is a ghost: the tokens whose last write failed or
came from a listing. `frame` is what the open connection
was subscribed to: the registry may move ahead of it until `RefreshFires` closes
the connection and the reconnect sends a new frame. A frame is sent on open, and
a token taken off the registry stays in it until then, as in the code.

## 3. The runs

| Run | Instance | What it shows |
|---|---|---|
| `quote_lifecycle` | 2 users, 1 market, one random and one request-id nonce, 2 signed quotes, 2 fills, clocks to 4 one second apart, expiry 1, buffer 1, batch 2 | `FillOnce`, `TotalsMatchPositions`, `VaultMatchesEvents`, `ClaimsConserveWinnings`, `RentReclaimed`, and `LedgerSpec`: the chain's event log implements `MarketLedger` |
| `quote_sweep_settles` | the same | finding 1: `ClosedRowsSettle` is violated |
| `hedger_fill` | one BUY of 2 shares that the server records too, 2 attempts, 1 stall, 2 crashes, 2 walk steps, 1 forgotten job | `TradesAccounted`, `CompletedIsTerminal`, `OrdersOnlyWhileHedging`, `TerminalIsFinal`, `JobsFinish` |
| `hedger_market` | a BUY of 2 and a SELL of 1 on one market, concurrency 2, 2 attempts, no crash | `ExposureSettles` |
| `hedger_double_execution` | one BUY, 1 crash | finding 2: `NoDoubleExecution` is violated |
| `fill_ingest` | 3 transactions in up to 2 slots, backfill limit 2, 1 crash | `NothingLeftBehind`, `CheckpointNeverRegresses`, `FillsDelivered` |
| `fill_ingest_throw` | 2 transactions, 1 crash | finding 3: `ThrownFillStaysAhead` is violated |
| `resolution` | both kinds of market, the three loops of the hedger and the administrator, 2 disturbances (changes of gamma, throws and stops together) | `ClaimableMatchesChain`, `DatabaseNeverAheadOfChain`, `SettlesOnChain`, `MarketRowSettles` |
| `resolution_settled_row` | STANDARD market, resolver, reconciler and poller, 2 disturbances | finding 4: `SettledRowFinal` is violated |
| `trade` | one request of 2 shares sent by 2 attempts, either path, either side, an orphan row of 1 share, liquidation cap 1, improvement 1, 1 fault (a crash, a key that lapses under an attempt or a transaction that fails on chain) | `SharesAccounted`, `InventoryUsedOnce`, `NoParallelAttempts`, `RepliesTruthful`, `RowsMatchChain` |
| `custodial_funds` | 2 checks, 2 withdrawals, 2 claims of up to 2 winning shares, 1 USDC at first, 2 SOL, 2 calls in all, 1 fault, rate 3/2 | `MintFollowsSweep`, `AnswersTruthful`, `ClaimRowMatchesPayout`, `WalletNotBlocked` |
| `book_feed` | 2 sockets of one user, 1 token that REST calls ask for and a listing names, 1 subscription each, 1 review, 2 nudges and 1 reply under way, 1 fault | `RefsMatchSockets`, `IntentMatchesInterest`, `RegistryServed`, `IntentIsStreamed`, `OthersAreReleased` |

Each passing run also checks its module's `TypeOK`.

**Why these bounds.** They are the smallest at which the case a property is about
happens. Two fills and two quotes let a replay, an oversold position and two
claims occur; two clocks to 4 let a quote expire, be swept and be tried again with
either clock ahead; batch 2 with two rows makes one stuck row visible. Two
attempts separate a first attempt from a retry and from the last; two crashes
separate a stall from one stall too many; price 99 with two shares makes
rounding matter. Three transactions in two slots give two that share a slot and, with limit 2, one
beyond the limit. Two disturbances are a dispute and its end, a flip, a
reopening, or one of them with an actor that stops at any await. The fast
resolver takes the administrator's steps on FAST_MOVING markets only, so a run
with the administrator contains its behaviours; with both servers
the state space grows and the theorems, which hold for any set of servers, cover it.
Two attempts are a retry, a parallel call, a key that expires between them and a
second fill after the nonce was swept; two shares against a row of one make netting
cover a part of the request, and a cap of one is met exactly. Both sides are checked,
because a BUY overfills and a SELL does not, and the liquidator trades the reverse;
an improvement of one is enough to pass a size and a budget. The two interchangeable
attempts are a symmetry, and the run has a VIEW (`Books` in `MCTrade`): states are one
when they differ in nothing that a step or an invariant can still tell apart. That
is `position` and `unrecorded` but for their difference, which only
`SharesAccounted` reads; what the netter read, once it is through; the leg of an
attempt that is over and cannot land; and the answer of one that is over, once
`RepliesTruthful` holds of it, because fills and failures are never taken back.
The services of a wallet meet in the user's USDC, in the SOL and in the Claim row, each
of them a matter of two calls; with one USDC at first two withdrawals race for it; the
rate 3/2 makes the integer division round.
A second socket of the same user evicts the first. One token suffices for the feed's
properties, which are about one token each; what several tokens add in the code, the
subscribe on an open connection and the refresh, the one token reaches by leaving and
coming back. Two tokens do not fit the time (twelve million states and growing), and the
theorems cover any number of them. One review at a time is checked with liveness; its call
interleaves with everything else, and the safety part holds with two as well. A failed
SREM moves the mirror's count without bound, so failed writes are counted as
faults. Two nudges and one reply let a reply be older than a nudge handled before it.
Runs with liveness use no symmetry.

**Deadlock.** `fill_ingest` and `book_feed` are checked for deadlock. The other
runs switch the check off because their systems really stop: clocks and counters
reach their bound, all jobs end and are removed, a market is redeemed, every
call of the bounded number has been answered.

**Fairness.** It is stated per module and is as weak as the scheduling in the code.
`QuoteLifecycle`: the clocks advance, and the hourly sweep takes each row that
stays due; users, signer and oracle owe nothing. `Hedger`: the worker pulls
jobs (strong fairness of `Dequeue`, as a slot may come and go), each await
returns or throws, the stalled check is a timer, and pm2 restarts a stopped process
(`ecosystem.config.cjs`). `FillIngest`: the interval ticks, the
process is restarted, and an RPC node that fails now and then answers in the end
(strong fairness of `Dispatch`); nothing is asked of the websocket, nor of the
write of the cursor's row. `Resolution`: time passes, and the timers of resolver
and poller fire; nothing is asked of the reconciler or of the server.
`BookFeed`: timers fire, the event loops run, Redis and Polymarket answer, and the
server comes up again; nothing is asked of clients, keepalives or faults. Opening,
closing for a refresh and reconnecting exclude each other and share one WF.
`Trade` and `CustodialFunds` state safety only. Failures are
bounded in every module, so the liveness results say: if failures stop.

## 4. Findings

1. `service.nonce-sweeper.ts:95` says that an account closed externally is
   marked done. The program's error matches neither string the catch
   looks for, so the row is retried for ever (`quote_sweep_settles`).
2. `hedger/processor.ts:81-83` says that the terminal check protects against double
   execution after a worker crash. A stop after the order and before the row's
   update orders the whole fill again; the client order id that 299-301 rely on is
   never sent (`hedger_double_execution`).
3. `db/cursor.ts:67-70` says that a thrown handler does not move the cursor.
   `ingest/poller.ts:163-178` moves it all the same (`fill_ingest_throw`).
4. `reconcile/index.ts:88-90` says that a market submitted to Solana is final. The
   reconciler writes from a list read before an await on gamma, with no condition
   on the stage, and reverts or flips a row that was resolved in between
   (`resolution_settled_row`).

What else was met while modelling, and is in the models without a run of its own:

- *Claims.* A claim that passed its preflight fails on chain when the vault, shared
  with every market, runs short before it is processed (`claim.rs:133`). The service
  then writes the Claim row, answers done, and locks the user out with
  ALREADY_CLAIMED, nothing having been paid. The comment at
  `service.solana-claim.ts:141-146` calls the row "authoritative evidence".
  `AnswersTruthful` and `ClaimRowMatchesPayout` fail without their `~short`.
  The row is also wrong, and the payout right, when the position is
  traded between the read and the resolution on chain (`~traded`). A failed read
  makes a claim answer NO_WINNING_SHARES (185), against the comment at 170-175.
- *Deposits.* `check_now` may run next to the tick
  (`service.sol-deposit-poller.ts:83-90`): both pass the in-flight test and USDC
  is minted twice. `MintFollowsSweep` fails without its `~overlapped`. The
  cool-off counts from `createdAt`: a sweep that is sent late outlives it, and lands when a
  second row is already sweeping the same SOL (`~late`). A mint that fails on chain leaves
  its row COMPLETED with no USDC minted: its confirmation's value is ignored
  (336-340), and `withdraw_usdc` may have created the account that it creates
  (323-326). A stop, a throw of create or a failed write of FAILED leaves a
  row that blocks the wallet (hence `faults = 0` in `WalletNotBlocked`).
- *Withdrawals.* A withdrawal may answer RPC_FAILED and land.
- *Hedging first.* `solana.place_order` has inserted the Fill row before
  `persist_fill_and_hedge` runs, which nearly always meets it;
  its transaction is then undone and the hedger hedges once more
  (`service.trade-orchestrator.ts:753-764`, 311-321). An orphan made only of netted shares hits
  the unique `polymarketOrderId` and is swallowed; a failure of `persist_quote`
  after the Polymarket leg loses the hedge; a netting that throws loses rows it has
  claimed; an order that timed out may still fill; a BUY may fill more than
  was asked for, and all of it is signed. These shares go to `unrecorded` in the
  actions that lose them: `SharesAccounted` shows such losses and does not rule
  them out. A failure of `complete` turns a success into an error, and a `release` that
  throws leaves the key pending until it expires.
- *Nonces of request ids.* After the sweep a later attempt of the same request fills
  it a second time, and that fill has no row: Fill, Quote and job are keyed by
  the nonce.
- *Liquidator.* A row above the cap per tick is skipped for ever; a throw after
  the claim leaves it claimed, also when its order had traded, so that the row counts
  shares that were sold; a partial fill is recorded as the whole row.
- *Quotes.* A consumed row whose order failed on chain has no nonce account: the
  sweeper retries it for ever, as in finding 1.
- *Resolution.* The poller's fast path says that the resolver loop publishes on a
  retry (`market-status/poller.ts:311-312`), and the resolver publishes nothing;
  the poller promises re-open detection for resolved rows (146-150), which
  `is_terminal` excludes once a winner is known.
- *Feed.* Listings nudge the mirror past the reference counts. A rejection takes the
  tokens out of the intent although sockets hold them (`controller.reject.ts:65`); an
  approval puts them in for nobody, and nobody gives them back. The comment at
  `controller.approve.ts:77-79` expects a failed approval to be repeated or hydrated, but
  an approved listing answers 409, and hydrate empties the intent
  (`service.singleton.ts:100-103`). A failed SADD or SREM is only logged
  (`socket.subscriber.ts:132-137`, 148-153): a watched token stays unfollowed, or an
  unwatched one followed, until the next write about it. `IntentMatchesInterest` fails
  without its `astray`. After failed SREMs and converges the mirror's count
  of a token may be above the server's.
- *Feed*, seen and not modelled: after a
  restart of the server a token that the mirror still streams sends no new "book"
  message, so the book cache stays partial (`service.book-cache.ts:41-45`); an
  unsubscribe while reconnecting starts no idle timer (`socket.market.ts:121`).

## 5. The proofs

Every safety property that a passing run checks is a theorem, and so is the
refinement of `MarketLedger`. All theorems hold for any value of the constants
that satisfies the module's named `ASSUME` (`ProgramAssumption`,
`LifecycleAssumption`, `HedgerAssumption`, `IngestAssumption`,
`ResolutionAssumption`, `TradeAssumption`, `FundsAssumption`, `FeedAssumption`).
These are typing and finiteness (users, markets, fills, requests and stock are
finite sets of any size), except for one: in `LifecycleAssumption` the clock skew
is at most the sweeper's buffer, and `FillOnce` is false without it. Each proof
module has an inductive invariant `IInv`, in one piece or in parts with a step
lemma each, and the results as consequences.

- **SumTheorems**: balances, totals, exposures and holdings are sums over finite
  sets, computed by the fold `SumFunctionOnSet` of the community module `Functions`.
  The fold is a recursive function on subsets that picks its next element with
  `CHOOSE`. That the recursion has a solution (`IterUnfolds`) and that the order
  does not matter (`SumRemove`) is proved by induction on cardinalities. The library's
  induction theorems take an operator as a parameter, which the provers
  cannot instantiate; induction is therefore stated with a set, from the minimal element
  of a well-founded order (`NaturalsByInduction`, `SubsetsByInduction`). The
  models are proved with the consequences: `SumSame`, `SumGrow`, `SumChange`,
  `SumOnPart` and, for a step that touches one element, `SumMoves`.
- **QuoteLifecycleProofs**: `TypeCorrectness`, `FillsAtMostOnce`,
  `WinningsConserved`, `LogMatchesPositions`, `LedgerRefined`, `TotalsSound`,
  `VaultSound`. `FillOnce` is not inductive: once the sweeper has closed a
  nonce nothing on chain remembers the fill. `FilledIsSpent` says that a filled quote's
  nonce is still on chain, or the quote has expired by the chain's clock. The sweep
  keeps it because the row carries the quote's expiry (`RowCarriesExpiry`: a
  random nonce is signed once) and the server's clock is at most the skew ahead
  (`SkewBounded`). A request-id nonce is excluded: its row keeps the first
  expiry while a second signature carries a later one.

  `LedgerRefined` is the refinement of `MarketLedger`, action by action: program,
  server, sweeper and clocks map to `Sign`, `Fill`, `Resolve`, `Pay` or a stutter.
  The program knows positions and the ledger only its log, so that the guards of
  `Fill` (no overselling) and `Pay` (the winning shares, once) need an invariant that
  relates the two: `PositionsMatchLog` (theorem `LogMatchesPositions`). Before the
  resolution a position is what the log adds up to; afterwards its winning side is, or it
  has been claimed in one piece, and what `close_position` may forfeit is only the losing
  side. `TotalsSound` and `VaultSound` follow the same steps for a market's totals and
  for the vault; they need that a market not yet allocated has sold nothing
  (`UnallocatedEmpty`) and that only a resolved market has a winner.
- **HedgerProofs**: `TypeCorrectness`, `AllTradesAccounted`,
  `CompletionIsTerminal`, `OrdersNeedHedging`, `TerminalStays`, `ExposureSound`. The worker's step
  fixes what the job, the row and the shares traded can be (`StepMatchesRow`); a
  job in hand has attempts and stalls left (`BudgetLeft`); the failure callback and
  a worker never hold the same job (`CallbackAlone`), without which the callback could
  fail a row under a running order. `ExposureSettles` speaks of the end only; in
  between, a fill has added nothing, its whole size, or its size less what was filled,
  depending on the worker's step (`ExposureMatches`). Which of the three is read off the
  row and the number of attempts, and that works only while nothing has interrupted a
  job (`CleanShape`): a retry finds HEDGING and must not add the size again. Both
  invariants were checked by TLC on the hedger's runs before they were proved.
- **FillIngestProofs**: `TypeCorrectness`, `NoFillLeftBehind`,
  `CheckpointMonotone`, for histories of any length. The batch is cut from a
  contiguous history (`BatchCovers`), its head is handled before the cursor moves
  (`HeadHandled`), and the row is never ahead of memory (`RowBehind`).
- **ResolutionProofs**: `TypeCorrectness`, `ClaimableIsOnChain`,
  `DatabaseFollowsChain`. What an actor holds may be stale with respect to gamma
  and both rows, but never with respect to the chain, whose winner is written
  once (`ActorsHold`). An outcome in `mistaken` is the one exception, and the property
  names it.
- **TradeProofs**: `AttemptsDoNotOverlap` (`KeyInv`: a running attempt's key is
  pending or has lapsed), `InventoryIsUsedOnce` (`InventoryInv`: a row that an attempt
  holds is marked netted, one the liquidator holds is claimed, whatever they had
  read before), `RepliesAreTruthful` (`AnswerInv`: what an attempt's step says of its
  transaction), `RowsFollowChain` (`RowsInv`, on top of the three: an attempt that
  confirmed has a fill of the shares it holds, though others may have filled before it
  and after it). `TypeCorrect` includes that no attempt nets more than its request asks
  for or holds more than that and a BUY's excess, and `SharesAreAccounted` that every
  share traded is in one place or in `unrecorded`. Both need to know when an attempt can
  have shares at all (`LegShape`: none before it nets, a leg only after it, none on the path
  without a hedge, and no Hedge row before a Fill row), and that the rows an attempt has
  netted keep their shares while others claim, liquidate and insert theirs (`HeldKept`).
  Each action then moves one row (`LooseMoves`), one attempt (`FlightMoves`), one Hedge row
  (`HedgeMoves`) or several of these, and the two sides of the account change
  alike. `NothingOverfilled` is a consequence that no run lists: every fill on chain, the
  Fill row and the Hedge row of a request stay within its size, or for a BUY within
  its size and `Improvement`, however many attempts wrote them.
- **CustodialFundsProofs**: `TypeCorrectness`, `MintsAreSwept`, `NoWalletBlocked`,
  `AnswersAreTruthful`, `ClaimRowIsEvidence`. Of the deposits the invariant says who
  works on a row (`RowOwned`) and that, while no two checks overlapped and no sweep
  outlived its cool-off, a check past the in-flight test is the only one with a sweep under
  way (`Alone`); without it two rows could sweep the same SOL. `WithdrawInv` and
  `ClaimInv` follow a transaction from its send to every answer; `ClaimInv` says what a
  claim that has read shares may still find of them, as long as none failed for want
  of money and nobody traded.
- **BookFeedProofs**: `TypeCorrectness`, `RefsAreSockets`, `IntentIsInterest`,
  `RegistryIsServed`, for any number of sockets, tokens, listings and reviews. Neither
  process reads the other's variables, so the invariant has a half per process
  (`ServerInv`, `MirrorInv`).

**Model-checked only.** Liveness under fairness is out of the prover's reach:
`RentReclaimed`, `JobsFinish`, `FillsDelivered`, `SettlesOnChain`,
`MarketRowSettles`, `IntentIsStreamed`, `OthersAreReleased`. The four violations of
section 4 are TLC's as well; a theorem cannot state them.

## 6. What is not modelled

- Listing: the passes that copy Polymarket metadata into Market and Listing rows and
  choose what to list. Its status, its calls and their effect on the feed are in
  `BookFeed`, `create_market` is in the program.
- The web front end (`apps/web`), by far the largest part of the repository:
  components, pages and stores of one browser. No other part depends on its
  state, and its calls are inputs of the models above. Together with metadata
  types, route tables and static data it is most of the lines that no module covers.
- The contents of the feed: the caches of books and prices, the fan-out of
  messages, the mirror's user socket. They hold no state that settles money.
- Accounts, OTP, comments, bookmarks, news: operations on single rows.
- Shared packages: clients, modelled as their callers use them.
- The older Anchor program, infrastructure and scripts.
- Inside the modelled parts: log decoding is reduced to whether a transaction holds
  a fill; the cursor's connection timestamps, `append_note`, the
  reconciler's stuck-hedge log and all logging are left out; the recorded round
  prices behind the fast resolver are an arbitrary outcome; the vault starts with a
  float, and token transfers made outside the program's instructions do not occur;
  prices, spread and exposure limits of a trade decide only whether its preflight rejects;
  `execute_solana_only` and `link_to_fill`, which nothing calls, the deprecated
  place-order controller, `try_close_position` after a claim and the creation of
  token accounts are left out; a wallet's USDC is spent by withdrawals only, and not by its trades.

## 7. Plan

Done, in this order: the program and its quotes, the hedger, fill ingestion,
resolution, trades with the inventory, custodial funds, the order-book feed. Left:

1. **Composition of `FillIngest` and `Hedger`**: an abstract specification "every fill
   that lands is hedged or reported", with the ingester's enqueue as the producer's
   input, and refinement from the two modules.
2. **Listing**, with the Listing row's stages against `create_market`.
3. **Violation runs** for the comments of section 4 that have none: a claim on a short
   vault, `check_now` next to a tick, `persist_fill_and_hedge` on an existing row, the
   failed read of a claim, an approval whose wiring failed.
4. **Proofs**: with restarts, what boot recovery makes of the exposure
   (`ExposureSettles` excludes them through `clean`), and the composition of item 1.
