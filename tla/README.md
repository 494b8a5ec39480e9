# PolyLambda: specifications, model checks and proofs

PolyLambda quotes both sides of prediction markets. A Python engine estimates a
dispute hazard and a volatility, prices a bid and an ask, and keeps them standing -
on a Solidity market contract on Polygon Amoy (testnet), on Polymarket's order book
behind a live gate, or on paper. Around the engine sit a risk governor, an indexer
of UMA dispute events, batch programs that scan the chain for disputes and release
them as a data set, replays of past sessions, and a web application that shows all
of it and can start and stop the engine.

This directory specifies the parts of it that hold state across calls, threads,
transactions, files and restarts. TLC checks every module on small instances; TLAPS
proves the main theorems for all values of the constants.

## 1. Inventory

| component | state it keeps | operations | what makes it hard |
|---|---|---|---|
| `contracts/PolyLambdaMarket.sol` | standing quote, disputed/resolved/yesWon, shares per user, totalYes, collateral | fund, postQuote, buyYes, sellYes, flagDispute, resolve, redeem, withdraw | any caller, any order; checked arithmetic that reverts for good once counts drift |
| `execution/risk.py` | counters of the UTC day, error breaker, exposure, ledger file per day, kill file | allow_tx, record_*, mark_*, kill, unkill, status | day roll without a lock, replay after a crash, web threads |
| `execution/testnet_chain.py` | nonce, connection | send (one resend on a nonce race, receipt wait), snapshot, traded_logs, head_block | lost answers, late mining, nodes behind others |
| `execution/testnet_clob.py` | snapshot cache, pending sides, last_posted, scan cursor | get_book, place, _flush_quotes, _poll_fills, flag_dispute_for | stale snapshots, a transaction in doubt, reorganisations, exceptions after the cursor moved |
| `execution/clob.py` | notional reserved by the session, USDC.e allowance | place_order, cancel_orders, wrap_usdce_to_pusd | an order accepted while its answer is lost, a tick that moves in mid-call |
| `execution/loop.py` | inventory, cash, quotes per market | tick, run_loop | fills of a tick against sizes computed before it |
| `execution/paper.py` | resting paper orders, print cursor | place, cancel, step | prints that share a timestamp, one print filling several orders |
| `execution/testnet_keeper.py` | thread, stop event, equity marks, session log | run, start_background, stop, kill, status | start and stop from several threads, a tick that raises anywhere, a crash in mid-record |
| `execution/proposal_feed.py` | last disputes, refreshing flag | get, background refresh | a flag only the worker clears |
| `indexer/src/EventHandlers.ts` | Market, ResolutionRequest, RequestIndex, Dispute | one handler per event | two strikes, late settlement, keys shared by one block |
| `recon/check.py`, `estimators/hazard.py` (pull), `data/disputes.py` (labels) | pages pulled so far | paged queries with retries | rows inserted in mid-pull |
| `data/disputes.py`, `data/negrisk_map.py` (scans) | windows, block-time cache | scans for the tail, the export, the cache, the map | window boundaries, refused ranges, endpoints that fail, crashes between checkpoints |
| `data/export_disputes.py`, `data/disputes.py` (load), `data/base_rates.py` | disputes.parquet, stats.json, disputes.json | export, load_disputes, category rates | three files, three sources, one frozen denominator |
| `forwardtest/session_log.py`, `ablation.py` | one log file per day | append, read, split into arms | torn lines, midnight, restarts into the same file |
| `forwardtest/replay_ablation.py`, `replay_full.py`, `pricing/quote.py` | sums per arm, equity per day | replays | several sums that must agree, markets that span different days |
| `webapp/backend/live.py` | tail with its thread, caches of the index's answers | scan, stop, resume, status, disputes | spawn racing stop, a feed that changes hands |
| `webapp/backend/cache.py`, `services.py`, `precompute.py`, `routes.py`, `main.py` | lru caches, merged explorer, artifact files | loaders, refresh, daily batch, live rebuild, start, stop, kill | loads in flight over a refresh, writers of one file, autostart racing shutdown |
| other estimators, other data loaders, config, scripts, frontend | none, or one file | pure or one-shot | floating point, batch I/O |

How they interact. One keeper thread runs `run_loop` over the testnet adapter: each
tick reads books (snapshot cache, chain), places both sides, flushes at most one
`postQuote` per market, polls the `Traded` events and applies the fills. Every
signature passes `allow_tx` before and `record_tx`/`record_error` after, and what
happened goes to the session log. The web server's threads start and stop the keeper,
call the governor's `status()`, create the kill file, and serve the explorer and the
artifacts. The daily workflow remakes the artifacts on a runner of its own and commits them; they reach the server with a deploy. A batch on the server rewrites them in place. Users, the operator
and reorganisations act on the chain at any time. The indexer only listens; its
readers page through it. The scans read the chain directly.

What makes each component correct: the contract's share count is exact and no share
is paid twice; the governor's budgets survive midnight, restarts and threads; the
adapter knows the quote users trade against, or knows that it does not; each trade
moves the inventory once; a live session never commits more than its cap; one keeper
at most signs, and a stop stops it; the index joins every dispute with the market it
belongs to, and whoever reads the index or the chain gets each dispute once; the
dispute rate is that of its window; a session read back is the session that was; what
the dashboard shows becomes current again after any failure.

## 2. Modules

| module | models | state and actions |
|---|---|---|
| `PolyLambdaMarket` | the contract | one variable per storage field, one action per external function; `Pull` and `Push` are the USDC transfers, and a function that reverts is an action that is not enabled |
| `RiskGovernor` | `risk.py` with its callers | counters, disk (ledger, kill file), clock, one program counter per thread. A day's file is what its ended lines add up to and, after a crash, a torn line. `_roll_day` is five steps, recorders are counter then write; everything else is one step |
| `TestnetClob` | quotes of `testnet_clob.py` with the `send` of `testnet_chain.py` | EXTENDS `PolyLambdaMarket`: the keeper's cache, pending sides, `last_posted` and its one transaction on the wire, beside the contract and trading users |
| `FillScan` | `_poll_fills`, `traded_logs` and the fill application of `run_loop` | a chain that reorganises, nodes that lag, the cursor per market, events in the poll, exposure and inventory |
| `PaperLive` | `PaperLiveClob` of `paper.py` with its fill model | the exchange's clock and tape, what the API shows of it, the cursor, resting orders with their queues; `step` is a read of the tape and one match per order |
| `PaperClob` | `PaperClob` of `paper.py` | EXTENDS `PaperLive`: the orders are the same, a step is a batch of synthetic prints |
| `QuotingLoop` | `run_loop` and `tick` of `loop.py` | EXTENDS `PaperClob`: over either adapter, one iteration is step, fills, and a tick that holds, exits or replaces the quotes |
| `LiveOrders` | the gated write path of `clob.py` | the gate and the client it guards, reservation, exchange, the call under way and its back-off counter, the wrap |
| `CapitalBound` | abstract | what a live session promises: its exposure only grows up to the cap, or a new session begins |
| `KeeperLifecycle` | `start_background`, `stop`, `run`, `_ensure`, `get_keeper`, the routes that call them, autostart and shutdown of `main.py` | one place per caller and per keeper thread; a shared field is read or written in one step |
| `ProposalFeed` | the background refresh of `proposal_feed.py` | the flag, the thread, the chain's disputes before and beyond the confirmations, the newest of them that a scan answers, the labels found and those remembered as missing |
| `LiveTail` | the tail's scan threads in `live.py` | the request that flags, adds and starts a thread, which the system may refuse; the stop that lists, joins and clears; the resume |
| `Indexer` | `EventHandlers.ts` | a store `db` that each handler is an operator on; an action is a transaction of the adapter or oracle, applying the handlers of its events in log order |
| `IndexerReaders` | the paged pulls of `recon/check.py`, `data/disputes.py`, `estimators/hazard.py` | EXTENDS `Indexer`: one page is one query, answered from the index as it then stands, with the rows of one key in any order; what was pulled keeps its copies |
| `DisputeScan` | the scans of `data/disputes.py` and `negrisk_map.py` over JSON-RPC | head, windows, ranges pending, retries, rows, block times in memory and saved |
| `DisputeRelease` | `export_disputes.py`, `load_disputes`, `base_rates.py` | the export file by file, the three sources of the numerator, the table of rates |
| `SessionLog` | the session log, its writer and its reader | per day what the whole lines say, torn ends, the keeper's memory; the readers are operators on a file. Histories: what each market was last marked at, and the files a burst died in |
| `ReplayAblation` | `replay_ablation.py` | one action per market and per point of the grid, four arms |
| `ReplaySim` | `replay_full.py` with `pricing/quote.py` | events of a market under two arms, its equity per day, the portfolio's curve |
| `DisputeFeed` | the disputes explorer: `services.py` over `live.py` | the released layer, the index with its two caches, the tail, the merged cache, requests between fetch and merge |
| `WebCaches` | `cache.py`, `precompute.py`, the live rebuild of `services.py` | an artifact's file and its writers, the loaders' caches, injected denominators, the refresh, requests in flight; starts on the same disk and on that of a new image |
| `TestnetClobProofs` (with `PolyLambdaMarket`), `TradingProofs` (`LiveOrders`, `QuotingLoop`), `WebProcessProofs` (`KeeperLifecycle`, `FillScan`, `LiveTail`, `ProposalFeed`, `DisputeFeed`, `WebCaches`), `RiskGovernorProofs`, `IndexerProofs` (`Indexer`, `IndexerReaders`), `DisputeScanProofs` (`DisputeScan`, `DisputeRelease`), `ForwardTestProofs` (`ReplayAblation`, `ReplaySim`, `SessionLog`) | - | theorems and proofs |
| `SumProofs` | - | lemmas about sums over finite sets |
| `MC...` | - | instances for TLC |

Three kinds of composition are used.

- *Sharing state*. `TestnetClob` is adapter, signer and contract together: its `Mined`
  action runs `postQuote` or `flagDispute` of `PolyLambdaMarket` whole. `QuotingLoop` is
  loop and adapter, `IndexerReaders` index and readers.
- *Refinement*. `LiveOrders` implements `CapitalBound` under the mapping of `Cap` and `exposure`.
- *Side by side*. Components that share no state are put into one instance (`MCTrading`,
  `MCWebProcess`, `MCDisputeRecords`, `MCDashboard`). Its variable `part` says which of
  them a behaviour follows; the others keep their initial state. The states of such a
  run are the sum of those of its parts and every property is that of one part, so nothing is
  said about steps of two parts in turn. Where parts do meet, in a file or in a chain,
  the file or the chain is in the part that reads it.

An operator `X_word` beside an operator `X` is a variant of it with a plausible
defect. No specification uses one; they document which bug a property catches,
and putting the variant in place of the original breaks that property.

### Abstractions

- *Market*: prices are numbers of `1/ONE`, so that costs round as the code's integer
  division does. Category, lambda and sigma only go into events.
- *Governor*: of the ledger, replay reads four numbers, so the lines of a day's file are a
  record of four. A crash may leave the line it interrupts torn, readable if only its newline is missing;
  the next line is appended to it, and neither is read again. Lines whose flush returned survive: a process
  dies in the model, not the machine. Low POL and gross exposure are one Boolean each, set by the calls that
  set them. A send puts up to two transactions on the wire (`PerSend`) because
  `send` signs again after a nonce error.
- *Adapter*: time is left out. Whether the cached snapshot is within its TTL and
  whether the quote is too old is chosen at every use; a failed read serves the
  cache at any age. A web thread's `get_book` reads the chain and stores the cache in
  one step. The engine's account has one unmined transaction at most: a second one
  takes its nonce and is refused. The error counter is one Boolean, the breaker, that
  may open at any failure: how many failures it takes is `RiskGovernor`'s subject.
- *Quoting loop*: prices are left out. The depth ahead of an order is chosen when it is
  placed and the prints that reach it when they are compared, none reaching a bid and an
  ask. The random walk of the synthetic market is left out: how many prints a step has and
  which orders they reach is chosen. Whether the exit gate fires, how much it reduces, whether a quote can be computed,
  its size and how far the cap has shrunk are chosen at every tick.
- *Fill scan*: inventory and exposure are sums over fills and are kept as the bag of
  trades they sum. Trades come after the block that deployed the market, because
  they need a quote. A tick that raises, wherever it does, is `TickRaises`.
- *Live orders*: prices are integers in the finest tick. The calls are
  sequential (nothing else in the process calls them); a step is what happens
  between two answers of the network.
- *Keeper's life*: a tick is one step that may fail; what it does is the subject of
  the governor, the loop and the adapter.
- *Indexer*: any number of adapters, each of which asks at most once a block, while two may ask in the
  same one; `conditionId` is derived from adapter and question, so the question stands for it. Rows are
  ordered by market id, which is unique, or by a timestamp, which is not: of equal keys each query takes any order. The phantom rows NegRisk markets leave, and the values
  of finalOutcome and resolvedAt, are left out.
- *Block scan*: a block holds at most one dispute, and a log is a block and a question.
  Which request fails, and how, is chosen.
- *Release*: a scan is one step (how it pages and bisects is `DisputeScan` and
  `IndexerReaders`), and the price context of a dispute is left out.
- *Session log*: a file is what readers take from its whole lines. A write that fails
  by itself (a full disk) is left out.
- *Replays*: money is in fifths of a reward unit, prices are levels; the hazard, the jump
  and the horizon come from small sets. The logarithms of the quote formula are left out.
- *Proposal feed*: whether the lookback has passed a dispute and whether the cache is stale is chosen; a lookup
  of labels finds any of those it asks for. A scan answers in one step (its windows are `DisputeScan`).
- *Explorer*: a dispute is its position in time, and all its copies carry the key they are
  merged by. Time-outs of caches are chosen, except the day, which the freshness of the
  index is about.
- *Artifacts*: the content of an artifact is the version of the released layer it was made
  from. Artifacts share only the disk, so a behaviour follows one. The disk is the server's: a deploy
  puts there what the workflow had committed, of whatever version, and a batch that somebody runs on the server
  rewrites it in place. A live rebuild of the overview takes its counts by category from what is injected
  (`precompute.py:164` calls what `cache.py:209` put there), which for the overview is another artifact's:
  any version so far, or the published table.

## 3. Runs

| run | question | result |
|---|---|---|
| `trading` | contract: can any order of calls break the share count, reopen a closed market, or pay a share twice? paper: can fills between ticks, held quotes and a shrinking cap run the position away, leave an order behind, count a print twice or fill an order ahead of its queue? live: can lost answers, 429s, moving ticks or failed wraps take a session over its cap, or leave a call waiting? | no; on paper the base cap is passed by less than one order |
| `governor` | with the keeper as the only thread: do the counters follow the ledger, do the budget and kill file hold, and how many transactions does the budget not see? | all hold, but for a file whose torn line was written onto: its replay lacks up to two transactions that this process counts. Transactions the budget does not see are bounded by the breaker, and by two for each restart |
| `governor_web` | with a web thread beside it? | the budget can be spent once more per thread and midnight, not beyond; the open file is the right one once no roll is under way, when each roll is over by the next midnight |
| `governor_breaker` | does the breaker close on success? | no: it refuses the only call whose success would close it |
| `governor_survives` | can a tick end `run()`? | yes: `mark_equity` is outside the `try`, and a day roll of another thread closes the file under it |
| `testnet_quotes` | does the keeper know the quote users trade against, is the quote it keeps one it wanted, is it backed, and does doubt about it end? | yes, unless a postQuote is in doubt; the first trade after the snapshot is always backed; doubt ends unless the breaker opens, the market resolves, the collateral is used up, or restarts never stop |
| `testnet_redeem` | is a worst-case YES win always redeemable 1:1? | no: `maxTrade` bounds one trade, a standing quote serves many |
| `web_process` | keeper: can two keepers tick, a stop be missed, the governor that gates differ from the one that is fed, a shutdown leave a keeper? fills: do the books match the chain, and does every trade arrive? detector: is every final dispute noticed? tail: is there one scan at a time? | one keeper ticks, late by one tick at most; gate and feed agree unless a risk request overlaps the boot; a shutdown that finds the warm thread over ends the keeper for good. Fills: at most once always, exactly once unless an exception drops one. Detector: yes, unless newer ones or the lookback pass it, its label was once not found, or the system refuses a thread. Tail: yes |
| `dispute_records` | index: is every dispute recorded for its market and round, and read by its readers? scan: is every block answered once, are the rows exact, does the cache survive, does it end? release: does the rate stay what it was? log: is a session read back as it was? replays: are arms charged what they forgo, is the curve what the portfolio was worth? | yes, while no adapter initialises two questions in a block. Readers miss no row whose key is its own, and count a copy for each they miss; of rows with one key some may be missed. A log that a later burst reopened is read at its old `session_end` until that burst ends. A release from the index is not in the claim about the window (see `release_window`) |
| `dashboard` | explorer: does every dispute appear, once unless renamed? artifacts: does everything kept become current? | disputes appear, unless newer ones push them out of the tail or the thread of a scan was refused; artifacts become current, once the disk is left alone and refreshes go on: a fallback read from a torn file may stay until the next |
| `indexer_shared` | is every dispute joined when one block initialises two questions? | no: `RequestIndex` has one entry per timestamp |
| `release_window` | is every dispute of the numerator from the window of the denominator? | no, with `DATA_SOURCE=graphql`: the bound is in the query of the released layer only |

Two comments hold less far than they read. `risk.py:15-16` has the counters and the day's opening equity "survive restarts":
a crash in the middle of a line makes the next process write its first record onto it, and the replay after
that reads neither (`risk.py:83-86`, `:95`): up to two transactions are missing, or the opening equity is.
And `check.py:57-62` has a stable order for markets, whose ids are unique; the disputes (`disputes.py:643`) and
the controls (`hazard.py:244`) are still ordered by a timestamp that rows of different adapters share, and `check.py:91`
counts every copy of a row that was pushed onto the next page.

The five runs that end in a violation each state what a comment of the code or a
document promises; the findings in `PROJECT.json` quote it.

### Bounds, and why they are enough

- `trading`, contract: two users, amounts up to 3, prices in quarters. Two users are what
  the sum of shares and the pay-out of one user beside another need; with quarters, costs
  round. Paper: a cap of two with orders of one and two, so that an order can pass it; prints of
  one and two against a depth of none or two, so that a queue is used up by one print or in
  two steps; three prints in two seconds, so that a print can share the cursor's second,
  before or behind it; four order ids, two resting and two new. Live: cap 6 with notionals up
  to 8, two ticks so that a re-read moves the notional across the cap, two sessions.
- `governor`: two days give one midnight; two crashes tear a line, let the next process write onto it, and
  replay the outcome, which is the most one file can lose. A budget of two shows a spent and an unspent one,
  `Failures = MaxErrors = 1` saturates the error counter where it stops mattering. Equity is one value: the loss
  limit is not exceeded in the run, it only refuses more; the theorems have any equities. `governor_web` has one
  web thread and no crash: a budget of 2 shows the overspending it allows. Two days give one
  midnight, so every roll is over by the next. With three days a thread that stops between replay and
  open for a whole day puts the file of its own day back under a keeper that has rolled on: the
  claim is for rolls that end in time, and the theorem says so in its premise.
- `testnet_*`: one user, because the adapter sees only totals; collateral for two
  shares, so that a quote can use all, some or none of it; restarts are unbounded, trades are
  one, or four for the redemption question. Sides
  include a one-sided tick whose quote is within the debounce of the first.
- `web_process`, keeper: one client beside the warm thread and the shutdown, three threads and
  governors: two callers can be in `start_background` at once and a third thread be made
  after a stop. Fills: two markets (an exception in one drops the other's turn), one trade
  each, five blocks with two confirmations: a trade is mined, taken back, mined again and
  buried within them; one reorganisation deep and one block of lag add up to the
  confirmations, the assumption `DepthAssumption` under which the code's constant of 3 is
  meant. Detector: two disputes, one of a NegRisk market, and scans that answer one: the second pushes the first out. Tail: two requests, three scans: one
  running, one stopped, one resumed.
- `dispute_records`, index: three questions of two rounds each, two of one adapter and one of another that
  may ask in the same block, in four blocks. Readers: two of them, of different adapters, in three blocks, and
  pages of one row: rows of one key are lost between two pages, and rows are read twice, both of which happen. Scan: three chains of twelve blocks, with windows of four bisected
  down to one: rounds of a question apart and close, disputes on window and bisection
  boundaries and at the tip. Release: one dispute in the window, one at its end in a NegRisk
  market that has no category, one asked for in the window and disputed after it; two exports,
  so that one dies after another. Log: two markets, two days, two processes: one in each arm,
  one midnight, one restart into a torn file or into one that was closed; one fill. Replays: two markets over two days; one
  disputed twice, one NegRisk.
- `dashboard`: one market disputed twice with a tail of one row: the second dispute pushes the first out. Two requests
  at the explorer, so that one merges what it fetched after the other did. Rows under another name, of NegRisk
  markets, are in the theorem only (`ExplorerHonest`). Two versions of the layer, one crash of the batch or start of the process, one
  live rebuild, one request with its load in flight over a refresh.

Counters that the code lets grow without limit (restarts, days, blocks, shares ever
bought) stop at a constant named in the module's CONSTANTS, in the guard of the action that counts.

### Fairness

- `TradingSpec` (as `LiveOrders`): weak fairness of the exchange's answers and of the wrap -
  the HTTP client and the receipt wait have timeouts, so a call under way goes on.
- `WebSpec`: a keeper thread is scheduled and every call in a tick has a timeout (weak); a
  caller finishes the method it is in (weak), but nothing makes anyone call. The poll keeps
  stepping (weak), and a node that is up with the chain answers now and then (strong, for
  the head and each market's logs); nothing makes the chain grow or exceptions stop. Ticks go on asking the detector, caches expire (weak), and a
  scan that is tried again and again succeeds some time, its lookup of labels included (strong).
- `FairClobSpec`: a send ends and what is on the wire is mined (weak), though not always too
  late for the receipt wait (strong); ticks come again, standing quotes age, and a
  governor and node that admit sends again and again admit the keeper's some time (strong).
- `RiskGovernor`'s `FairSpec`: the keeper steps (weak) and, whenever sends are allowed again
  and again, one succeeds (strong). Even so the breaker does not close, as none is allowed.
- `RecordSpec`: every step of a scan (weak): its requests have timeouts and its pauses an end.
- `DashboardSpec`: days pass, caches expire, requests are served and come again (weak); a scan
  that is tried again and again succeeds some time with all names, and so does a merge
  (strong). Of the artifacts only what a thread has begun goes on (weak): a refresh clears all
  loaders, a request comes to its end. Nothing makes a deploy, a batch, a refresh or a request happen;
  `CachesHeal` has its premises in the property: a disk that is left alone, refreshes that go on, requests that inject.

The code promises more than that. `.github/workflows/refresh-data.yml:3-4` says the running app picks the daily
artifacts up "via POST /api/admin/refresh (no redeploy needed)", and `cache.py:181-184` that "a scheduled regenerate
(...) is picked up WITHOUT a process restart". But the workflow runs on a GitHub runner (`:29-30`) and commits what it made
(`:88-98`), the image copies the files when it is built (`Dockerfile:32-36`), and the refresh has the container re-read its
own, which are the same: without a deploy nothing changes. `CachesHeal` therefore speaks of the server's disk only.

## 4. Proofs

Sums first. `SumProofs`: a sum over a finite set exists, is that of the set without an element
and the element, and is the same for equal terms. The library folds over a set in the order of
`CHOOSE`; induction over data is out of the provers' reach as a principle, but not as an argument: a set
of subsets for which the claim fails would have one of least cardinality, and `NatLessThanWellFounded`
gives it. `CounterIsSum`, the position of the quoting loop and everything built on them rest on these.

`TestnetClobProofs`, the contract (every set of users, amounts, price unit and balances; from
`EngineAssumption`, `UsersAssumption`, `OneAssumption`, `MaxUintAssumption`, `FundsAssumption`):
- `TypeCorrect`: no count or balance goes negative, where the contract would revert.
- `OnlyUnwinds` and `PaidExactlyOnce`: the action properties of the `trading` run, from the
  type invariant.
- `CounterIsSum`: totalYes is the sum of the holdings while quotes can be posted. A step changes one holding,
  and the sum without that user stays what it was.

The adapter on that contract (every grid of prices, debounce and age limit, every number of trades; besides
from `PriceAssumption`, `SidesAssumption` (the loop passes a side inside the price range, with a size the
market may sell), `FirstQuoteAssumption` and `ClobBounds`: the collateral that `fund` escrows is the engine's own):
- `KeeperStepsAreTransactions`: whatever the keeper, its node, the chain and the users do is a step of
  `PolyLambdaMarket` or leaves it alone. So `ManagedMarketAccounted` and `ManagedMarketOnlyUnwinds` follow
  from the contract's own lemmas. The initial state does not map to the contract's, it is reached
  from it by funding and a first quote.
- `QuoteIsKnown`. The invariant (`WireKnown`) follows a transaction from the signature over the wire
  to the receipt: what the confirmed quote is when nothing is unconfirmed, what the one on the wire will
  make it, and that a copy sent twice carries the same quote.
- `DebounceIsHarmless`: an action property, from the same invariant.
- `QuotesAreBacked`. The snapshot in the cache, the one the sides were sized on and the quote on the wire are
  each backed by the escrow up to the shares bought since they were read; a trade moves all of them alike.

`TradingProofs`, the live path (every cap, size, price set, tick set and number of sessions; from
`CapAssumption`, `InputAssumption`, `SessionsAssumption`):
- `ExposureAlwaysReserved`, `AlwaysMakerSide`, `AllowanceAlwaysBounded`, `GateAlwaysHolds`, `TypeCorrect`.
  The inductive invariant is `IInv`: the type, the invariants, and
  `WrapWithinCap` (the wrap under way was checked against the cap). Without the latter
  `Approve` could raise the allowance over the cap; the others support one another -
  the release on a rejected tick keeps `spent` natural only because the order in
  flight is reserved. `AlwaysMakerSide`, `AllowanceAlwaysBounded` and `GateAlwaysHolds` are stated in no run:
  they are theorems only.
- `CapitalRefinement`: the live path implements `CapitalBound`. The step that takes
  an order maps to `Take`, which is within the cap by `ExposureReserved`; a restart maps
  to `NewSession`; all others stutter.

The quoting loop (every cap, set of sizes, number of order ids, prints and delays; from `PaperAssumption`
and `LoopAssumption`):
- `NoOrderLeftBehind`, `PositionStaysBounded`, `FillsStayHonest`, from one invariant, `QuotingInv`: what rests
  is listed, one order a side; the position, what the step has filled and not yet booked, and what rests add
  up to less than the cap and one order on each side; an order's queue, volume and fills fit the tape.
  The books are sums over fills and orders, kept by the lemmas of `SumProofs`.

`WebProcessProofs`, the keeper (every number of clients and keeper threads; from `LifecycleAssumption`):
- `OneKeeperAlways`: what is inside `run()` holds the lock (`Holds`), and a lock has one holder.
- `OneLateTick`: once a tick is late no thread is about to begin another (`Ticking`), because
  the thread that began it is the only one inside `run()`, and it reads `_stop` before the next.
- `GateAlwaysGovernor`: a governor that a clob holds stays the keeper's one, unless a request was
  seen between reading `_risk` and replacing it (`Governed`, `Seen`): `GateIsGovernor` says
  nothing of the places of the threads, which is where the race is decided.

The fill poll (every fleet, set of trades, depth of reorganisation and lag; from `TradeAssumption`,
`DeployedAssumption`, `FillBounds` and `DepthAssumption`, that the confirmations cover one reorganisation
and the lag of a node together):
- `FillsAlwaysMatchChain`. `FillInv` keeps, trade by trade, in which of the places a trade can be - not yet
  scanned, in the poll's events, booked, or dropped by an exception - and that it is in one only
  (`Placed`); that no block below a cursor can still be reorganised (`CursorsOK`, from the depth);
  and what a chain is (`ChainOK`).

The tail (every number of requests and scans; from `TailAssumption`):
- `OneScanAlways`: with the flag down no request is starting a scan and none is running; with it
  up there is one of them at most, and never both (`FlagOwned`). Stops and resumes do not
  touch what is behind the flag.

What the process tells its clients (from `FeedAssumption`: a layer, an index and a tail of finitely many
disputes in the order they happened; and `CachesAssumption`):
- `DetectorAlwaysSound`: the proposal feed scans once at a time. The invariant says exactly when the
  flag is up: while a thread is asked for, scans, or was refused by the system, and in no other case.
- `ExplorerHonest`, the safety half of `ExplorerHeals`. Each source has its own shape of a dispute, under its
  name or without one; every list, and every request between fetch and merge, holds only these,
  of disputes that happened (`GoodRows`). Of such rows two of one dispute cannot survive a merge but under two names.
- `NothingTornIsKept`: what a loader caches is the fallback or a version that was there, since a read of a
  file being written falls back (`ReadOK`), and a request in flight holds only such reads.

`RiskGovernorProofs` (every limit, gas use, set of equities, number of days, failures and restarts;
from `LimitsAssumption`, `InputsAssumption`, `BoundsAssumption`). The first four assume that
no web thread reads the same governor (`WebThreads = {}`); with one `KeeperSurvives` fails
(`governor_survives`):
- `CountersAlways`, `TxBudgetAlways`, `KeeperAlwaysAlive`, with crashes in the middle of a line. The inductive invariant `CountsInv` follows a
  roll and a recorder through their middle: the file is closed exactly while a roll replays it, so
  a recorder always finds it open (`RollInv`); the counters are the file's, or the file of the new
  day is still empty (`LedgerInv`: without it a replay could count a day twice); and what the
  gate saw still holds when the transaction is recorded (`BudgetInv`).
- `BroadcastsAlways`. `BreakerInv` charges what went out today to a record written or under
  way, to a restart, or to an error the breaker has counted since the last success (`Paid`), which
  alone bounds sends the budget never sees; a restart pays for two records, of the line it tears and of the
  one that is written onto that; and while a record is under way for another day
  than today, nothing has gone out today (`CallInv`).
- `KillAlwaysHalts`, for every set of web threads (from `ThreadsAssumption`): while the kill file is there
  a send that is under way is the first since it appeared (`KillInv`).
- `RollsAlwaysSettle`, for every finite set of web threads, when their rolls end by the next midnight
  (`RollsEndByMidnight`, a premise on the behaviour: the code has no lock to ensure it, and an entire day
  to do it in). `RaceSpend` gives each web thread one reset of the day's counters: `Room` is the budget
  the resets made so far allow, a thread still on its way to one is `Late`, and a reset that takes
  transactions off the counters adds as much room. That a thread can reset once a day only is what the premise buys.
- `OpenBreakerStays`, for every set of web threads: until a restart an open breaker lets nothing out, so nothing
  can succeed and close it. The one instance of `governor_breaker` is so the rule. `OpenInv` keeps that an
  admitted send found the breaker closed, and that nobody else records a success.

`IndexerProofs` (every number of adapters, questions and blocks; from `IndexerAssumption`, `NoneAssumption`
and at most one question of an adapter per block, which the `indexer_shared` run shows to be needed):
- `DisputesAlwaysJoin`, `LifecycleAlways`, `RoundsStayClosed`. The invariant adds that an entry of
  `RequestIndex` belongs to the question of the adapter that was initialised at its timestamp (`IndexSound`; a
  fresh timestamp per request keeps it, and it is why the join finds the right market) and that
  a question begun on the chain has its market, in the round of its strikes, and a live row
  (`QuestionsFollowed`; else a handler would return early and lose the event). First
  what each transaction leaves in the store is computed, handler by handler, then the invariant.
- `ReadersAlwaysMatch`, for every size and cap of a page and every order of equal keys. A table only grows, and
  its rows keep their keys (`KeyInv`: what the handlers leave of every row, question by question; `TableGrows`),
  so an insertion can only raise the position of the other rows. A row with a key of its own stands in the page
  exactly when its position does, whatever order the query puts the others in (`InitialPart`, `PageTakes`); `PagesInv`
  says that of what was there when the reader began all such rows that now stand before the offset have been
  pulled. Copies are counted separately: what was pulled is as many as the offset, which the table never
  falls behind (`CopiesInv`). What was pulled as settled was so on the chain, where that is final (`Right`).

`DisputeScanProofs` (every chain, range, window, depth, bisection floor, batch and pattern of failures; from
`ScanAssumption` and `ChainAssumption`, that a chain has the blocks of the model):
- `ScanTiles`: the windows tile the range and no block is scanned twice. The inductive
  invariant `TileInv` adds to the property that the pending ranges are nonempty, disjoint from
  one another and from what was answered (without it, answering one could repeat blocks of
  another), that together with the answered blocks they make up what is behind the cursor, and
  that none is pending between windows. One lemma per step that moves the cursor or splits a range.
- `CheckpointAlways`, from `CacheInv`: what is stamped and not saved is less than a batch.
- `RowsAlwaysExact`, from `TileInv` and `RowsInv`: up to the block that no reorganisation or lag
  reaches (`FinalTip`) the rows are the disputes of the blocks answered; at the end these are all blocks of the range.

The release (every history and snapshot; from `HistoryAssumption`, disputes in the order they happened, each
after its request, and `SnapshotAssumption`, of finitely many categories). `ReleaseInv` follows what was read from
the chain through the exporter's memory into the files and the cache, and says of each file when it is of
this export and when of an earlier one:
- `LayerStaysFrozen`: what a release of the chain and the cache hold is the window, without a premise.
- `RateStaysFrozen` (`RateFrozen`): so is what stats.json and the table of rates count, if the snapshot covers the
  window (`SnapshotCovers`: it has every market disputed by its cutoff, and some resolved market in the
  category of each and in `other`). The premise is needed: a market it lacks is joinable by no row but counted
  in stats.json, and a category without a resolved market drops out of the table. It is what the snapshot is
  made for (its cutoff is its last block), and the instance of the run satisfies it.
- `ChainKeepsWindow`: without the two steps that read the index (`ChainSpec`) the numerator stays in the
  window, so those two alone do what `release_window` finds.

`ForwardTestProofs` (every set of markets, label list, rate and grid, from `ReplayAssumption`; every tape,
size and bound of the full replay, from `SimAssumption`; every fleet and bound of the session log, from
`SessionAssumption`: a fleet is not empty, as `testnet_keeper.py` raises on an empty one):
- `AblationNet`: every arm's pnl differs from holding by what it avoided less what it forwent.
  The sums are kept by `Sum2`, so the identity of one market's replay, a lemma by cases on the
  arm, carries over to every partial sum, with the type of the sums as the strengthening.
- `AblationDominates`: a reward-aware exit is never behind the arm that holds.
- `CurveAlwaysWorth` (`CurveIsWorth`): the daily curve is what the portfolio was worth. `CurveInv` says of a
  market under way that the days of its tape never go back and that each arm's mark of a day is its
  equity at the last event of that day; `MarketDone` hands this on to the markets done. `CarriedIsWorth` then
  goes from the marks to the events: the greatest day marked until d is the day of the last event until d.
  What the quoter, the fills and the exits make of the equity plays no part, so the theorem holds
  whatever they do.
- `SessionAlwaysReadBack` (`SessionReadBack`), from `SessionInv`. `Owned` says that a process which has
  written a line owns the newest file, that this file is whole (the first line of a process takes the torn
  end with it, and that line is never a fill or a dispute, because a session header goes before them),
  and that what the process holds in memory, its traded markets and its count of disputes, is also in
  the file. `DiskOK` adds that a market with a mark other than 0 is named in its file, so the fallback
  of `_arm_rollup` leaves out zeros only. The equity of an arm follows line by line (`EquityHolds`): the ticks since the last
  `session_end` are the marks, or the file has one and a burst marked it since (`Unclosed`); a line that is lost was
  never a mark. `Counted` is the ledger: fills logged are fills in files, and disputes in
  files plus the one between its receipt and its record are at most, and without a lost record
  exactly, the transactions mined. One lemma per kind of record says what it changes of a file, and
  `SumsWritten` what that changes of the sums over all days.

Only model-checked:
- All liveness properties (`CallsReturn`, `DoubtEnds`, `TradesDelivered`, `DisputeNoticed`,
  `ShutdownEndsKeeper`, `ScanEnds`, `ExplorerHeals`, `CachesHeal`): fairness and ENABLED are
  out of the prover's reach. Every invariant and action property of the passing runs is a theorem.
- Recursive definitions, of which the modules with theorems have none: what one computes for
  every input would need induction theorems with operator parameters, which the provers do not instantiate.

## 5. Plan

Done: all modules above, in the order of what matters most to the system. Left, in order:

1. `PaperLive`: whether trades from before an order was placed should fill it; `placed_ts` is never read.
2. The polling views of the frontend, whose answers may come back out of order.

## 6. Not modelled

- Estimators (logistic fits, volatility, shrinkage, fair value) and the statistics of the
  forward tests (Sharpe ratios, bootstrap): real arithmetic without state between calls. The
  kappa table of `lambda_engine.py` is loaded once per process and no refresh reaches it:
  a stale read the cache model does not contain.
- `load_controls` from the released snapshot.
- The price context of disputes, market names, categories by text, the dataset card.
- The counter `n_disputes_witnessed` over more than one process, and log writes that fail by
  themselves.
- `build_markets`' estimates, the manual trigger file of the proposal feed, the random walk of
  the synthetic market, book, micro price and tape readers that parse one HTTP answer.
- Routes and services that only assemble JSON or compute scores from estimates, and the
  frontend that shows them.
- Slicing and download of HF tables (`data/cache.py`, `fills.py`, `hf.py` and the like),
  configuration, operator scripts: one-shot batch I/O.
- `append_market` and `load_fleet`: a file that a script writes while the keeper is stopped.
- A second concurrent request to one artifact: the module takes any number, the run has one.
- The ledger of a machine that dies: what it has written and not synced may be lost, with more lines than one.
- `withdraw` is modelled, but nothing is stated about winners who have not redeemed when
  the owner sweeps: the repository promises them nothing.
- What orders of an earlier session still have on the exchange: the cap is per
  session by the code's own comment (`resting` carries them over in the model).
