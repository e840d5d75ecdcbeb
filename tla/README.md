# TLA+ verification of bsc-mempool

`bsc-mempool` listens to the BNB Smart Chain mempool, finds the transactions of
watched wallets ("KOLs"), and copies their trades: on paper, with simulated
fills, and live, with a wallet of its own. This directory models the parts of
it whose correctness depends on order: which task did what first, what a crash
came between, which copy of a value was read before it changed. TLC checks the
models on small instances; the TLAPS proof system proves some of the results
for every value of the constants.

Paths below are relative to `src/crates/`; `trader/` is
`bsc-runner/src/trader/`; `docs/` and `config/` are the repository's own.

## 1. The system

```
 node IPC ─┐                       ┌─> kol_watch ──register──> ConfirmRegistry
 node WSS ─┼─> decoders ─> dedupe ─┤        │ fire                   ▲ remove / expire
           │   (bsc-bus pipeline)  └─ ...   ▼                        │
           │                       sinks: trader / private / live <─ kol_confirm <─ block headers
           │                                │          │
           │                        paper trader   live trader ── limits ── loss poller
           │                        budgets, book  execute / execute_exit
 curve logs ─> four_meme_price ────> adaptive trail ───┘   │
                                                       nonce manager ─> relays
```

| Component | State it keeps | Operations | What makes it hard |
|---|---|---|---|
| Sources (`bsc-sources`) | open subscriptions, hashes being fetched | hand an observation to a bounded channel with `try_send` | repeated, late and lost observations, full channel |
| Pipeline (`bsc-bus`) | raw and decoded channels, dedupe map with expiry, newest head | decode, deduplicate, stamp with the head, publish, sweep | a pool of workers reorders; the map forgets after a TTL |
| KOL watch and confirm (`kol_watch.rs`, `kol_confirm.rs`) | registry of pending trades, three bounded sinks | register then fire; remove on confirmation; expire | the consumer, one task per block and the sweeper race on the registry |
| Four.Meme price feed (`four_meme_price.rs`) | last price of each token, flow window of the last blocks | merge two log streams | order between streams, reconnects |
| Adaptive trail (`trader/adaptive_trail.rs`) | per token: entry, peak, arming, ring of prices | one observation per head; six exit reasons | exits that fail, state of an earlier position, arithmetic at thresholds, prices that never come |
| Live executor (`trader/executor_live.rs`, `trader/live_ledger.rs`) | position map, entries, per-token exit locks, open count | buy, finalise in the background, exit | a buy's finaliser, several exits, the chain and a restart interleave between awaits |
| Nonce manager (`trader/nonce.rs`) | atomic counter, file | reserve, resync, persist, boot | detached file writes, resync in two steps, crash before a write |
| Limits (`trader/limits.rs`, poller in `trader/mod.rs`) | counters of the day, halt flag; poller's baseline | check, record a trade, sync the loss | midnight between two steps, two tasks with different ideas of the day |
| Paper trader (`trader/paper.rs`, `kol_budget.rs`, `position.rs`, `ledger.rs`, `held_tokens.rs`) | budgets, book, held set, four files | enter, follow a sell, time out, save, restart | three locks and two tasks; a close works on a copy for seconds; saves fail or overlap |
| Dev sniper (`dev_sniper.rs`) | map of sniped tokens, trail state of each | detect a launch, buy, evaluate at each head, drop | detection and evaluation share the map in separate locks; logs and heads come on two streams; prices that never come |
| Capture and replay (`bsc-telemetry/src/capture.rs`, `replay.rs`) | active segment, segment files | append a record, rotate, finish, sweep, replay | any call fails or the process ends between two writes; the janitor works from what it read before |
| Strategy (`trader/strategy.rs`) | none | turn a hit into enter, exit or skip | modelled where the live consumer calls it |
| Lookups, Venus, DEX quoting, metrics, most of the wiring | see section 8 | | not modelled |

Components interact by channels (sources → pipeline → watch → traders), by
shared maps (registry, price cache, position map, budgets), and by calls (the
trail reads `position_snapshot` and calls `execute_exit`; the executor calls
`limits.check`, `nonce.reserve`, and spawns `finalize_position`). The processes
are tokio tasks on a multi-threaded runtime: anything may happen between two
awaits or two lock acquisitions, and nothing in between is assumed atomic.

## 2. Modules

Each component has a module `X.tla` (constants and their named assumptions,
variables, `Init`, one action per stretch of code between two awaits or under
one lock, `Next`, `Spec`, and the properties; the names carry a prefix, as in
`FeedInit`, where one module of proofs is about several components), a module `MCX.tla` that gives TLC
the values a cfg cannot write (sets of records, symmetry), and one cfg per run.
Definitions named "Mutant" in a comment are wrong variants of the one that
follows them; no specification uses them. They exist to show that a property
notices the bug they stand for.

**`NonceManager`** models `trader/nonce.rs` and its callers. `current` is the
atomic counter. `Reserve` is `fetch_add` and the spawn of a write; a write is
two steps (`OpenFile` truncates, `WriteFile` writes) because another write may
come between, and decimal text written over longer text leaves its tail
(`Overlay`). `ResyncFetch`, `ResyncLoad`, `ResyncStore` are the three accesses
of `resync`. `Crash` forgets the counter and the writes under way; `BootFetch`
and `Restart` are the stretches of `NonceManager::new` before and after its
await, between which the chain moves on. The node is external: `PendingCounts`
are the answers it may give, which count the mined transactions and the pending
ones, also those that other programs sent from the wallet (`outside`,
`ForeignTx`); `Mine` moves the wallet's transaction count.

**`LiveExecutor`** models `execute`, `BgPrep::finalize_position` and
`execute_exit`. An entry is an object of its own (`gen`, one per buy), because
tasks hold an `Arc` to it after the map forgot it. `BuyStart … BuyRecord` are
the stretches of `execute` with the duplicate-entry guard, the limit check, the
open-position counter (`BuyCount`) and, after one more await, the insertion;
`BgReceipt … BgConfirm` those of the finaliser with its give-ups; `ExitStart …
ExitCount` those of `execute_exit` with the per-token lock, the fast path (cached
amount), the slow path (balance read, approve), the write-back (`ExitUpdate`) and
the count. `halved` counts the partial sells that were counted as closes.
A submission is accepted, refused, or refused and mined all the same
(`Outcomes`). Pending transactions of the wallet are one queue, mined in order,
each successfully or not. `Graduate` moves a token from the launchpad to
PancakeSwap. `Crash` empties the process and keeps the chain. `setting` is what
the process was started with: whether it broadcasts, and whether the trail is
the only caller of `execute_exit`.

**`AdaptiveTrail`** models `step`, `compute_vote_signals` and the watcher
around them for one token (all maps are keyed by token, and `on_block` waits for
its tasks). Prices are natural numbers, thresholds percentages, and comparisons
are multiplied out, so that nothing is rounded. `Tick` takes a head;
`InitOk`/`InitFails` are `init_state_from_ledger`; `Observe` and `NoPrice` are
`process_one_position`; `ExitSold`/`ExitFails` are `fire_exit`, which forgets
the state either way.

**`ReadyPosition`** is the contract between these two, seen from the watcher and
for one token: a position becomes ready at most once, only while no other is
ready and no exit is under way; the watcher exits one ready position at a time;
an exit leaves the position or takes it away; a restart forgets everything.
Both modules instantiate it with a refinement mapping and claim it as
`KeepsTrailContract`. `LiveExecutor` maps `view` to the ready entry in the
position map, `exiting` to an exit of the token under way and `future` to the
entries whose finaliser may still make them ready; `AdaptiveTrail`, where the
executor is only its effects (`Open`, `ExitSold`, `ExitFails`), maps them to its
position and its task. So the executor the trail's properties assume is one the
real executor behaves as, and conversely.

**`Limits`** models `LimitsRuntime::check` and `record_trade_fired` as the
consumer calls them, and the poller of `start_live_only`: `PollBoot` (the
baseline), `PollRead`, `PollNoPrice`, `PollDecide`, `PollSync`. `Midnight`
moves the clock; `WalletMoves` the balance. `check`'s gates that look at the
trade alone are one nondeterministic refusal.

**`PaperTrader`** models the consumer and the sweeper of `trader/paper.rs` over
budgets, book and held set, each under its own lock, and the files. A budget
save is a snapshot, a write to the temporary file and a rename, each of which
may fail or meet the other task's; a close reads its position, prices it,
credits the budget, saves, writes a row, updates the book, saves, and releases
the held token (`CloseStep`). `Restart` reloads the files and rebuilds the held
set. `tokenless` are the positions whose fill came to zero tokens, which
`close_one` skips. Quotes are the set of their outcomes. A failing write is a bounded fault
(`Fault`), whichever file it hits.

**`Pipeline`** models sources (`IpcEvent`, `WssHash`, `WssFetched`,
`WssMissing`), the decoder pool (`Decode`, `HandOver`), the dedupe stage
(`DedupeFresh`, `DedupeDuplicate`), its janitor (`Sweep`), and the head state.

**`KolConfirm`** models `kol_watch`'s consumer (`WatchRegister`, `WatchFire`),
`kol_confirm`'s block tasks (`Seal`, `BlockStep`), the sweeper, the bus
subscription with its lagging ring, and the sinks. The live trader's sink is a
queue of bounded length with its consumer behind it (`LiveConsume`: take a hit,
decide as `Strategy::evaluate` may, call the executor unless the trail owns the
exits); the other sinks are the record of what was sent (`sent`, `dropped`).

**`FourMemePrice`** models `run_loop` and `TokenStats` for one token: two
streams merged with a `select!` biased to the buys (`IngestBuy`, `IngestSell`),
lost connections, and the flow window. `logs` is what the node sends: the logs of
the trades and, when the chain replaces its head block (`TakeOff`), those of its
trades once more as removed ones, which the feed takes for further trades
(`decode_trade_buy` does not look at `log.removed`). On top of it stands the price lookup of
the trail watcher (`Lookup`, from `get_latest_price_cached` down): the cached
price while it is fresh, else the V2 quote, else a scan of the curve's logs since
the last observation; `Graduate` moves the token off the curve.

**`DevSniper`** models the detection task (`Detect` up to the duplicate guard,
`BuyFails`, `Insert`) and the trail loop (`NextHead` takes the snapshot and
starts a task per position; `NoPriceYet`, `FirstPrice`, `Step` are the ways
through `process_sniper_position`, `Remove` its last lock). Blocks are relative
to the loop's newest head, so a position has an age, negative while the loop has
not reached its block and saturated at the hold limit. What `step` makes of a
price is `AdaptiveTrail`'s subject: here it exits or keeps as it likes, but for
the timeout.

**`Capture`** models `CaptureWriter` (`Recv`, `Rotate`, `FinishOld`,
`AppendRecord`, `Finalize`, `FinishLast`), the janitor's `sweep_directory` as one
step per file (`SweepStat` … `SweepEnds`), and the process around them (`Start`,
`Ends`). A segment is what the encoder was given, as a sequence of length and
payload chunks, and how much of it is in the file; a call may fail at any place
and leave a part. What `ReplayReader` may return for a file is a set computed from
the segment (`Replays`): the records in their place (`Found`), and behind a torn
one whatever the bytes out of place decode to (`Misread`, `Outcomes`). The clock
ticks several times a second: names and rotations count whole seconds
(`UnixNow`), the janitor's ages do not (`TooOld`).

**`Sums`** is the one helper several of these share: the sum of a function over a
finite set.

`PROJECT.json` maps every definition that models code to its lines.

## 3. Runs

Every property has a mutant in `PROJECT.json` that TLC refutes under the same
cfg.

| Run | Checks | Shows |
|---|---|---|
| `nonce` | `ReuseNeedsOverlapOrLoss`, `SkipNeedsOverlapOrLoss`, `StartBelowOnlyForeign` | A nonce is handed out twice, or left out below the counter by the wallet's every user, only after a reservation fell inside a resync's load/store window or a crash lost the newest write; late writes, digit boundaries, foreign transactions and ignorant nodes are not enough. A start begins below a mined nonce only where another program used it. |
| `live` | `OversellNeedsSlowOrLanded`, `FastExitStaysValid`, `NoEntryOrphaned`, `TrailNeverSlow`, `OpenCountIsHeld`, `KeepsTrailContract` | Pending sells never exceed the balance unless the slow path or a "refused but mined" sell is involved; the amount a fast exit read is still right when it writes back; an entry that is being finalised or holds tokens is never removed or replaced by a second buy, unless a slow exit sold the token; with the trail on, no exit is slow; the count of open positions never exceeds the held tokens, the buys and full closes between their count and their map write, and the entries whose balance was misread; partial sells alone put it below that, and with the trail on it is exact; the executor implements `ReadyPosition`. |
| `live_skipped` | `SkippedIsFinalizing` (violated) | A PancakeSwap buy ends its finalisation unapproved; the trail then skips its entry for ever, the timeout included. |
| `trail` | `TracksThisBuy`, `GainsProtected`, `ExitReasonsHold`, `RingIsWindow`, `HeldIsEventuallyExited`, `KeepsTrailContract`, `TypeOK` | Watcher state belongs to the open position; what is kept was allowed to be kept, for every price path; the reason of an exit holds of all prices observed since the position was opened, also those before an exit that failed and dropped the state; the ring is the window; a held position is eventually offered for sale, even without prices; the watcher implements `ReadyPosition`. |
| `limits` | `TradesWithinCap`, `HaltSticks`, `DrainEventuallyHalts` | A day sees at most one trade over the cap (its check came before midnight); a halt is lifted only by a new bucket or a restart; a lasting drain halts. |
| `limits_wiped` | `HaltLastsTheDay` (violated) | A halt that the poller sets just after midnight is still in yesterday's bucket, and the first check of the day wipes it. |
| `paper` | `CommittedAccounted`, `HeldMatchesBook`, `FilesMatchWhenIdle`, `RestartBetweenCloses`, `EveryPositionCloses` | Money is conserved between budgets, book, CSV and work in progress, and memory and files agree, except in the named situations (a stale copy, interleaved updates, failed or overlapping saves). Every position that holds tokens is closed, if only by its hold timeout. |
| `pipeline` | `RepublishNeedsTTL`, `AcceptedIsPublished` | A transaction is published again only when the previous publication is older than the TTL; an accepted observation is never lost or blocked for ever between the channels. |
| `confirm` | `RegistrationsAccounted`, `DoubleReportNeedsRaceExpiryOrReorg`, `ConfirmedSellIsFollowed` | Each registration ends exactly once; a pending trade is reported as private only after a race, an expiry or a second block; a sell that a block task scans leads to an exit call, unless the trail is active or the sink was full. |
| `feed` | `WindowMatchesLogs`, `OnlyRemovedCountTwice`, `GraduationCaught` | A drained feed holds exactly the logged flow of the last traded blocks; late, misordered or lost logs never make it count too many buys, and a reorganisation makes it count those it took off twice, none more often; once a token has left the curve and the cache is stale, the trail observes at most one more curve price, and one more for each exit that failed and started the state again. |
| `sniper` | `EvaluatedIsMapped`, `HoldBounded`, `EverySnipeEnds` | The exit of a position never drops a newer one of its token; at most `2 * max_hold_blocks - 1` heads leave a position in the map (its own limit may pass before the first price starts the trail's clock); every position leaves the map, also a launch nobody buys. |
| `capture` | `ReplayMatchesAcked`, `TruncationNeedsFastRestart`, `EvictsOldestExactly`, `AgeSparesRecent` | Whatever fails and whenever the process ends, replay returns what the writer acknowledged in its order, anything else only behind a torn record, and exactly all of it for a finished segment without one; only a restart in the second of the last start overwrites records; a sweep evicts the oldest files and no more than it must; the age rule spares records younger than `max_age - rotate_secs`, although the encoder holds the file's time back and a rotation is due by whole seconds. |

Every module states its `TypeOK`. The `trail` run checks one; the others are left
out of the runs' properties where a theorem proves them or a deeper property
would fail with them.

Several properties have the form "X, unless Y". Y is always a history variable
that names a situation the code really gets into, and dropping Y gives a
property TLC refutes; section 7 lists these.

### Bounds

Bounds are constants in guards (`Max…`), declared with the comment "bound".

* `nonce`: two tasks (a race needs two), three reservations (one of each task
  and one after a restart), one crash, one foreign transaction, first nonce 8, so
  that 9 → 10 is crossed.
* `live`: one token (entries, locks, balances are per token), one consumer, two
  concurrent exits, two buys (re-entry), at most four buys, exits and crashes
  together, started in the shadow phase or broadcasting with the trail on or
  off; in the shadow phase the wallet starts with tokens of an earlier run, the
  only way there is anything to sell. `MaxOpen` is two, the number of buys
  (3.6 million states).
* `trail`: five blocks, hold timeout four, ring of three, two positions, so that
  the ring wraps, the state of a first position can outlive it, and the timeout
  is reached. Blocks saturate at the bound: the watcher may then take the last
  head again, which stands for later heads. `Open` is guarded so that the
  timeout fits.
* `limits`: two days, one restart, a loss limit that the wallet can just lose.
* `paper`: two KOLs on one token (the held set is per token, budgets per KOL),
  two entries, one followed sell besides the sweeper's closes, one restart, one
  failed write, at most three of these together; an initial budget of three
  units makes a second position round down.
* `pipeline`: two good transactions and an undecodable one, two workers,
  channels of one (the decoded channel is full while a worker holds the other
  transaction), three observations, clock to two at TTL one (an expiry).
* `confirm`: a buy and a sell, two blocks (a reorg), TTL one, live sink and bus
  of one (both overflow), the trail off (on, the consumer leaves every exit to
  it).
* `feed`: window two, blocks 0..4, three logs, one replaced head block (all its
  trades are taken off, so there may be a log or two more), one disconnect, one failed
  exit, a cache that is stale after one block: a graduation in block one or two
  leaves room for a stale cache, the scan and the lookups after it. Three blocks
  with a trade move the window; a trade, its removal and another trade of the same
  block count three in one entry (1.5 million states).
* `capture`: two records, segments of one second, two ticks a second and two
  seconds (an age between whole seconds occurs, and so does a rotation within a second
  of the opening), one failing call, one restart, one sweep, retention and age
  that one record or one rotation exceeds, one record made up of bytes out of place
  (3.1 million states).
* `sniper`: two tokens, two positions (of one token or of both), hold limit
  three, logs up to two blocks ahead of or behind the head or without a block
  number, heads up to two apart.

Symmetry is used for tasks, tokens and exits in runs without liveness, where
nothing distinguishes them. Deadlock checking is off where the bounds end every
behaviour (nonce, live, paper, confirm, feed, capture) and on elsewhere.

### Fairness

* `trail`: heads keep coming (the watcher resubscribes for ever), tasks run on
  (weak fairness), and the node does not fail every receipt lookup for ever
  (strong fairness of `InitOk`). No fairness of prices or of successful exits:
  the property holds through the timeout and asks only for the offer.
* `limits`: the interval ticks (weak), and not every balance read or price
  lookup fails from some point on (strong).
* `paper`: clocks and the sweeper's interval tick and tasks finish what
  they began (weak). Nothing is assumed of signals or of what a
  quote returns.
* `pipeline`: some worker takes what is queued and the dedupe task runs (weak);
  a waiting sender gets its turn (strong), because tokio's channel queues its
  senders in order. Nothing is assumed of the sources.
* `confirm`: a block task whose header arrived goes on to its end, or fails (its
  requests have timeouts), and the live consumer returns from each call; both
  weak. Nothing of the bus, of `kol_watch`, of the sweeper or of the chain.
* `sniper`: heads keep coming (the loop reconnects for ever) and evaluations end
  (the price lookup has a timeout); both weak. Nothing of logs, buys or prices.

## 4. Proofs

Eight modules `X_proofs.tla` hold theorems, checked by TLAPS from the named
assumptions on constants only (`ConstantsAssumption`, `TokensAssumption`,
`TasksAssumption`, `NamesAssumption`, `PricesAssumption`, `PctAssumption`,
`BoundAssumption`, `ConfirmAssumption`, `SniperAssumption`, `FeedAssumption`,
`CaptureAssumption`). The bounds are
ordinary constants there, so the results hold for all of them.

* **`LiveExecutor_proofs`**: `TypeCorrect`, `FastExitsStayValid`,
  `EntriesStayInTheMap`, `TrailSellsFromTheCache`, `NoOversell`, `OpenCountExact`,
  `ContractKept`, for any finite set of tokens and any number of exits, buys,
  restarts and pending transactions. `TasksAssumption` says that there is one
  task that buys: the consumer handles one signal after the other. The invariant
  has layers, each inductive given those before it. `Flow` ties the pending sells
  of a token to a running sum over the queue. `Shape` says who holds which mutex,
  which buy an entry belongs to, and that past the duplicate-entry guard the map
  has nothing for the token. `Cache` is the core: while a fast exit is between its
  read and its write-back nobody else touches its entry, for exits share the
  mutex, finalisers touch an entry only before it is approved, and the guard drops
  only entries that are fully exited. `TrailExits` makes the trail's exits fast.
  `Wallet` needs an argument over time that no single step shows: the wallet's
  transactions are mined in order, so the sells pending while a buy is not yet
  usable were all sent before it (`SellsBeforeBuy`) and are gone when the
  finaliser reads the balance it caches; hence what is cached is in the wallet
  besides what is being sold (`Covered`). `OpenCountExact` counts who is between
  the counter and the map: a buy that raised it and has not inserted its entry, a full
  close that wrote its entry back and has not lowered it. `ContractKept` is the refinement of
  `ReadyPosition`, for each token and step by step: which steps change what the
  watcher is shown, and that the entries that can still become ready only get
  fewer.
* **`PaperTrader_proofs`**: `TypeCorrect`, `Accounted`, `HeldExact`,
  `FilesMatch`, `RestartCovered`, for any KOLs, any finite set of tokens
  (`TokensAssumption`), sizes and bounds. `Shaped` says what a task has in hand at
  each step. `Fresh`: as long as no close worked on a stale copy, the position of
  a credited close is no smaller than its copy and no two credited closes are of
  one position. That is what makes the saturating subtraction of `credit_close`
  exact: the positions cost at least what the credited closes take, so committed
  funds cover the slice (`CommittedCovers`). `Accounts` is the balance itself.
  A position filled with zero tokens is skipped by a close and stays in the book at
  its cost. `HeldLayer`: a task about to insert or remove a token is right about the book,
  and is alone with that token. `Files`: at most one task saves the budgets at a
  time, its copy is the budgets unless someone else is due to save, and the
  temporary file is that copy when it is renamed. `Behind`: the budgets on file
  are behind by no more than the entry that is saving its reservation, and the
  positions file is ahead of the book only for a close on its way to
  `save_book`. `RestartCovered` combines `Accounts` and `Behind`: the cost of the
  restored positions is at most that of the book, which the committed funds on
  file cover.
  The cost of a KOL's positions is a sum over a set (`Sums_proofs`).
* **`Limits_proofs`**: `TypeCorrect`, `CapHolds`, `HaltSurvives`,
  `HaltOfTodaysBucketLasts`. The cap needs `Counted`: a bucket of today has
  counted all trades of today but the one that passed its check before midnight,
  and a bucket of an earlier day leaves at most that one out. The last theorem is
  the complement of the run `limits_wiped`: a halt raised when the bucket is
  already today's does last the day.

* **`NonceManager_proofs`**: `TypeCorrect`, `ReuseConditions`
  (`Spec => []ReuseNeedsOverlapOrLoss`), `StartsAboveOwn`. "Not reused" is
  not inductive: the invariant adds, as long as neither overlap nor loss
  happened, that every nonce handed out lies below whatever the next counter
  value can come from: the counter itself, the snapshot of a resync under way,
  the newest reservation's write and, once that write is in the file, the file.
  `OverlayGrows` shows that a late writer can only make the file's number larger.
  The same invariant gives `StartsAboveOwn`: when a start has the node's answer in
  hand, what the chain took since is the process's own, hence below the file's
  number, or another program's.
  `SkipConditions` (`Spec => []SkipNeedsOverlapOrLoss`) adds that the same values
  have only reserved nonces below them (`FillInv`). For the file this needs
  `TextInv`: no number written so far has more digits than the newest one
  (`OverlayNoLonger`), so that the newest write leaves exactly its own number
  (`OverlayExact`).
* **`AdaptiveTrail_proofs`**: `TypeCorrect`, `TracksCurrentPosition`,
  `GainsAreProtected`, `DumpIsNeverEarlier`, `ReasonsHold`,
  `RingMirrorsWindow`, `TrailImplementsContract`. Lemmas say
  what one `step()` does to the state (the peak is the larger of old peak and
  price; no reason to exit means the price is above every floor that applies),
  and the invariant ties state, task and position: a state in the map is that
  of the open position, its ring slots are never above the peak, and a task that
  is exiting carries the state its reason was computed from. The ring bound is
  what makes the dump comparison work: 30 % below some slot is 30 % below the
  peak. `ReasonsHold` compares the state, which a failed exit drops, with the history
  variable `top`, the highest price observed since the position was opened: the
  state's peak and flags are never ahead of it, and after a failed exit the reason
  of the next is computed from a state that has started again. It holds for all
  percentages. `RingMirrorsWindow` rests on
  `BackSlots`, the arithmetic of the circular index (d + 1 steps back from the
  advanced index are d steps back from the old one, and another slot as long as d
  is less than a turn), and on what pushing a price does to the window
  (`PushedWindow`). `TrailImplementsContract` is
  the refinement: `ContractInit` maps the initial states, `ContractStep` every
  step to a step of `ReadyPosition` or a stutter. It needs that the open
  position's number is the number of buys so far (`Numbered`), so that the next
  one is new, and that a task in its exit has a position to exit (`InExit`).
* **`Signals_proofs`** is about the two modules that turn chain events into
  trades. `KolConfirm`: `EveryRegistrationEndsOnce`, `DoubleReportsExplained`. The
  second needs `KeptUntilScanned` (a taken trade is registered until a block task
  meets it or the sweeper expires it) and `PrivateHasReason` (a private hit was
  sent by a block task that found nothing). `DevSniper`: `SniperTypeCorrect`,
  `RemovalHitsItsOwn`, `HoldIsBounded`. The first two share an invariant on the
  map: a mapped position is filed under its own token, a task under way belongs to
  a mapped position, and while detection is past its guard its token has none. The
  third counts: before the first price a position was kept at no more heads than
  its age; after it, at no more than the hold limit plus the age of its trail, and
  the trail's age is below the limit whenever it is kept. It needs `MaxHold >= 2`:
  a smaller hold limit lets the head of the first price exceed the bound.
* **`Feeds_proofs`** is about what comes in and what is kept of it.
  * `Pipeline`: `PipelineTypes`, `RepublishAfterTTL`. The invariant says that
    until the TTL of its last publication has passed a transaction has that
    publication's entry in the map (`EntryKept`), so a fresh insert means that
    the TTL has passed.
  * `FourMemePrice`: `FeedTypes`, `RemovedBuysCountTwice`, `WindowIsLoggedFlow`,
    `GraduationIsCaught`, for any window, staleness limit and number of blocks,
    logs and reorganisations. `FeedBase` ties the streams to the logs: each holds logs
    of its kind in the order they were sent, the cached price is that of a log, and a
    removed log undoes one trade of its own block that no other undoes, so that a
    block's buy logs are its buys and those of them taken off. A counter alone
    does not say which logs it counted, so `BuysAttributed` states that there is
    an assignment of disjoint sets of delivered buys to the entries of the window,
    each of its entry's block and of its entry's count; ingesting extends or
    shifts it (`IngestAttributes`), and summing disjoint sets gives the property
    (`SumOfSizes`). `WindowMatches` is the window while streams may still hold
    trades: as long as nothing was lost or ingested out of block order, each
    entry's counts are those of the ingested logs of its block, and an ingested
    log has an entry unless the window is full of later blocks; it is
    `WindowMatchesLogs` once the streams are empty. What the history variable
    `misordered` compares is the newest cached log, what `ingest` compares the
    last entry; that the two are of one block is a conjunct of its own. For
    `GraduationIsCaught`, `LateCounted` says that between two late uses of a curve
    price lies a failed exit, for the first one moves the last observation past
    the graduation, where no curve trade is.
  * `Capture`: `CaptureTypeCorrect`, `ReplayIsFaithful`, `TruncatesOnlyAtStart`,
    `AgeRuleSparesRecent`, `SweepEvictsExactly`, for any number of segments,
    records, faults, restarts and sweeps. `CaptureBase` says of every segment how
    its stream is framed (`Framed`: length and payload of each sound record in
    order, and after them, if the segment is torn, a length without its payload)
    and when it takes records (`Timed`); of the writer that the names it will use
    are new (`WriterFacts`: its counter is above those of its own segments, and
    every earlier process's names are no later than its start); of a sweep that
    its entries are of different segments and stamped no earlier than the
    segments' names. `FoundFacts` computes how far replay gets in step with a framed
    segment, `FoundFaithful` that this is a prefix of what was acknowledged,
    `MisreadFaithful` that what is made up of bytes out of place comes only behind
    it. Ticks and seconds meet in `Floor` and `Ticks`.
    `SweepEvictsExactly` adds `TotalFacts`: the running total of a sweep whose
    removals succeeded is the size of the files it has kept so far, and what it
    has evicted did not fit with the files as new or newer. `AgeRuleSparesRecent`
    needs that a segment takes records for one rotation period and that a file is
    never stamped earlier than its name.
* **`Sums_proofs`** has the lemmas about sums over finite sets (`SumElement`,
  `SumUpdate`, `SumMonotone`, `SumSubset`) that the paper trader's costs, the
  sizes of the capture's files and the counts of the feed's window rest on. The
  sum is the library's fold over a set, a function chosen by a recursive equation.
  That it is what one expects of a sum is shown by smallest counterexample: among
  the subsets for which the claim fails, one of least size.

Every safety property that a passing run checks, invariant or action property, is
a theorem. Only model-checked are the six liveness properties
(`HeldIsEventuallyExited`, `DrainEventuallyHalts`, `EveryPositionCloses`,
`AcceptedIsPublished`, `ConfirmedSellIsFollowed`, `EverySnipeEnds`), because
fairness is out of the prover's reach, and the two violated ones, whose
counterexamples are TLC's. What a recursive definition computes for every input
is in general not proved here; the sums are the exception.

## 5. Hazards

`PROJECT.json` lists, at the line where it bites, what in this code a test would
hardly reach, and the properties that would notice it. The groups:

* two tasks between an access and its use: resync (`nonce.rs`), exit and
  finaliser (`executor_live.rs`), consumer and sweeper (`paper.rs`), block task
  and registration (`kol_confirm.rs`), check and record (`limits.rs`);
* crash between two steps: reservation and write, entry and chain, budget and
  book files, length and payload of a record;
* values read before and used after: a cached price across a graduation, a
  snapshot of positions, the janitor's list of files;
* lost, late or repeated input: observations, headers, logs, "refused"
  submissions that are mined;
* things that must happen: exits, closes, halts, followed sells, publication;
* edges: a ring's index, thresholds met exactly, windows and channels at
  capacity, digits of the nonce file.

## 6. Findings (violation runs)

1. `limits_wiped`: `sync_realized_loss` does not advance the day, so the kill
   switch set after midnight is undone by the first check of that day.
2. `live_skipped`: an entry bought on PancakeSwap V2 is never approved by its
   finaliser; the trail, which sells only approved entries, leaves it for good.

A third contradiction is a theorem rather than a run: `adaptive_trail.rs:277-280`
says of the signal-dump exit that it "fires *earlier* — captures the price drop
before the trail's 30% give-back completes", and `config/limits.toml:15-20` calls it
a "leading-exit rule" and credits it with a gain over the trail alone. With
`trail_pct` at most 30 %, as shipped, it never fires at a price above the trail's
floor (`DumpIsNeverEarlier`): its local maximum is no higher than the peak, and its
drop is of more than 30 %. It changes the reason that is reported, never the block
of the exit.

## 7. Further observations

Met while modelling. Each is the exception in a checked property, or a claim in
a comment or document that the model does not bear out.

* Nonces: `reserve` may repeat after a resync race or a lost write, although
  `nonce.rs:20` says never to reuse; the file is not written atomically
  (`nonce.rs:85`). `resync` takes the larger of the node's count and the counter
  and so never goes back: the gap a refused broadcast leaves stays until a
  restart whose file lost it or another sender fills it. The node's pending count
  includes transactions that other programs sent from the wallet: if the chain never
  takes one, its nonce is a gap too. What another program sends while a start or a
  resync holds the node's answer may leave the counter at a nonce that is used.
* Executor: a balance read that fails in the finaliser leaves an entry that
  counts as fully exited although tokens are held (`executor_live.rs:486`,
  `:1933`): it is never sold, and `open_count` is never lowered for it. Two
  slow-path exits in a row oversell (`executor_live.rs:1028`), and
  so does an exit after a submission that was refused and mined. A finaliser
  that gives up leaves a position that only the slow path can sell. A partial
  exit lowers `open_count` as if it were a full one (`executor_live.rs:1271`,
  `live_ledger.rs:109`), so that more positions than `max_open_positions` may be
  opened.
* Trail: the peak is that of observed prices only. `docs/TRADER.md:136` calls the
  hard stop one of a position "never armed", but a position that is armed and falls
  far enough is closed as `hard_sl` all the same: tests want that
  (`adaptive_trail.rs:917-925`, `:1229-1238`), it takes an arming threshold below the
  break-even one, as in `docs/TRADER.md:140-145`, or a position that was armed before
  an exit that failed, for its state starts again. What a reported reason does say of
  the position is `ExitReasonsHold`.
* Limits: a halt ends with the first check of the next day; the cooldown never
  starts, because `last_loss_unix_ms` is not assigned; a balance read that
  fails at the first tick of a day keeps yesterday's baseline for the whole day
  (`mod.rs:496`), and one that fails at the start leaves the kill switch off.
* Paper: an entry given up after its reservation leaves its amount committed
  (`paper.rs:293`); consumer and sweeper may both close one position; a restart
  between the budget save and the book save brings back a position whose cost
  is no longer committed. A position whose fill rounds down to zero tokens
  (`paper.rs:335`, `:409`) is skipped by every sell and every sweep (`:659-662`),
  although the sweep is to close every position older than the hold timeout
  (`:594-595`): it stays open, with its amount committed, until a later buy of its
  token fills it.
* Pipeline: the first-seen time is that of the observation first processed, not
  the earliest; a full channel drops the newest; the head stamped on a
  transaction may be newer than its arrival.
* Confirm: a missed header or a failed block fetch loses a private sell. A BUY
  whose block is scanned before the bus consumer registers it reaches the live
  trader both as pending and as private (`kol_confirm.rs:489`), although
  `kol_confirm.rs:101` says entries come from the mempool path only, to avoid
  double-firing; the executor's duplicate-entry guard stops the second buy while
  the first is held.
* Sniper: an exit only logs and forgets the position; nothing is sold, although
  the module's comment speaks of a forced exit (`dev_sniper.rs:22`), and the
  wiring hands it no executor. An `execute` that returns without buying (a
  duplicate, a limit) still opens a position. A token whose log is delivered
  again after its exit is sniped again.
* Capture: `Ok(None)`, documented as a clean end (`replay.rs:64`), is also what an
  unfinished frame gives, and `TruncatedHeader` is never constructed; `read_all`
  returns no record at all for a segment whose last payload is missing; a failed
  payload write leaves every later record of the segment out of step, and since
  `next_record` ignores how much of the payload the decoder consumed
  (`replay.rs:81`), bytes out of place may come back as records that never were on the
  bus; the janitor
  may remove the segment that is being written; a restart in the second of the
  last start truncates its first segment; every clean shutdown leaves an empty
  placeholder; only Ctrl-C finishes the frame, a SIGTERM does not.
* Feed: a price of one stream may overwrite a newer one of the other; the last
  N entries are the last N traded blocks, not the last N blocks. Nothing looks at
  `log.removed`: the trades of a replaced block are ingested a second time when they
  are taken off, into the flow and as the newest price, although the trail's votes
  read the window as the flow of its blocks.

## 8. Not modelled

* `trader/strategy.rs` beyond the outcomes of `evaluate`: thresholds, sizes and
  swap-path decoding, without state.
* Price and metadata lookups (`bnb_price`, `mcap`, `token_resolver`,
  `price_oracle`, `token_flow`, `gmgn`, `dev_resolver`, `blacklist`): caches of
  RPC answers and calldata decoding; their failures are modelled at their users.
* `bsc-dex`: 256-bit arithmetic and call encoding without state.
* `venus.rs`: logs only. `bsc-telemetry`'s metrics and block oracle: output only.
* `main.rs`, `config.rs`, `wallet.rs`, and `wiring.rs` but for the capture sink:
  start-up.
* The cache of V2 pairs (`executor_live.rs:324`): routes are chosen freely, which
  covers what a stale negative entry can do to a single call but not for how long.
* Reorganisations are modelled where a component would see them: a trade in two
  blocks for `KolConfirm`, removed logs of the head block for `FourMemePrice`. A
  deeper reorganisation is not, nor one that takes off a mined transaction of the
  wallet: `mined` only grows.
* Wall clocks do not go back. A chunk is given to the encoder as a whole or not at
  all, or its payload is missing; a length of which only a part was given is not
  modelled.
* Telegram, logging, gas prices, relay warming: no decision depends on them.
* `src/scripts`: offline analysis.

## 9. Plan

Done: executor-side state (nonce, executor, trail, limits), paper trader, the
input side (pipeline, confirm, feed), the sniper, the capture sink, the price
lookup across a graduation, the live consumer behind the confirm path, and the
contract that joins executor and trail.

Proved: every safety property that a passing run checks, among them both sides of
the contract between executor and trail.

What would come next:

1. Abstract specifications: the paper trader as an account book with atomic
   entries and closes, refined while no copy is stale (`Accounts` is the linking
   invariant); the nonce manager as a counter that only grows, refined while there
   is no overlap and no loss.
2. The cache of V2 pairs (`executor_live.rs:324`), the one hazard listed without a
   property: a run in which a negative answer stays for its time to live and a
   token graduates meanwhile.
