# hfmcbot: models, checks and proofs

hfmcbot is a trading bot for newly launched tokens. It hears of launches and
prices over a feed, buys a launch in a few slices when its gates and its risk
engine agree, and sells each position on a price rule or a time stop. This
directory holds TLA+ modules of the program, translated from the Rust source
under `src/src/`, the configurations that check them with TLC, and proofs of the
main safety properties for all values of the constants.

## 1. Inventory

| component | source | state | operations | modelled by |
|---|---|---|---|---|
| engine | `engine.rs`, `types.rs` | equity, deployed capital, open positions, closed trades, order sequence | `on_event` (launch, tick), funnel slices, `close_position`, `sweep_time_stops`, breaker alert, `check_invariants`, `state`/`restore` | `Engine`, `Recovery` |
| risk engine | `risk.rs` | day, day P&L, breaker, kill switch, throttle window, count of open positions | `check_entry`, `check_order`, `note_side`, `record_realized_pnl`, `maybe_rollover`, `set_open_positions`, `restore_state` | `Risk` |
| strategy | `strategy.rs` | none (pure), decides on a `Position` | entry gate, budget, slices, `on_price`, `on_time` | `Strategy` |
| executor interface, paper executor | `exec.rs` | pseudo-random state of the paper executor | fill, reject, unknown | `Orders` (the contract); its outcomes, in `Engine` |
| snapshots | `persist.rs` | snapshot file | `save_state`, load | `Recovery`, `Boot` |
| boot | `main.rs`, `config.rs`, `keys.rs` | files of earlier runs | checks of the settings, choice of mode, path and snapshot; resume, refuse or start flat | `Boot` |
| audit log, Postgres mirror | `persist.rs`, `pg_audit.rs` | JSONL file; bounded channel, drop counter, table | `append`; queue, drop, insert | `AuditTrail` |
| live loop | `liveloop.rs` | connection, subscriptions, saver timer, backoff | connect, re-subscribe, dispatch, checkpoint, reconcile, stop; archive | `LiveLoop`, `Archive` |
| websocket feed, recorder | `wsfeed.rs`, `bin/record.rs` | subscriptions, archive files | `plan_trade_subs`; classification, extraction, enrichment; `run_ws_loop` | `LiveLoop` (the plan), `Archive` |
| live executor | `live.rs` | blockhash cache, request counter; wallet and chain outside | quote, sign, send bundle, poll, balance check | `LiveExec` |
| Jupiter governor | `live.rs` | token bucket | `refill`, `try_take`, gates of `quote` and `swap` | `Governor` |
| RPC client, devnet tool | `live.rs`, `bin/devnet_trade.rs` | preferred endpoint | `rpc_call` with failover, `confirm_signature`; airdrop, send, confirm | `Rpc` |
| gRPC ingest | `ingest.rs`, `decode.rs` | slot clock, buffer, backoff | stamp, decode, evict, reconnect | `SlotFeed` |
| replay | `ingest.rs` | archived events | `record_raw`, `record_event`, `ReplayFeed::from_path` | `Archive` |
| alerting | `alerts.rs` | last send per kind, queue | `fire`, worker | `Alerts` |
| metrics endpoint | `metrics.rs` | none of its own | formatting | not modelled |

### How the parts interact

One task owns the engine. The live loop (or a replay) hands it one event at a
time and waits for it. Inside an event the engine awaits only executor calls, so
no two events interleave; but an event makes many orders, and each of them may
fill, be rejected or end in an unknown state, take time, or be the last thing
the process does. The risk engine is called synchronously and keeps a copy of
facts of the book (count of open positions, realized P&L of the day) that the
engine must feed it. Between two messages the loop may checkpoint the book,
notice a signal, or lose the feed; after each engine event it brings the trade
subscriptions of the peer in line with the open positions. A restart reads the
last snapshot back and combines it with the configuration of that boot.

Around this task run others: the worker of the alert webhook and that of the
Postgres mirror, each fed through a channel that nobody waits for. The audit file
and the archive files are written by the task itself, and grow over all
processes that open them. The executor reaches Jupiter through a governor and
Solana through a client with several endpoints.

### What is hard, and what makes each part correct

- **Engine.** A funnel may stop after any slice; one event can sell one position
  twice (tick, then sweep); a sweep sells several while its own sells change the
  book. Right when: the money always adds up, capital is not overcommitted, no
  position past its time stop is passed over, a stuck one is retried only by a
  tick of its token, no slice fills under a breaker, and alerts match the audit.
- **Risk.** Lazy rollover, a pruned window with unthrottled sells, its own
  position count. Right when: buys keep to the throttle measured on the orders
  really sent, the day ledger is the P&L of that day's trades, the cap bounds the
  real book.
- **Snapshots.** A crash falls between any two orders, a snapshot only between
  events. Right when: the engine runs on from a consistent earlier state, its own
  snapshot is never refused, the kill switch is not lost.
- **Boot.** Runs that send, simulate, shadow or replay use the same files in any
  order, and there is one wallet, whatever path a run keeps its book on; a file
  renamed but not synced may come back torn or not at all. Right when: a run that
  sends knows what the wallet holds.
- **Live loop.** Sends fail half way, the peer forgets, saves fail, the signal may
  come anywhere. Right when: slots are well used, peer and loop agree, gaps are
  preceded by a checkpoint, a signal stops the process.
- **Live executor.** A bundle is on its way from the moment it is sent, whatever
  becomes of the call: answers are lost, landings come late, statuses and balances
  are read at different commitments, and orders share a blockhash. Right when: an
  order is reported filled only if it landed, nothing lands after it was reported
  filled or rejected, book and wallet do not drift apart unnoticed, and a call ends.
- **Governor, RPC client.** The refill mark drops fractions of a token; endpoints
  die in the middle of a poll inside a retry. Right when: the rate holds over any
  stretch of time and a rested order gets both its calls; a dead endpoint is left
  alone, and a flow comes to a verdict.
- **gRPC ingest.** Metas and transactions come in any order, over a clock that
  forgets. Right when: an event carries its own block's time or is dropped.
- **Archive and replay.** A message is written three times before the engine sees
  it, and each write may fail or be torn. Right when: a replay is what the engine
  was fed, and the verbatim file has every message.
- **Audit, mirror.** Torn lines, a full channel, lost answers. Right when: the
  counts tell what is missing.
- **Alerting.** A limit per kind, one worker without a timeout. Right when: an
  alert is suppressed only for one that was logged, and a queued one comes out.

## 2. Modules

- `Risk` - the `RiskEngine` as a record and its methods as operators on it.
  `Checked` is the common beginning of both checks (rollover and pruning).
- `Strategy` - gate, sizing, slices, exit rules. Entry prices are kept as a
  fraction (`paid * Unit / qty`) and percentages are compared by
  cross-multiplication, so that nothing is rounded that the code does not round.
- `Engine` - extends both. `on_event` is cut at its awaits: `ev.pc` says whether
  the event is in its funnel, in the sell of a tick, or in the sweep. Arrivals
  (`LaunchSkipped`, `LaunchBlocked`, `LaunchAccepted`, `TickIgnored`, `TickHeld`)
  run the code up to the first await; each order is one step with its outcome
  (`SliceThrottled`, `SliceFailed`, `SliceFilled`, `SellFailed`, `SellFilled`),
  which runs the code up to the next; `EndEvent` is the alert at the end of
  `on_event`. `sent` (with the part of the code that sent each order), `log`,
  `ev.tried` and `ev.unknown` are history that no guard reads.
- `Recovery` - extends `Engine` with the snapshot file. `Save` happens between
  events, `BootFlat` and `BootRestored` between any two steps: a boot replaces
  the whole state by what `Engine::restore` builds and keeps only the history.
- `Boot` - which runs a set of settings leads to (`Accepted`, `KindOf`,
  `StatePath`, over all settings), and series of such runs. The engine is its book
  only: for each token, whether a position is held and whether that was really
  bought. `held` is the wallet. `Start` resumes or refuses a snapshot; `Flush` is the
  kernel, `PowerLoss` leaves the file, the one before it (`disk`) or a torn one, and
  `ChangeEquity` makes a book inconsistent with the setting that `check_invariants`
  compares it with. `stale` is history: the tokens of which a file may be wrong.
- `LiveLoop` - the loop's phases, the loop's idea of its subscriptions against
  the peer's (`server`), and the version of the book against the version in the
  snapshot file. The engine appears as its set of open tokens; its other
  behaviour is `Engine`'s.
- `Orders` - what the `Executor` trait promises of an order: it ends once, as filled,
  simulated, rejected or unknown; a fill has landed; nothing lands after a fill or a
  rejection was reported.
- `LiveExec` - the live executor for one token. `pc` is the await that the order in
  progress is at; each action is the code from one await to the next: `StageDone`
  and `StageFails` before signing, `SignFails`, `Simulated` and `Sent` for
  `sign_and_maybe_send`, then the answer to `sendBundle`, the poll and the balance
  check. `Lands`, `Dies`, `Settles` and `Tick` are the chain and the clock, `Buy`
  and `Sell` the engine. It implements `Orders`.
- `Governor` - the bucket with both of its readings of the clock (`refill` reads it
  again after it has computed the tokens), and the quote and swap of a pass.
- `Rpc` - a call going round its endpoints (`BeginCall`, `Answer`, `NoAnswer`)
  under the flow of the devnet tool, its longest user: `Advance` is what the flow
  does with a result. Endpoints may die at any time.
- `Alerts` - `fire` as two actions by its window, the worker as two by its await,
  and the end of the process.
- `AuditTrail` - `append` feeds the mirror's channel and then writes, whole, cut
  short or not at all; the worker inserts; a process may end inside a write or an
  INSERT. The file is the sequence of the pieces written, since an append continues
  the line that an earlier one tore.
- `SlotFeed` - slot clock, the decoding and sort of a transaction's instructions,
  stamping, and the stream with its backoff.
- `Archive` - the stages of a message (verbatim, typed, event, engine) for the live
  loop and the recorder, on the same kind of files as in `AuditTrail`; `Replay` is
  what `ReplayFeed::from_path` makes of the events file.
- `MCEngine` - the symmetry of the tokens. `MCProcess` puts `Boot`, `Alerts`,
  `AuditTrail`, `Governor` and `Rpc` into one run, `MCFeeds` does it for `SlotFeed`
  and `Archive`. The parts so combined share no state, and no property relates two
  of them, so what is reachable in one part does not depend on the steps of the
  others: `focus` picks the part that moves, and the others stay in an initial state.
- `EngineProofs`, `EngineSafetyProofs`, `MoneyProofs` (engine and restarts),
  `LiveLoopProofs`, `LiveExecProofs`, `SinksProofs` (alerts, audit trail),
  `ProcessProofs` (boots, governor, RPC client and their composition) and
  `FeedsProofs` (gRPC feed, archive and their composition) - section 4.

Definitions keep the names of the source where it has them; `map` in
`PROJECT.json` gives the lines of each. A definition commented "Mutant" is a
plausible bug of the definition after it; no specification uses it. It shows
that the property named with it in `PROJECT.json` can fail.

### Abstractions

- Money is in whole dollars and sizing keeps the code's floor of a slice; the
  percentage of the risk budget is floored as well, where the code keeps decimals.
- Times are ticks: a throttle window and a day are a few ticks long.
- A fill may happen at any price of the instance, whatever was quoted: the paper
  executor's slippage and the chain are both inside this.
- The gate is evaluated over all screens a launch can have, and its verdict is the
  input of the launch actions. In the same way `Archive` evaluates the decoders over
  all kinds of line, `SlotFeed` over all kinds of instruction and `Boot` its checks
  over all settings, and the steps take the verdicts.
- An event of the live loop is treated as ending: the engine's executor calls all
  have outcomes.
- The live executor is armed and has its key and valid tip accounts: without them it
  refuses every order before it does anything. Swap transactions of different orders
  are taken to differ (they are built by Jupiter); a tip transfer is what its four
  inputs make it. What a swap brings lies within `Slip` of its quote, either way.
- In `LiveExec`, RPC failover and the governor appear as failures of a stage. A status
  of the block engine is true when it is given; a balance may lag behind it (`settled`).
- The funnel's deadline has no step. Both checks (`engine.rs:214`, `live.rs:1535`)
  compare the time of the event, which is the same for all slices, with that time
  plus the window, and are never true.
- `Rpc` allows any number of endpoints, where the devnet tool configures one: the
  live executor, whose calls are single steps of the same client, configures several.
  Times are counted in polls.
- The wallet of `Boot` says which tokens are held, not how many: of a token that was
  bought on two paths, an exit may leave some. Two equities stand for any.
- In `Recovery` the equity of the settings is the same at every boot; `Boot` changes it.
- `BookIsReal` speaks of the tokens that are not `stale` on the path of the run. This is
  as much as the code can promise, since a boot reads the file of its path and nothing
  else: see section 5 for what happens to the others.
- Audit text, metrics and logging are left out, except for the counts of trips,
  Breaker records and DailyLossTrip pages.

## 3. Runs

| run | states | question |
|---|---|---|
| `engine_money` (`MCEngine`, `EngineMoney.cfg`) | 503,779 | money, day ledger, sizing, high-water mark after each order |
| `engine_sweep` (`MCEngine`, `EngineSweep.cfg`) | 377,791 | cap, throttle, breakers, sweep, stuck positions, paging, and the inductive invariant |
| `recovery_boot` (`Recovery`, `RecoveryBoot.cfg`) | 893,080 | what a process resumes from after up to two deaths |
| `live_loop` (`LiveLoop`, `LiveLoop.cfg`) | 14,171 | slots, agreement with the peer, checkpoints, shutdown |
| `live_exec` (`LiveExec`, `LiveExec.cfg`) | 430,235 | the contract of the trait, book against wallet, the end of every order |
| `process` (`MCProcess`, `Process.cfg`) | 607,511 | what main builds around the engine: boots, alerts, audit trail, governor, RPC client |
| `feeds` (`MCFeeds`, `Feeds.cfg`) | 361,525 | stamps of the gRPC feed, archive and replay of the websocket feed |
| `engine_blind_resubmit`, `live_loop_reconcile`, `live_exec_rejected`, `live_exec_tips`, `boot_simulated` | - | a documented statement that the code does not keep (section 5) |

**Bounds, and why they are enough.** `engine_money`: three prices around two
slices give every weighted entry price of interest (up, down, equal, a later slice
higher or lower), four orders are two funnels of two slices, the second one cut
down to the capital left free by the first, or a funnel, its exit and a second
entry, and an event may fall on the next day. `engine_sweep`: three tokens and a cap
of two let a third launch meet a full book, two positions are due in one sweep and
sold in either order, executor calls take zero or one tick so that an opening time
may lie after its event, three orders per window of two ticks let sells crowd out
buys, days of two ticks let a rollover fall inside a run, and two attempts to exit let
a tick and the sweep of the same event, or of a later one, share them. `recovery_boot`: one
token, two orders and two deaths allow a death in a funnel, in an exit, between an
exit and its snapshot, and a second death before the next snapshot. `live_loop`: a
cap on slots below the cap on positions, and four events. `live_exec`: three orders are
a funnel of two slices and an exit, or two exits of one slice; a slippage and a
dust of one tell a missing slice (three tokens) from a poor fill; the blockhash is
shared by orders one tick apart and outlives the poll by one tick, so that bundles
land before, during and after it; the even number of tip accounts is the one that
the request counter does not spread over.

`process`: four calls of two kinds over four instants and a window of two let a
suppressed call fall between two logged ones, before and after a restart; four
records with a channel of one let records be dropped while another is inserted, lost,
or done without an answer, and let a torn line be continued, also by the next
process; a period of three ticks leaves fractions of a token to drop, twelve ticks and
six calls empty the bucket and fill it again; three endpoints are what a failover needs
to come back to a dead one by way of another, two airdrops and two polls reach both
retry limits; one token suffices for a book to be ahead of, behind or beside its wallet,
over any number of runs on two paths. `feeds`: three slots over a clock of two evict, two
instructions of two tokens are out of order or not, three messages and two
faults let a torn line meet the one after it and the one after that, and two times
let the sort matter.

`MaxClock`, `MaxOrders`, `MaxStep`, `MaxRestarts`, `MaxEvents`, `MaxAlertTime`,
`MaxFires`, `MaxAlertLives`, `MaxAppends`, `MaxAuditLives`, `MaxGovTime`, `MaxTakes`,
`MaxIxs`, `MaxBuffer`, `MaxWall`, `MaxMessages` and `MaxFaults` only bound the search:
they stop arrivals (or deaths, or events), never the handling of an event in progress.
An engine with nothing to do may stay idle (`Quiet`), a stopped loop stays stopped and
a flow that is over stays over (`FlowOver`). Deadlock is checked in every run but
`process`, `feeds` and `boot_simulated`, whose sinks, feeds and boots really have
nothing to do when nobody calls them.

**Fairness.** The loop, the executor, the alert worker and the RPC client need it. For
the loop, weak fairness is on steps of the process
itself: it starts to connect, a backoff timer ends, and a `select!` on a signal
that has already arrived is taken in the end. Nothing is assumed of the peer,
which may never send, never close, and never answer a connection attempt. The code
sets no timeout on that attempt and does not look at the signal during it, so
`StopsOnSignal` says: the process stops after a signal unless it is connecting for
ever from some point on. For the executor, weak fairness is on the calls of
`RpcClient`, which has a timeout of 15 s per endpoint, and on its own sleep.
The clients of Jupiter and Jito have no timeout, so that `OrderEnds` says: an order
ends unless a request to one of them is never answered nor refused. The chain owes
nothing: a bundle may stay on its way for ever. The alert worker takes a queued alert
when it is free, as the runtime schedules a ready task; its POST has no timeout either,
and `AlertsDelivered` says what holds as long as each POST ends. The RPC client
begins the next call of its flow, and each attempt ends by an answer or by its timeout.

**What the passing runs show**, by property:

- `MoneyConserved` - `check_invariants` holds between any two orders, not only at
  the end of an event. `SnapshotAccepted` carries this to the disk.
- `DayLedgerMatchesTrades` - the lazily reset day P&L is the P&L of the trades
  closed on the ledger's day, also across restarts.
- `NeverOverdeployed` - fees are paid outside the budget, so that capital may
  exceed equity, but by no more than the fees of one funnel. A sell whose proceeds
  do not cover its fee is excluded: it lowers equity below the cost freed.
- `HighWaterIsHigh` - the stop reference is never below the last price or the
  average entry, whatever the slices filled at.
- `CapRespected`, `BuysThrottled`, `NoEntryUnderBreaker` - the three limits
  against the real book and the real orders; the last two concern the checks made
  once per funnel and once per slice.
- `NoStopForgotten`, `SweepGivesUp`, `StuckWaitsForTick` - the sweep and the
  attempts it shares with ticks. `SweepGivesUp` counts the sells really sent since the
  position was bought; `StuckWaitsForTick` includes the sweep of the very event whose
  tick made the position stuck.
- `PagesAreAudited` - no page without a Breaker record, no record without a trip.
  The converse fails (end of section 5).
- `LosesOnlyRecency`, `KillNotForgotten` - the recovered trade history contains
  the snapshot's, and an engaged kill switch stays engaged at any later boot.
- `BookIsReal` - token by token, a sending run has in its book what the wallet really
  holds, unless the token is stale on its path: really traded and never saved, traded
  by a run on the other path, saved by a run that does not send, removed by the
  operator, or taken back by a power loss. Torn snapshots, boots that refuse them, a
  changed equity and runs in other modes that save nothing do not break it, and a
  token is no longer stale once the run buys it and held none. A sweeping
  statement, that a run which sends never starts flat over tokens held, is refuted
  (`NeverFlatOverHeld`, section 5).
- `SlotsWellUsed`, `ServerAgrees`, `BookSavedInGaps`, `StopsOnSignal` - see above.
- `ImplementsOrders` - lost answers, late landings and failed balance checks never
  turn into a fill that did not land, nor into a report that a landing contradicts.
- `NoSilentDrift` - as long as every landed bundle was reported filled, the wallet
  holds what the book says up to the slippage of the book's slices and the dust:
  the balance checks, each of one slice only, are enough for that. A landing that
  was not reported filled is what `OrderEnds` and the unknown state are for; the
  book does not hear of it.
- `OrderEnds` - the poll's deadline counts over lost and unclear answers.
- `RateBounded`, `RestedPassWhole` - the governor over any stretch of time, and the
  quote and swap of an order after a rest. The source says that the bucket "can only
  under-admit" (`live.rs:43-45`); the model shows that it may also admit more
  than the exact rate, by less than one token.
- `DeadNotHammered`, `FlowEnds` - once a call has got past a dead endpoint to one that
  answered, later calls ask it only when the last good one, and all from there round to
  it, have failed in the same call; retries, failover and polls together end.
- `OncePerWindow`, `AlertsDelivered` - in both directions: no second page inside a
  window, and none withheld outside one.
- `MirrorAccounts`, `TornLinesCost` - the drop counter is exactly the missing rows and
  the INSERTs that were done but whose answer was lost, the table keeps the order of the
  appends, and a torn line costs one acknowledged record at most, the first one after
  it. The comments promise more than either (section 5).
- `StampExactOrDropped` - for any arrival order and any eviction. An event whose slot
  was not announced yet takes the time of an older slot, also across a gap of the
  stream, where `ingest.rs:199-201` excludes a silent gap; never that of a later one.
- `ReplayIsIdentical`, `RawIsGroundTruth` - the replay of the events file is what the
  engine was fed, but for events a fault or a crash hit, as long as no torn line makes
  the whole load fail and the wall clock was never set back; and each
  fault costs two verbatim lines at most.
- `TypeOK`, `ProcessTypeOK`, `FeedsTypeOK`, `Inductive` - the types, and the parts of the
  inductive invariants of section 4 that a run can check.

## 4. Proofs

All theorems assume the named assumptions on the constants of their modules
(`RiskAssumption`, `StrategyAssumption`, `EngineAssumption`, `RecoveryAssumption`,
`LiveLoopAssumption`, `LiveExecAssumption`, `AlertsAssumption`, `AuditTrailAssumption`,
`GovernorAssumption`, `RpcAssumption`, `BootAssumption`, `SlotFeedAssumption`,
`ArchiveAssumption`), which are the ranges the configuration enforces, finitely many
tokens, and, so that quantities stay whole, that `Unit` is a multiple of each price.
They hold for any numbers of tokens, prices, slices, limits, endpoints, records, slots
and messages. One theorem has a hypothesis of its own: `NoDriftIsSilent` assumes
`DustIsSmall`, that the reconciliation dust is less than half of what any quote
promises. `config.rs:282` only demands that the dust is not negative; its default is a
millionth of a token (`config.rs:211`). Section 5 says what happens without it.

Every safety property of a passing run is stated by a theorem.

| module | theorem | of |
|---|---|---|
| `EngineProofs` | `TypeCorrect` | `TypeOK` |
| `EngineSafetyProofs` | `CapAlways` | `CapRespected` |
| | `NeverOverdeployedAlways` | `NeverOverdeployed` |
| | `NoEntryUnderBreakerAlways` | `NoEntryUnderBreaker` |
| | `BuysThrottledAlways` | `BuysThrottled` |
| | `NoStopForgottenAlways` | `NoStopForgotten` |
| | `SweepGivesUpAlways` | `SweepGivesUp` |
| | `StuckWaitsForTickAlways` | `StuckWaitsForTick` |
| | `PagesAreAuditedAlways` | `PagesAreAudited` |
| | `HighWaterIsHighAlways` | `HighWaterIsHigh` |
| | `OnlyRecencyIsLost` | `LosesOnlyRecency`, across restarts |
| | `KillIsRemembered` | `KillNotForgotten`, across restarts |
| | `CapSurvivesRestarts` | `CapRespected`, across restarts |
| `MoneyProofs` | `MoneyIsConserved` | `MoneyConserved` |
| | `DayLedgerAlways` | `DayLedgerMatchesTrades` |
| | `InductiveAlways` | `Inductive` |
| | `SnapshotsAreAccepted` | `SnapshotAccepted`, across restarts |
| | `MoneySurvivesRestarts` | `MoneyConserved`, across restarts |
| | `DayLedgerSurvivesRestarts` | `DayLedgerMatchesTrades`, across restarts |
| `LiveLoopProofs` | `TypeCorrect` | `TypeOK` |
| | `SavedInGaps` | `BookSavedInGaps` |
| | `ServerAlwaysAgrees` | `ServerAgrees` |
| | `SlotsAlwaysWellUsed` | `SlotsWellUsed` |
| `LiveExecProofs` | `TypeCorrect` | `TypeOK` |
| | `Implements` | `ImplementsOrders` |
| | `NoDriftIsSilent` | `NoSilentDrift`, if `DustIsSmall` |
| `ProcessProofs` | `GovernorTypeCorrect` | `GovernorTypeOK` |
| | `RateIsBounded` | `RateBounded` |
| | `RestedPassIsWhole` | `RestedPassWhole` |
| | `RpcTypeCorrect` | `RpcTypeOK` |
| | `DeadAreLeftAlone` | `DeadNotHammered` |
| | `BootTypeCorrect` | `BootTypeOK` |
| | `BookIsRealAlways` | `BookIsReal` |
| | `ProcessTypeCorrect` | `ProcessTypeOK`, of the composition |
| `SinksProofs` | `AlertsTypeCorrect` | `AlertsTypeOK` |
| | `WindowsAreKept` | `OncePerWindow` |
| | `AuditTypeCorrect` | `AuditTypeOK` |
| | `MirrorIsAccounted` | `MirrorAccounts` |
| | `TornLinesAreCheap` | `TornLinesCost` |
| `FeedsProofs` | `SlotTypeCorrect` | `SlotTypeOK` |
| | `StampsExactOrDropped` | `StampExactOrDropped` |
| | `ArchTypeCorrect` | `ArchTypeOK` |
| | `RawIsKept` | `RawIsGroundTruth` |
| | `ReplayAlwaysIdentical` | `ReplayIsIdentical` |
| | `FeedsTypeCorrect` | `FeedsTypeOK`, of the composition |

**The argument for the engine.** None of the safety properties is inductive alone.
What they need is stated in `Engine`, checked by `engine_sweep` as `Inductive` and
proved, conjunct by conjunct, as `InductiveAlways`:

- `FunnelGuarded`: between two slices the ledger is on the event's day, the
  breakers are off, and the book has room or already holds the token. Only a sell
  can trip a breaker and none happens inside a funnel. With it the cap (`CapInv`)
  and `NoEntryUnderBreaker` follow: the one check made for a whole funnel is
  still good at its last slice.
- `FunnelFunded`: what is left of the budget is still free, except for the fees of
  the slices filled so far. This bounds the overdraft (`CapitalInv`).
- `RecentIsTailOfSent`: the throttle window is a suffix of the orders really sent,
  and what it has lost is older than the window for good. This turns the check on
  the window into the statement about real orders (`ThrottleInv`). It holds
  because event times never decrease.
- `QueueNotStuck`: the sweep collects no stuck position, and each token of its
  queue is sold once, so that a sell made by a sweep is never of a stuck position
  (`SweepInv`).
- `ExitsCounted` and `StuckIffExhausted`: the attempts of a position are the sells sent
  for it since its last buy, and the field `stuck` is their comparison with the limit;
  the sweep sells what is not stuck only (`ExitInv`).
- `EdgeIsAudited`: a page still owed at the end of an event already has its audit
  record (`PageInv`).
- `DaysInOrder`: no trade was closed after the day of the ledger, and the ledger is not
  ahead of the event. A rollover therefore starts a day without trades, for which the
  zero it puts into the ledger is the right sum.

`StepCases` splits a step into five kinds of effect (skip, accept a funnel, fill a
slice, fail, sell), and the effect lemmas before it say once what each does to
the risk record; the invariants are then proved over those.

The high-water mark is a product inequality (mark times quantity against paid times
unit). With `SizingInv` every slice is of at least a dollar, so that quantities and
costs grow, and `Outweighs` says that a mark above the old mark and above the price
outweighs the old holding and the new slice together.

**Money.** The ledger is about sums: over the costs of the open positions and over the
results of all closed trades. `SumFunction` is a fold of the community modules, chosen
element by element; `MoneyProofs` first proves that it is a sum, whatever elements the
fold picks (`SumTakeOut`, `SumOneMore`, `SumOneChanged`). The induction over the domain
that this would need is replaced by a least counterexample: strict inclusion is
well-founded on the subsets of a finite set (`MinimalSubset`), and a least subset for
which the claim fails has a smaller one. After that the money
invariant is inductive as it stands, next to `SizingInv`: a slice takes from the free
capital what it adds to the position, and a sell takes the cost of
the position out of both sides and adds its result to both. Only a sell books a result,
and each check and each sell rolls the day over first, so that the result of the day is
the sum over the trades of the ledger's day (`DayLedgerMatchesTrades`, with
`DaysInOrder`).

Across restarts the snapshot carries the ledger with it: `RestartMoneyInv` states it of the
file as of the running engine, from which it follows that a boot accepts any snapshot
the engine wrote (`SnapshotAccepted`) and that a restored engine starts with a
balanced book.

**Across restarts**, `RestartInv` adds the snapshot file to the invariant of the cap:
what lies in it can be resumed (`Resumable`), the running engine has grown out of it,
and no boot forgets its kill switch. `RecencyStep` says what the engine does between
two boots (it never touches the kill switch and only appends), `BootedInv` that a boot
restores the invariant from nothing but the types and the restored count.

**Over series of boots**, `PathIsTrue` says of each path and each token that is not stale
there: the running sender's book is true of the wallet, and so is the file, unless the
run has traded the token since. `FilesInv` adds that a run differs from its file only in
what it has traded or did not resume, so that what a save of a run that does not send
makes untrue is marked.

**For the live loop**, `SlotsWellUsed` and `ServerAgrees` are inductive with the
types. `PlanUsesSlots` is the statement about one plan, by cardinalities.

**For the live executor**, the contract needs to know where the pipeline stands:
`Begun` (only the order in progress is open), `BundleKnown` (nothing is sent before
`Sent`, a bundle on its way belongs to an open or unknown order, the balance is
asked for after a landing only) and `Quoted` (a buy has its amount from its quote
on). Every return of a call is then a `Finish`, every landing a `Land`, every call
of the engine a `Begin`, and all else changes nothing that the contract sees.

**For the governor**, `Paid` is a potential: from each admitted call on, the later
calls, the tokens left and the time since the refill mark are paid for by the burst and
by the time since that call. **For the RPC client**, no endpoint that was got past is
the preferred one, since the one that answered was not dead, and a call has had a
failure of every endpoint from the preferred one up to the one it asks. **For the
alerts**, `LastIsLatest` ties `last_sent` to the latest alert really logged by this
process. **For the audit trail**, `Flow` keeps the records of table, INSERT and channel
in one increasing order, `Counted` is the exact balance of the drop counter, and each
unreadable record is mapped to the torn line before it, injectively, which the order of
the file (`InOrder`) makes the one right before it. **For the gRPC feed**,
`EvictedIsBelow` says that a slot whose entry is gone is below all entries of a full
clock, so that its events find no time at all.

**Drift between book and wallet.** `DriftInv` has three parts. `SellsAll`: a sell in
progress is of the whole book, and an empty book has no slices. `WalletMatches`: as long
as every landed bundle is of an order reported filled or still in progress (`Clean`), the
wallet is the book up to the slippage of its slices and the dust of the last sell, with
the landed buy in progress on top. `BalanceIsTelling`: a balance that passes the check of
a fill is not one from before the bundle, since it would have been too low for a buy and
too high for a sell. The last part is where the dust must be small.

**For the archive**, `FaultsCover` counts: messages without a piece and torn pieces are
no more than the faults so far, and a torn piece takes away its own message and the one
whose piece follows it, hence the two per fault. **For the replay**, `ReplayInv` says
that what the engine was fed and what the events file has as tagged pieces are both in
increasing order of messages and agree on the sound ones, and that the times on the
file are in that order too when the clock was never set back. A stable sort by time then
changes nothing, and two increasing sequences of the same numbers are equal
(`SameNumbers`), without any induction over the sequences. The sort is given by what a
stable sort is: an event's place is the number of events earlier in time, or of the same
time and earlier in the file.

**For the compositions**, the part in focus keeps its own invariant and the others
stutter, so that the type theorems of the parts combine.

**Only model-checked.** The four liveness properties `StopsOnSignal`, `OrderEnds`,
`AlertsDelivered` and `FlowEnds`: reasoning about fairness and ENABLED is beyond the
installed provers.

## 5. Findings

Five runs check what a comment or the documentation says, and TLC finds a behaviour
of the code against it. `PROJECT.json` quotes both sides.

1. `NeverBlindResubmit` (`exec.rs`: after an unknown state reconcile first, never
   resubmit blindly). A tick's sell ends unknown; the sweep of the same event sells
   the position again.
2. `ReconciledNextEvent` (`liveloop.rs`: a failed control send is reconciled at the
   next event). The plan is committed although it was not sent, so that no later
   plan of this connection contains it.
3. `RejectedNeverLanded` (`exec.rs`: only `Transport` leaves the state of an order
   unknown). After a landing, a balance answer that cannot be read is a rejection;
   the engine believes that nothing happened and does not page.
4. `TipsDistinct` (`live.rs`: a blockhash is reused across distinct transactions; tip
   accounts take turns). The request counter advances by two per order, so that with
   one or two accounts every tip goes to the same one, and two orders on one cached
   blockhash carry the same tip transaction: the second bundle cannot land after the
   first.
5. `SimulatedNeverMistaken` (`live.rs`: a simulated fill must never be mistaken for a
   fill). The state path depends on shadow only, so that a simulate-only live run
   saves its positions to the file that the next sending run resumes.

Seen while modelling, without a run (where a definition is named, it is in its module,
and TLC refutes it in seconds with that module's specification and the constants of
`Process.cfg`):

- A breaker of yesterday is released by the next risk call, and that call may be the
  one that trips it again: no edge, no page, no audit record for the second trip.
- A trip is not a reason to save: a death before the next snapshot forgets it, and the
  engine buys again on the same day, where `risk.rs` promises identical protection.
- Alerts: `alerts.rs:3,105` say that an alert is always logged; a suppressed one is not.
  The limit is per kind, whatever the subject. Queued alerts are lost uncounted with
  the process, and so are queued mirror records.
- A run looks at the snapshot of its state path only (`main.rs:155-170`). With another
  `HFM_STATE_PATH`, or after the file was removed, a sending run starts flat over tokens
  the wallet holds, which is what the comment at `main.rs:169-170` wants to rule out
  ("starting FLAT while real positions may be open risks double-entering"); nothing
  asks the wallet (`NeverFlatOverHeld` of `Boot`).
- `save_state` flushes and renames but never syncs (`persist.rs:122-141`). Where its
  comment says "never a torn write", a power loss may leave an empty or torn file
  (`NeverTorn` of `Boot`), which a live boot refuses, or the previous snapshot, which it
  resumes: the trades since then are missing from the book.
- The mirror's drop counter: `pg_audit.rs:151-152` says "a nonzero count means the mirror
  diverged". An INSERT that was done but whose answer was lost is counted as dropped
  although its row is there (`NonzeroMeansDiverged` of `AuditTrail`).
- The audit file: `persist.rs:51-52` says that "a crash never loses the trail". A write
  cut short leaves a line without its end, the next append continues it, and that record,
  whose append succeeded, is lost to a reader as well (`CrashKeepsTrail`). `pg_audit.rs:13`
  and the messages at 145 and 178 say that the JSONL file "remains complete" when the
  mirror drops a record; the mirror is told first, so that a record whose file write
  fails is in neither (`DroppedIsInFile`). Lines are flushed to the kernel only: a power
  loss may take lines of which the append succeeded, which the model leaves out.
- The webhook's POST and the mirror's INSERT have no timeout; one that never ends
  stops its worker for good.
- A paper boot whose snapshot fails the money invariants opens the audit log again
  without the mirror (`main.rs:251-257`).
- Archive: one torn line makes `ReplayFeed::from_path` refuse the whole file. Binary
  frames are counted but not archived. A paper replay resumes `data/live_state.json`
  when there is one, so that its result depends on earlier runs.
- `LiveFeed::next_event` drops the event it took.
- `sendTransaction` refused by a second endpoint, after the answer of a first was lost,
  comes back as a definitive rejection. A bundle status with `"err": null` is taken for
  a failure (`live.rs:1112`).
- The `select!` of the websocket loop is unbiased, though a comment gives the signal
  priority (`wsfeed.rs:509`); no property needs more than that it is taken in the end.
- With an effective slippage of 100% the paper executor rejects every sell.
- With a reconciliation dust of half a slice or more, one balance can pass both the
  check of a buy and that of a sell, so that a fill is reconciled against a balance from
  before its bundle (`NoSilentDrift` fails in TLC with four orders, `Outs = {3}`, `Slip = 2`,
  `Dust = 3`). Nothing in `config.rs` keeps an operator from setting it; with the
  default it cannot happen, and the condition is sufficient rather than exact.

## 6. Not modelled, and the plan

Left out for good: the metrics endpoint, byte layouts and curve arithmetic of
`decode.rs` (the stonkfun list and the curve have no caller in the program), encodings
of keys, wording of logs and audit lines, counters and statistics, SQL.
`engage_kill_switch` and `release_kill_switch` have no caller outside tests; the kill
switch of the model is the one a boot sets, and no code path clears it from a snapshot.

Abstracted, and what it would take:

- The paper executor's slippage curve and pseudo-random failures: `Engine` lets every
  order fill at any price or fail, which contains them. Their arithmetic is in decimals.
- Whether a feed that is entirely silent ever sweeps: it does not (`engine.rs:154`);
  no model has a clock that runs on while no event arrives.
- The recorder's connection states, which are those of the live loop.
- `Engine`, `LiveLoop` and `Archive` as one system: each is checked against an
  abstraction of the others (`LiveLoop` sees the book, `Archive` sees what the engine is
  fed). The product of their states is beyond TLC, and an abstract engine below both
  would say no more than the two interfaces do now.
- Order ids used again after a crash: an id is written to the audit trail only, which no
  code reads back.

What remains worth doing: an abstract specification of the life of one position
(flat, held, stuck, closed) that `Engine` implements per token, with its step
simulation.

## 7. Running

    tlc -workers 2 -config EngineMoney.cfg MCEngine
    tlc -workers 2 -config EngineSweep.cfg MCEngine
    tlc -workers 2 -config RecoveryBoot.cfg Recovery
    tlc -workers 2 -config LiveLoop.cfg LiveLoop
    tlc -workers 2 -config LiveExec.cfg LiveExec
    tlc -workers 2 -config Process.cfg MCProcess
    tlc -workers 2 -config Feeds.cfg MCFeeds
    tlc -workers 2 -config BootSimulated.cfg Boot
    for m in Engine EngineSafety Money LiveLoop LiveExec Sinks Process Feeds
    do tlapm ${m}Proofs.tla; done

The largest run takes about three minutes and the largest proof module about four.
