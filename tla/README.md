# A formal model of the cryptobook market maker

TLA+ modules for the concurrent and stateful parts of the program, TLC runs that
check them on small instances, and TLAPS proofs of the central invariants for all
values of the constants. `PROJECT.json` maps definitions to source lines and lists
runs, mutants, hazards, findings and theorems. Paths below are relative to `src/src/`.

## The system

    exchange --WebSocket diffs--> MarketDataThread --queue A--> Engine --> L2Book
             --REST snapshot----> (Reconstructor)               |  |--> Strategy, PaperBook
             --REST snapshot----> cross-check thread --queue--> |  `--> EventLogWriter --> file
                                                                          replay <--------'
    (library only so far)  Strategy --> Oms <--> order gateway

* **Market-data thread** (`engine/market_data_thread.cpp`). Connects, fetches a
  snapshot, drops diffs up to the one that brackets it, then passes diffs on as long
  as their ids are contiguous; `exchange/reconstructor.cpp` decides. A message is cut
  into fixed-size events (`exchange/binance_depth.cpp`), which go into queue A.
* **Queue A** (`core/spsc_queue.hpp`). A lock-free ring between the two threads.
* **Engine thread** (`engine/engine.cpp`). Checks the stream again
  (`gap_verifier.cpp`), applies it to the book (`core/book.cpp`), runs the strategy
  (`strategy/`), writes the log (`event_log.cpp`), and answers cross-checks
  (`crosscheck.cpp`).
* **Cross-check thread** (in `engine/main.cpp`). Fetches a small snapshot every minute.
* **Main** (`engine/main.cpp`). Reads the command line and the configuration
  (`config.cpp`), then replays, converts, runs the smoke test against the exchange's test
  network (`exchange/signed_rest_client.cpp`, `signing.cpp`), or starts the three threads,
  waits for a signal or a deadline, joins them and closes the log.
* **Replay** (`engine/replay.cpp`). Computes decisions, quotes and fills from a log.
* **Order management** (`engine/oms.cpp`). Turns wanted quotes into place and cancel
  commands. It is tested but not yet wired to an exchange.

The threads share the two queues, the stop flag, and counters that are only printed.

## Inventory

| Part | Module | Extent |
|---|---|---|
| SPSC queue | SpscQueue, BoundedFifo, MCSpscQueue | all operations, per memory access |
| Reconstructor, market-data thread, gap verifier | Reconstructor, GapVerifier, DepthFeed, MarketData | all operations |
| Engine thread | MarketData, CrossCheck, EventLog, LiveRun | all operations |
| Live program | LiveRun | all operations |
| Order book | L2Book | without Microprice |
| Cross-check | CrossCheck | all operations, on one side |
| Event log, replay | EventLog | without the summary statistics |
| Strategy, paper fills | Strategy, PaperBook | paper mode; floating-point results are inputs |
| Order management | Oms | all operations |
| Connection, backoff, WebSocket and REST clients | Connection | outcomes of the calls, without the libraries |
| Command line, configuration, smoke tool, signed client | Session | decisions, without texts |
| Depth parsing, decimal conversions, client ids | DepthFeed, Decimals | without JSON |
| Token bucket | TokenBucket | all operations |

A module `XProofs` has the theorems about X; `ProgramProofs` has those about SpscQueue,
LiveRun, Connection and Session, and `OmsProofs` also those about TokenBucket.
`MCComponents` puts the components that share no state with others into one run.

## The modules

**SpscQueue.** One action per load, store and slot access of `try_push`, `try_pop`
and `size_approx`. An acquire load may return any value between the thread's last
view of the counter and the present one; a store is visible at once or later. The
slot access is a step of its own, so that a race is a state. The counters are naturals
(`u64` in the code, and 2^64 operations are not reached). `BoundedFifo` is the abstract
queue; the refinement maps it to the slots between `head_` and `tail_`.

**DepthFeed.** The exchange: numbered updates, and a book as the number of the last
update of each level. A message carries absolute contents, so two books are equal when
they reflect the same updates of every level. It also has the fragmentation: a message
with more levels than fit becomes several events, all but the last flagged
`Continuation`.

**Reconstructor**, **GapVerifier.** The two state machines as operators on records.

**MarketData.** Composes feed, market-data thread, queue A and engine. Each blocking
call is a place where the thread waits. Frames may be lost or unreadable, snapshots may
lag, every call may fail, and stop may come at any moment. `try_push` and `try_pop` may
fail on an old view of the other side, as in SpscQueue, so these failures have no guard
on the queue's length.

**L2Book.** One side of the book as the array the code keeps, with `Apply`'s binary
search, next to the exchange's complete side. `deletions` counts, for the properties,
the levels deleted since the last rebuild.

**CrossCheck.** The ring, the fetch, the comparison, and a fault action that takes a
level of the live book back to an older version. `clean` is the book without faults.
A deletion is an update whose number is in `deleted`; a snapshot shows the best
`SnapshotDepth` levels only. `Comparable`, the condition of both properties, has two parts:
no more deletions since the snapshot than it has levels to spare (`Covers`), and a ring with
every level of the message the replay starts with (`BracketIsWhole`).

**EventLog.** The file as a sequence of cells, each what one `Append` adds. A crash may
come between any two, within a flush as well. Book and strategy are deterministic and
are represented by what they were told, so equal values mean equal results. The engine's
step and the replay's two steps are separate translations of their separate code.

**Strategy**, **PaperBook.** `OnEvent` and `OnResync` in paper mode. The quoter's raw
prices and the spike test are inputs; clamps, hysteresis, limits, notional test, sample
bookkeeping, fills and fees are the code's. Fees are integers rounded up.

**Oms.** The state machine against an exchange that is external: it executes commands in
order, its execution reports come in order and are lost on a disconnect, and a report of
the open orders comes on reconnect and now and then. `DelayedReports` says whether
anything may happen between the taking and the delivery of that report.

**LiveRun.** `RunLive` and `Engine::Run` over time: a clock, the stop flag, and the steps
of the four threads as far as they bear on staleness, flushing and the end. What an event
says is left to the other modules: a gap, a mismatch and the strategy's wish to quote are
choices. `oldest` is the age of the buffer, for `LossIsBounded`.

**Connection.** The stream object of `ws_client.cpp`, the `connected` flag of `Run` and the
backoff, for which `MarketData` only has that the thread waits. `ws` tells a stream that
was never opened, one whose Connect failed, an open one and one whose read failed. Delays
are whole steps of `SleepMs`, any within the jitter.

**Session.** One process from `main` to its exit: mode, configuration, `.env`, and the five
requests of the smoke test. Local clock, server clock and the time a request takes each way
are explicit. A URL is its host and what follows it; a file is what `LoadConfig` looks at.

**Decimals.** The conversions as operators, over all texts up to a length; the state is the
text, typed a character at a time. The loops of the code are recursive functions. The
reference gives a text its number by positions, in units fine enough for every text of that
length, and knows nothing of scales or overflow. Divisors are naturals: the `u64` of
`ScaledToDecimal` holds powers of ten up to scale 19 only.

**TokenBucket.** Lazy refilling over integer time, next to `level`, a bucket refilled at
every instant.

## The runs

| Run | Shows | States |
|---|---|---|
| spsc_queue | no race, size in range, refinement of BoundedFifo, every element gets through | 78,134 |
| marketdata_safety | no gap passes, a live book is the exchange's, groups stay whole, no quotes without a live book | 2,818,756 |
| marketdata_liveness | shutdown ends, a push ends | 20,712 |
| components | L2Book: a sound side, search, exact top. TokenBucket: exact refill. Decimals: exact parsing, conversions that agree. EventLog: replay equals the live run from any cut of the file, a closed log is complete. Connection: usable streams, growing pauses. Session: sound requests, a green run is proved. LiveRun: bounded loss, orderly exit, an end | 386,022 |
| crosscheck_safety | a mismatch means damage, a match means none at the top | 2,022,694 |
| oms_safety | one order per side, none untracked, no slot stuck | 518,921 |
| oms_liveness | no order rests for ever | 127,344 |
| strategy_safety | inventory limit, post-only, samples, conservative fills | 33,840 |
| book_best_levels | violated: see Findings | |
| crosscheck_mid_message | violated: see Findings | |
| oms_late_report | violated: see Findings | |
| stale_quotes | violated: see Findings | |

### Bounds, and why they are enough

* SpscQueue: a ring of 2 and 5 pushes wrap it twice. That gives full, empty, and both
  caches stale by a whole turn. The proofs cover the rest.
* MarketData: 2 levels with 1 per event gives messages in two events; a queue of 2 is
  full in the middle of them. 4 updates suffice for a snapshot, a bracket, a gap and
  the resync after it. The lag of 1 gives snapshots that are too old. The liveness run
  has a queue of 1 and 2 updates: a push blocks after one event.
* L2Book: 6 prices and room for 4 give drops and evictions at both ends, and the search
  meets every length from 0 to 4. The snapshot is deeper than the book.
* CrossCheck: a book of 4 levels, 2 more updates or deletions, a snapshot of 2 levels of
  which 1 is compared, one level per event, a ring of 3 trimmed to 2. The snapshot may be
  before, in and after the ring, and the ring may start or end within a message. `Covers` is
  tight here: with one deletion more than the snapshot has levels to spare, TLC finds a false
  alarm. With the values in the code, 100 levels of which 20 are compared, 80 deletions are
  too few to do harm.
* EventLog: 4 events (a snapshot, a diff, a resync, a diff, or messages in parts) and a
  threshold of 5 cells, so flushes fall on each place in a record.
* Oms: 3 orders, 3 slots, 2 commands in flight: an order, its replacement and the other
  side. The code has 8 slots and never uses more than one per side in this run.
* Strategy: prices 1..3 give a spread of one tick and a wider one; sizes below and above a
  quote give partial and complete fills.
* LiveRun: threshold, flush period and a pass of the engine last 1, the deadline is at 3 and
  the clock ends at 5, after which nothing more depends on time. Queues of 1.
* Connection: delays 2, 4, 6, 6: the growth, the limit and what lies beyond it.
* Session: one testnet host and one other, each alone, with a path and with a port; clocks
  up to 3 apart and requests of up to 2 each way, against windows of 4 (valid), 0 and 7.
* Decimals: texts of up to 5 characters over three digits, point, sign and a letter, scales
  0 to 2, and 127 in place of INT64_MAX: both overflow guards are met from both sides.
* TokenBucket: capacity 4 at rate 1 over 6 instants; the proof covers the rest.

### Deadlock and fairness

Deadlock is checked except in `components` and `stale_quotes`, where a process ends, a
crash stops it or a bound is reached. In
MarketData the joined threads stutter explicitly.

* `SpscQueue!Fairness`: both threads keep calling (PushGroup's spin, the engine's loop)
  and a store becomes visible in the end. Strong fairness where a thread may interleave
  `size_approx` calls, which it does finitely often.
* `MarketData!Fairness`: the scheduler runs both threads, and the blocking calls return:
  sleeps end, sockets have timeouts. The exchange has no fairness at all.
* `Oms!Fairness`: queue C and the stream are drained, reports come again and again
  (`events.hpp`: "on (re)connect and periodically"). The strategy wanting no quotes is
  the hypothesis of the property. It is strong because the bound on commands in flight
  can disable it.

* `LiveFairness` (LiveRun): time passes and every thread runs; requests and reads end by
  their timeouts. Strong fairness of leaving `Drain` and `HandleCrossChecks`: these loops do
  not look at the stop flag, so the program ends only because events come at a finite rate
  and the engine finds its queue empty again and again. No event need come at all.

## Findings

* **book_best_levels.** `core/book.hpp:26` says the book keeps the best `kMaxLevels`. A
  level dropped or evicted from a full side does not return when a better one is
  deleted. What does hold is `TopIsExact`: each deletion costs one level of depth.
* **crosscheck_mid_message.** `engine/crosscheck.cpp:46` says both books represent the
  same exchange state. If the engine has popped only the first events of a message, and
  the snapshot's id lies in it, the scratch book is ahead and a mismatch is reported
  (`MismatchMeansDamage`). A ring trimmed within that message has the same effect.
  `NoFalseAlarm` is what does hold, and a partly popped message after it does no harm.
* **oms_late_report.** `engine/oms.hpp:39` promises one resting order per side. A report
  taken before a place and applied after makes `OnReconcile` forget the order, and the
  next `Reconcile` places another. `oms_liveness` shows that a strategy wanting no
  quotes still gets rid of both.
* **stale_quotes.** `docs/ARCHITECTURE.md:76` says "Stale book (> 500ms without update) ⇒
  pull quotes", as do SPEC.md and MODEL.md. `Engine::Run` notices, counts and logs; the
  quotes stay until the next event.

Smaller things met on the way, which no run is about:

* The comment of `RunSmoke` counts the listenKey lifecycle among the checks; the status of
  the DELETE is only logged. An answer without `tickSize` counts as scale 0. `GreenIsProved`
  states what does hold.
* `HostOf` of `main.cpp` keeps a port that `HostOf` of `signing.cpp` takes off. Such a
  configuration loads, and `--smoke` then refuses it: it fails closed.
* `DecimalToScaled` rejects some numbers within 9 of INT64_MAX (`ParseIsExact` says which).
* `stale_` keeps its value while the book is not live. Cross-check messages still queued at
  the end are not judged. A gap leads to a new bootstrap on the same stream without a pause.

## The proofs

All theorems assume only the named `ASSUME`s on the constants, which say that sizes and
bounds are naturals (positive where the code needs it), that a book has finitely many
prices, and how a few constants are related: a snapshot is at least as deep as the book or
the comparison that uses it, a ring keeps at least one event and no more than it holds, the
longest pause is the one the backoff ends at, texts are longer than scales.

* **MarketDataProofs.** `TypeCorrect`, `NoGapPasses`, `GroupsWhole`, and on top of them
  `LiveBookCorrect`, `QuotesNeedLiveBook`, `StrategySeesWholeBook`. The first invariant
  follows the stream from what the engine applied last, through the queue and the rest of
  the current group, to the reconstructor's state: each event may follow its predecessor.
  So the verifier, which sees only one end, agrees with the reconstructor at the other.
  The second (`BookOK`) is about contents. Every event on its way carries the exchange's
  contents of its update id, the events of a message together carry all the levels that
  changed, and the book lacks at most what the rest of an interrupted message will bring.
* **L2BookProofs.** `SideSound`, `SearchCorrect`, `TopExact`. The invariant: the array is
  sorted, holds levels of the exchange's side with their quantities, and a level the
  exchange has and the array lacks is worse than its best `MaxLevels - deletions`.
  `LowerBoundFacts` shows that the search gives the number of worse levels on every sorted
  array; each branch of `Apply` is then a lemma of its own.
* **EventLogProofs.** `LogTypeCorrect`, `ReplayFaithful`, `LogAuditable`,
  `ClosedLogComplete`. The invariant names the records of the run: file, buffer and pending
  cells together are theirs, and every initial part of them agrees with its own replay and
  with the run. It speaks of every cut because a crash may leave any. Replay and engine are
  in the same state after the same events (`ReplayMatches`, `StrategyMatches`), which is
  where their separate translations meet.
* **CrossCheckProofs.** `Invariant`, `TypeCorrect`, `NoFalseAlarms`, `MatchesExact`, for
  every size of book, ring, snapshot and event. The invariant says that an update changes one
  level (`HistoryOK`), that every event carries the exchange's contents at its own last id,
  that the ring and the rest of the current message are a contiguous stream ending where the
  reconstructor is (`RingOK`, `IncomingOK`, `StreamOK`, `ReconOK`), and that a queued snapshot
  is the top of a real book (`QueueOK`). So a level that the ring has from the bracket on
  is the same in the scratch book and the undamaged live book. Any other is in the live book
  what it was at the snapshot's id, since the bracketing message is whole, and the scratch book
  lacks it only if the snapshot did not reach it. Then at least
  `SnapshotDepth` better levels were there, of which at most as many were deleted as `Covers`
  allows, so that it lies below the levels compared.
* **DecimalsProofs.** `ParsesExactly`, `ConversionsUndo`, for all digits, lengths, scales and
  every INT64_MAX from 9 on. While the loop of `DecimalToScaled` goes on, its value is the
  number read so far in the unit of the last digit (`Fits`); where it stops, the number is
  too fine or too large whatever follows (`Unreadable`). For the way back the digits
  of a written number are added up from the right (`WrittenSize`), and the last digit that is
  not 0 decides the least scale (`Finest`).
* **OmsProofs.** `TypeCorrect`, `AtMostOneResting`, `OpenAreTracked`, `SlotsGetFreed`; the
  last three say what holds without late reports, as the runs do. The exchange knows no
  slots, so the invariant ties the two: every open order, and every place on its way, is in
  a slot with its side and quote, no two slots have the same side, and a report that ends an
  order finds it done at the exchange. For TokenBucket `LazyRefillExact`: the invariant gives
  the level at every instant between two calls, and says that a bucket never used is full.
  This is why `last_ns_ = 0` may ignore the time that has passed. Capping at every instant
  is capping once.
* **StrategyProofs.** `TypeCorrect`, `InventoryLimited`, `PostOnly`, `SamplesFresh`,
  `FillsConservative`. The inventory bound is not inductive; what makes it so is that a bid
  rests only while the inventory is below the limit. Samples are fresh because a baseline
  price belongs to the present epoch. A fill makes no profit at the opposite best since
  fees are not negative and a fill's price is not better than the market's.
* **ProgramProofs.** For LiveRun `FlushedInTime`, `OrderlyExit`; for Connection
  `StreamsUsable`, `RetriesPaced`; for Session `RequestsSound`, `GreenProved`. A record is
  younger than the last flush, and the pass that let it wait saw that flush less than a
  period ago; the exit rests on the order of the joins. The other invariants say what is
  known of stream, failures, configuration and clocks at each place of the code. For
  SpscQueue `TypeCorrect`, `RaceFree`, `SizeApproxCorrect`, `RingImplementsFifo`. None of
  these is inductive alone, since the tests read cached counters. The invariant orders the
  five quantities, cached_head <= head <= cached_tail <= tail <= cached_head + Capacity, and
  says what each thread knows at each of its steps. Two numbers less than Capacity apart have
  different slots (`SlotsApart`); race freedom and the refinement rest on it.

Loops are recursive functions in the modules with proofs. What one computes is proved
from the equation it satisfies, in three lemmas: the equation has a solution, two solutions
agree up to the least place where they could differ (`LeastNat`), and one more element is
one more pass. The modules with loops (L2BookProofs, EventLogProofs, CrossCheckProofs,
DecimalsProofs) need nothing else in place of induction.

Only model-checked is liveness, which `tlapm` cannot prove here for want of a rule for
fairness: `AllElementsGetThrough`, `ShutdownTerminates`, `PushCompletes`, `AgainAndAgainFlat`
and `LiveProgramEnds`. Every other property of a passing run is a theorem. The
property of a violated run is none, but that of `oms_late_report` is one without late reports.

## Not modelled

* Floating point: volatility, the quote formula, Microprice, summary statistics. The model
  has their results as inputs, or leaves them out where nothing depends on them.
* What libraries do: JSON, TOML, TLS, HTTP, HMAC. The models have the outcomes the calling
  code tells apart.
* The strategy's live mode (`OnExec`, `ApplyRealFill`): no code connects it to the Oms or to
  a stream of executions, so a composition would be a design of ours.
* The copying of optional configuration values, the paths of log files, the status line, the
  jsonl conversion, the benchmarks and the Python analysis.
* The status loop reads engine state without synchronisation, a data race by the language's
  rules; the values are only printed.
* A failed `fwrite`: the code ignores it and no document says what the log then holds.
* A report of more open orders than `kSlots`: nothing yet could react to it.
