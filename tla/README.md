# candlestore: specifications, model checks and proofs

This directory holds TLA+ models of candlestore, the TLC configurations that
check them, and TLAPS proofs of every safety property they check.  `PROJECT.json` maps
every definition to the source lines it stands for.  Paths below are relative
to the repository.

    tlc -workers 2 -config StoreEvict.cfg MCCandleStore     # one run
    tlapm CandleStoreProofs.tla                             # one proof module

## 1. The system

Two processes and a library.

`feed_handler` simulates candles and pushes them into a POSIX shared-memory
ring.  `market_hub` opens the ring; its ingester thread pops candles and appends
them to the `CandleStore`; its strategy thread spins on the store's change
counter, reads the newest candles, keeps two moving averages and pushes a signal
at every crossing into an in-process ring; its executor thread pops signals,
checks them against risk limits and books them into a position that it saves to
a file.  Each process has a poller that reads counters for the metrics.  The
store itself is a library, also for programs of their own: behind a C ABI with a
Go client, filled by a Binance WebSocket feed, sized to the machine's cache.  So
is the `matching` module: an order book, a portfolio and a paper-trading engine.

| Component (source) | State | Operations | Interacts through |
|---|---|---|---|
| CandleStore (`src/store.rs`) | map of entries behind one `RwLock`; per entry a ring behind its own lock, `removed`, `last_access`; `access_clock`, `version`, `signals`, `appends_rejected` | `append` (`try_append`, `try_insert_new`, eviction, spill), `range`, `last_n`, `wait_for_change`, `signal_waiters`, `snapshot` | locks and atomics shared by all callers; files in `data_dir` |
| RingBuffer (`src/ring_buffer.rs`) | circular array, write position, length, last timestamp | `push`, two bisections, `range`, `last_n`, `to_vec` | owned by an entry |
| SPSC and SHM rings (`src/shm.rs`) | slots, `head`, `tail`, `push_full` | `try_push`, `push_until`, `try_pop`, `depth` | two threads or processes and two atomics |
| SHM segment (`src/shm.rs`) | kernel name, segment size, header | `create`, `create_force`, `open`, both `Drop`s | system calls; crashes leave the name |
| ShmIngester (`src/shm.rs`) | `running`, `popped` | loop, `stop_signal`, `join_timeout` | pops the ring, appends to the store |
| Cold storage (`src/parquet.rs`) | files named by timestamp range | `spill`, `query_cold`, `read_file` | called under the store's write lock, read without it |
| feed_handler (`src/bin/feed_handler.rs`) | `last_ts`, shutdown flag, `candles_pushed`, two `Arc`s of the writer | `next_ts`, the candle loop, the metrics poller, shutdown | pushes the SHM ring; the last `Arc` unlinks the segment |
| C ABI (`src/ffi.rs`) and Go client (`go-client`) | the store's pointer; a growing buffer | `candlestore_new`, `_free`, `_append`, `_range`; `RangeN` | calls into the store from any goroutine |
| Binance feed (`src/feed.rs`) | one connection | `run`, `stream_once` | appends closed klines to the store |
| Hardware profile (`src/hw.rs`) | L3 size, cores, fraction | `detect`, `with_fraction`, `ring_capacity_for` | sizes the store's rings |
| market_hub (`src/bin/market_hub.rs`) | shutdown flag, thread handles, the signal ring | `main`, four threads, joins with a timeout | everything above |
| Strategy (same file) | two `RollingSma`, previous averages, `last_candle_ts` | `step` of a wake-up | store version, signal ring |
| Executor (same file) | position, `RateLimiter`, state file | `risk_check`, booking, `persist_position`, `load_position` | signal ring, file system |
| Order book (`src/matching/book.rs`, `order.rs`, `event.rs`) | two price ladders of queues | `submit`, matching loops | sequential |
| Portfolio (`src/matching/portfolio.rs`) | cash, positions, average costs, realized PnL | `apply`, PnL functions | sequential |
| Paper engine (`src/matching/paper.rs`) | pending orders, portfolio | `submit`, `on_candle` | sequential |

What is hard to get right, and hard to reach with a test:

* *Eviction against everything.*  An appender may hold the `Arc` of an entry
  that another thread is flagging, spilling and removing; the spill may fail and
  be undone; a range query reads the ring and the directory at different moments.
* *Cursors.*  Both rings order slot accesses only by two wrapping counters, each
  read stale by the other side.
* *Wake-ups.*  The change counter is bumped after the push, also without a push,
  and several pushes may hide behind one wake-up.
* *Shutdown.*  Five threads watch two flags and are joined in a fixed order with
  timeouts; a producer may be stalled on a full ring, a consumer may be dead.
* *Crashes.*  A segment name outlives its process; a position file or a spill
  may be cut short.
* *Gauges.*  `depth()` loads two cursors one after the other while both move;
  the exported count is flushed now and then.
* *Foreign callers.*  `RangeN` takes a full buffer for a truncated answer and asks
  again while appends go on; a stream is cut and resumed in mid-interval.
* *Boundaries.*  Bisection over a wrapped array, dust quantities, prices between
  ticks, flips of a position, clocks that go backwards.

The full list, at the lines where each bites, is `hazards` in `PROJECT.json`.

## 2. The modules

| Module | Models | Builds on |
|---|---|---|
| `CandleStore` | `append` and `range`, one step per lock section, atomic access or I/O call | |
| `StoreWatch` | `wait_for_change`/`last_n` consumer, `signal_waiters`, `snapshot` | `CandleStore` |
| `Bisection` | the bisection of an index range, as operators | |
| `RingBuffer` | the ring in memory: `push`, and the queries as operators | `Bisection` |
| `CAbi` | the C ABI and the Go client's `RangeN` | `RingBuffer` |
| `BinanceFeed` | the feed's task against an exchange that closes and breaks connections | `RingBuffer` |
| `Hardware` | L3 detection on Linux, the fraction, the sizing arithmetic | |
| `MCStoreClients` | the three programs above, one per behaviour | `CAbi`, `BinanceFeed`, `Hardware` |
| `Fifo` | abstract: a bounded queue | |
| `SpscRing` | both ring halves, with torn slots and wrapping cursors | implements `Fifo` |
| `ShmFeed` | `feed_handler`'s loop, `push_until`, `ShmIngester` | `SpscRing`; every step is one of its steps |
| `FeedHandler` | `feed_handler`'s counter, poller, `Arc`s and shutdown; `depth()` in the hub's poller | `ShmFeed`; every step is one of its steps |
| `ShmSegment` | life of the segment, one step per system call | |
| `ColdStore` | spill, file names, schema check, `query_cold`, `merge_by_ts` | `RingBuffer`, for `range` of the hot ring |
| `Strategy` | `RollingSma` and the strategy's wake-ups | |
| `Executor` | risk gates, rate limiter, position file, restarts | |
| `MarketHub` | the hub's threads and its shutdown | uses a queue where `SpscRing` is proved to be one |
| `Orders` | orders, validation, tolerance | |
| `OrderBook` | the book, one step per fill | `Orders` |
| `Portfolio` | `apply` and the PnL functions | `Orders` |
| `PaperEngine` | the engine over its portfolio | `Portfolio` |
| `Sums` | sums of the terms of a sequence, used by `OrderBook` and `Strategy` | |
| `NatLemmas` | lemmas: the least-number principle and bounded induction, `%` and `\div`, sums, what a bisection finds | `Sums`, `Bisection`, `TLAPS` |
| `CandleStoreProofs` | theorems of `CandleStore` and `StoreWatch` | `StoreWatch` |
| `ShmProofs` | theorems of `SpscRing`, `ShmFeed`, `FeedHandler` and `ShmSegment` | `FeedHandler`, `ShmSegment` |
| `StoreClientsProofs` | theorems of `RingBuffer`, `CAbi`, `BinanceFeed` and `Hardware` | those modules |
| `MarketHubProofs` | theorems of `MarketHub` and `Executor` | those modules |
| `MatchingProofs` | theorems of `OrderBook` and `PaperEngine` | those modules |
| `ColdStoreProofs`, `StrategyProofs` | theorems of the module named before `Proofs` | that module |
| `MC...` | constants and symmetries for TLC | the module of the same name |

How the state and the actions correspond to the code:

**CandleStore.**  `map[s]` is the entry under a symbol; an entry is named by the
tick of the append that created it.  `ring`, `removed` and `lastAccess` are its
fields, `clock` is `access_clock`, `wlock` says who holds the outer write lock.
A critical section that nobody can see half done is one step; the write lock is
held across several, since appenders with an older `Arc` and cold readers run
meanwhile.  An `append` starts with the validity check and the tick, looks the
entry up (hit: push under the buf lock unless `removed`, then store
`last_access` and bump `version`; miss: take the write lock, check again, pick
the victim, flag it, spill, remove or unflag, insert).  A failed spill returns
an error to the caller after the flag is taken back; an entry found removed
sends the append round again.  `accepted`, `overwritten` and `dropped`
are history: what `append` took, what a full ring overwrote, and what an eviction
without `data_dir` dropped.  `dataDir` says whether there is one; it is chosen at
the start.

**StoreWatch.**  The version is loaded with Acquire and bumped with Release, so the
consumer's steps are faithful as they stand.  `snapshot` loads both its counters
with Relaxed and changes nothing: `Snapshots` is the set of all it may answer,
any value either counter has had.

**RingBuffer.**  `buf`, `head`, `len`, `lastTs` are the fields.  The queries are
operators over them with the code's physical indices, bisections and two-chunk
copies; `Live` and plain filters are the reference they are compared with.

**SpscRing and ShmFeed.**  A push is: load `tail`, begin the slot write, end it,
store `head`; a pop mirrors it.  A slot in the middle of a write holds `Torn`.
Release stores and acquire loads order the slot accesses, which is what makes a
sequence of atomic steps faithful; a load may be stale when it is used.
`CursorMod` stands for 2^64.  `ShmFeed` adds the retry loop of `push_until` with
its cancel flag, the stall counter, and the ingester's flag test, pop and append.
`FeedHandler` adds what `main` does around that loop: `count` and its flush every
`FlushEvery` pushes, the poller that parks and exports, the join without a
timeout, `exported`, and the two `Arc`s of which the last to go runs
`ShmRingWriter::drop` (`holders`, `unlinked`).  Its `Depth` steps are the two
loads of `ShmRingReader::depth`; `dpushed` remembers how many pushes the first had
seen. `SpscRing` and `ShmFeed` have no run of their own: the run of `FeedHandler`,
whose steps are all steps of theirs, checks their properties too.

**CAbi, BinanceFeed, Hardware.**  Single-threaded callers of one symbol's ring, so
a store call is one step and the interleaving is between calls.  `RangeN` is a
call per size of its buffer, and the other goroutine appends in between;
`matching` is what the ring held at the last call.  `BinanceFeed` keeps the frames
on their way; a frame is one of the kinds the parser tells apart (a candle, one
`is_valid` refuses, one that does not parse, something else, a ping) and a kline
may be open or closed.  The exchange is external: it sends klines of any interval,
late ones and ones it has sent before too, to whatever connection there is;
`published` numbers the closed ones, and `stored` and `missed` say what became of
each.  `Hardware` has the real constants (48 bytes, 256, 1 000 000, 8 MiB);
fractions are rationals or `NaN`, which `f64::clamp` lets through.

**ShmSegment.**  `name` is the kernel's name table for this one name, `segs` the
segments ever created.  `create_inner` is (unlink when forced,) `shm_open`,
`ftruncate`, `mmap`, header stores, ready flag, with an exit and its clean-up at
every failure; `Drop` unmaps and unlinks.  A crash at any point drops nothing.
An operator removes a stale name only while no producer runs, which is what
`feed_handler` tells them to do.  `create_force` is part of the same
specification; `forced` remembers that it was used, since the promises about the
name are only made to callers of `create`.

**ColdStore.**  A file is the parts of its name that `parse_ts_range` and
`find_free_path` use, its rows, its schema metadata and whether it was finished.
The library's encoding is external: a file that was cut short cannot be read.
`OldDirs` holds files from before the run: foreign brands, newer and older
schema versions, unreadable ones.

**Strategy, Executor, MarketHub.**  Closes and quantities are integers (plus
`NaN`), so averages are compared by cross-multiplication.  `Executor` splits a
booking at the two points where a crash matters: the write of the temporary and
its rename; a start may fail to read a file that is there, and is then flat.
`MarketHub` keeps only what the threads do to each other; what a wake-up computes
is a free choice of signal or no signal; the executor pops a signal and deals with
it in two steps, and may panic with one in hand.  A join may give up at any moment
(`JoinTimesOut`), and `gaveUp` remembers it.

**Orders, OrderBook, Portfolio, PaperEngine.**  Prices are in quarter ticks, so
that prices between two keys exist, round up or down, or to key 0.  Quantities are
integers and the relative tolerance of `qty_is_zero` is `1/TolInv`, so that dust
exists. Average costs are exact fractions.

### Order of work and what is left

The order was: the store (the concurrent core), the rings under it, the path of
a candle between processes, the segment, cold storage, the hub's threads, the
matching module, and then the programs around them: `feed_handler`'s shutdown,
the C ABI and its client, the Binance feed, the sizing.  Then the proofs, in
about the same order.  Left for later:

1. A composition of `ShmFeed` with `CandleStore`, where an append may fail while
   the ingester drains the ring.

## 3. Runs

Bounds are in the `.cfg` files and are named constants of the modules.  All runs
pass but `shm_fault`, which must find a violation (section 4).

| Run | Bounds | Shows |
|---|---|---|
| `store_evict` | 3 symbols, room for 2, 2 appenders, 1 reader, ring of 2, 5 appends, 1 invalid candle, `data_dir` set, a spill may fail | `Conservation`: every accepted candle is in a reachable ring, in a file, or was overwritten by a full ring. `RangeComplete`: a range query returns every candle accepted before it started and not overwritten. `NoPoison`: a flagged entry is in the map only inside its own eviction. `EvictedFrozen`: nobody pushes into an entry that has left the map. `CountsRight`: the map keeps its bound, and `version` and `appends_rejected` count what they should |
| `store_watch` | 2 symbols, room for 1, 2 appenders, 3 appends, 2 signals, with a `data_dir` whose spills may fail and without one | `WatchInv`: a consumer that waits has either seen the newest window or is about to be woken (`NoMissedWake`), and a snapshot claims more appends than were published only by the signals its load of that counter missed (`SnapshotBounded`). `Settles`: once appends stop, the consumer ends with the newest window. `AppendReturns`: an append returns, or evictions are attempted for ever; no retry is for nothing |
| `store_clients` | ring of 4, timestamps 1..3 in any order, 6 appends (it wraps); buffers from 1 to at most 3 candles; 3 closed klines of 3 intervals in any order, 2 faults, 2 frames in flight; 2 cache indices, 4 fractions | `HoldsNewest`, and `QueriesExact`: `to_vec`, `last_n` and `range` equal their reference in every reachable buffer, and the bisections never cross. `AbiExact`: `RangeN` returns all the store held at its last call, cut only at `maxRangeCap`, and `candlestore_range` never writes past the buffer. `KlinesStored`: every closed kline sent is stored once, with its timestamp and in the order sent, unless it was lost with a connection. `SizedRight`: the rings of all symbols fit the share of L3, unless at their minimum. `ClientsProgress`: `RangeN` returns whatever is appended meanwhile, and the feed streams again after every error and clean close |
| `shm_feed` | capacity 2, cursors modulo 4, 5 candles (the cursors wrap), a clock jumping in 0..1, a flush every 3 pushes | `NoSlotRace`: no slot is read while it is written. `ImplementsFifo`: the ring is a bounded queue. `ExitClean`: the ingester exits with nothing popped and not appended. `StoredInOrder`: stored timestamps grow whatever the clock does. `HandlerInv`: stalls are counted once, the shared count lags by at most one flush and is complete from the final flush on, what the poller exported never leads it, and the segment is unlinked by the last `Arc`, after the last push and before `main` returns. `DepthHonest`: `depth()` is the difference of the true counts and within the capacity, unless the reader overtakes the head it loaded. `LoopsEnd`: a signal ends `feed_handler` with the segment unlinked, also on a full ring nobody reads, and `stop_signal` ends the ingester |
| `shm_segment` | 2 producers, 1 reader, capacities 2 and 4, 2 segments, `create` and `create_force`, crashes, failures, stale names | `NameIsOurs`: without `create_force`, a live producer's name denotes its own segment. `SegmentInv`: two plain creators never own the name together, and a reader that attached maps what its header says |
| `strategy` | periods 1 and 2, closes 1 and 3, timestamps in any order, 4 candles, 1 append to another symbol | `FoldsRight`: each candle is folded at most once, with increasing timestamps, and the rolling sum is the mean of what was folded. `SignalsAreCrossings`: signals are exactly the crossings of the two averages. `CatchesUp`: once the appends stop, the newest candle, or a later timestamp, is folded |
| `executor` | quantities NaN and 0..3, limits 2, rate 1, a second of 2 ticks, 4 signals, crashes, restarts, failed reads and writes | `ExecutorInv`: the position keeps within its limit, and at most twice the rate is booked in any second. `CrashWindow`: unless the last load or save failed, a restart finds the position, or the one before the signal in flight. `FileStaysValid`: the file is never half written |
| `market_hub` | signal ring of 2, 3 candles, joins may time out, the executor may die | `HubInv`: the store gets at most one candle after `stop_signal`, the signal ring at most one signal after the shutdown; the executor takes signals once each and in order, and only a panic loses the one in hand (`SignalsInOrder`). `SignalsServed`: while the hub runs, a signal is executed unless the executor died. `ThreadsExit`: after SIGTERM the process exits, and with every thread ended unless a join gave up |
| `order_book` | 3 orders, prices 0, 1, 6 (quarter ticks: invalid, key 0, half up to key 2), quantities 1, 4, 5, tolerance 1/4 | `BookInv`: uncrossed between submissions, no fill beyond a limit by more than the rounding, every order accounted for once, and a FOK all or nothing. `NothingPassedOver`: price-time priority over the whole history. `SubmitReturns` |
| `paper_engine` | 2 symbols, prices 0, 1, 3, quantities 1, 3, 4, tolerance 1/3, 2 orders, 2 candles each | `EngineInv`: an order has exactly one event unless it is pending or was refused, an immediate one at the next candle of its symbol; every fill is at a price the candle traded and the limit allows, and none is missed. `BooksBalance`: the position is the net of the fills, its cost fits it, and the PnL is what a liquidation would yield |
| `cold_store` | 2 symbols, timestamps 1..3, ring of 2, 3 appends, 1 failure, one directory with old files | `AnswerRight`: an answer has every timestamp of its range that was kept, but for candles in a ring with late ones; with the ring in order, equal timestamps allowed, it is sorted and has the ring's candles, all of them, in the place of stale spills; no file of another brand or newer schema gets into it, and a candle of another symbol only out of a shared directory. `FilesStay`: a spill never replaces a file |
| `shm_fault` | as `shm_segment` with 3 segments and no `create_force` | `OpenNeverFaults` is violated |

Why these bounds are enough to be interesting: with three symbols and room for
two, two appenders and five appends give an eviction while the evicted entry's
`Arc` is held, a failed spill that is undone and re-tried, an entry recreated
while a reader still holds the old one, and two candidates for the victim.  A
cursor modulus of twice the capacity makes the cursors wrap inside the run, the
case a 64-bit run never reaches.  Six pushes into a ring of four wrap the write
position and leave every rotation of a full ring.  Buffers of 1, 2 and 3 candles
make `RangeN` grow twice and reach its cap.  Two producers and two segments
contain a crash, a stale name, its removal and a re-creation while a reader is
still attached.  A second of two ticks in a clock of four contains two bucket
changes.  Quantities 1, 4, 5 with tolerance 1/4 give exact fills, partial fills
and remainders that count as nothing.

Symmetry is used for symbols and threads in `store_evict` and for producers
in `shm_segment` and `shm_fault`.  None of them checks liveness;
`EvictedFrozen` is a property of single steps and treats the permuted values alike.

Deadlock is checked in every run but `store_clients`, whose programs may end: the
other specifications let the finished system stutter explicitly, so that any
other state without a step is an error.

Each property has a mutant in `PROJECT.json`: a plausible bug of one definition
(its comment says `mutation`) that makes TLC report that property.

## 4. Where code and documentation disagree

`shm_fault` shows one: `src/shm.rs:519` lets `open` wait for the producer or
return an error, but a segment exists with length zero between the producer's
`shm_open` and `ftruncate`, and an `open` in that window maps it and faults on
its first load of the header.

The other places met while modelling where a doc or a comment says more than the
code does.  The properties above are stated for what the code does.

| Statement | What the code does |
|---|---|
| `ARCHITECTURE.md`: overwritten candles are "on disk in Parquet" | only an eviction writes to disk; what a full ring overwrites is gone (the term `overwritten` of `Conservation`) |
| `src/store.rs:558`: a racing snapshot under-reports "by one" and "never over-counts an append that didn't happen" | it under-reports by as many as there are signals between its loads; both loads are Relaxed, so on a weakly ordered CPU it may also see a bump of `version` and not the count that went before, and over-report by one for each such signal (`SnapshotBounded`) |
| `src/store.rs:470`: `last_n` is "in chronological order" | arrival order, and out-of-order candles are accepted |
| `src/shm.rs:618`: `depth` is the number of unread slots; `market_hub.rs:124`: a fill fraction "in [0, 1]" | wraps to a huge number when the reader pops past the head it has loaded (the premise of `DepthHonest`) |
| `feed_handler.rs:306`: a scrape after shutdown gets "the up-to-date count" | the poller may have exited before the final store; nobody exports it then |
| `src/ring_buffer.rs:11`: feeds send "Binance late klines", recorded "in `out_of_order_total`"; "`range` query may not find it" | so it is: the feed appends klines as they come, a repeated one becomes a second candle of its timestamp, and neither is put in its place (`KlinesStored` claims the order of arrival) |
| `market_hub.rs:364`, `:367`: the crash window is "at most one in-flight signal"; the position is 0.0 "if the file doesn't exist or is unparseable" | also when a valid file cannot be read: the executor starts flat and its next save overwrites the file |
| `src/candle.rs:12`: `ts` is in nanoseconds | the Binance feed stores the kline's `t`, which is in milliseconds, as it comes |
| `src/candle.rs:31`: `is_valid` belongs in the feed parser and the FFI surface | both leave it to the store, and `candlestore_append` returns 0 also for a candle the store refused |
| `src/shm.rs:338`: the unlink/open race "is gone" | two forced creators can lay out the same name, hence the `forced` premise of `NameIsOurs` |
| `market_hub.rs:159`: SMA "over the last `period` closes" | a wake-up that covers two candles folds only the newest |
| `market_hub.rs:336`: at most the limit "in the last 1 s" | per bucket; up to twice the limit (`RateWithinTwice`) |
| the exit trace in `README.md`: executed equals produced | the executor may leave before the strategy's last pushes: what comes between its last empty pop and its look at the flag, up to a full ring, and one more after it (`SignalsServed` speaks of a running hub only) |
| `src/parquet.rs:263`: reads the files "for a symbol" | symbols that escape to one directory (`BTC/USDT` and `BTC:USDT`) share their files and serve each other's candles (the exception in `OwnCandles`) |
| `src/store.rs:570`: the merge is "sorted", "dedup by ts" | not sorted when the hot slice is out of order; the dedup is between the two sides, so two candles of one timestamp in the ring are both served, in order of arrival; of two spilled candles of one timestamp `query_cold` keeps either (`AnswerFresh`) |

## 5. Fairness

* `StoreWatch!WatchFair`: weak fairness of the consumer (it spins on its own
  core), of appenders inside a call, and of a signaller inside
  `signal_waiters`.  Nobody is obliged to start a call.
* `FeedHandler!HandlerFair`: weak fairness of `main` between two candles, of its
  poller and of the ingester.  A full or empty ring is spun on; the poller's park
  ends after a second at the latest.  The next candle need not come.
* `MCStoreClients!ClientsFair`: a C call returns, and the feed's task is polled: its
  connection attempts end and its sleeps are timed.  The exchange owes nothing, and
  faults are finitely many.
* `MarketHub!FairSpec`: weak fairness of each thread's loop.  The time-out of a
  join has none: it may happen or not.
* `Strategy!FairSpec`: weak fairness of the pending version bump and of the
  strategy's loop.
* `OrderBook!FairSpec`: weak fairness of the matching loop, which is plain
  sequential code.

No fairness is assumed of the environment: candles, signals, SIGTERM, crashes,
failures and operators may come or not.

## 6. Proofs

The theorems hold for every value of the constants that satisfies the named
assumption of the module: any sets of symbols, threads, producers and readers,
any capacities, prices, periods and limits, any number of steps up to any bound.

| Assumption | Asks |
|---|---|
| `StoreConstants`, `WatchConstants` | capacities of at least one, bounds that are numbers |
| `RingConstants`, `FeedConstants`, `FlushConstant` | the capacity divides the cursor modulus (a power of two does); stamps are candles; a flush interval of at least one |
| `SegmentConstants` | capacities of at least one |
| `BufferConstants`, `AbiConstants`, `FeedBounds`, `HardwareConstants` | a capacity of at least one, timestamps that are numbers, a buffer that may grow |
| `ColdConstants` | a ring capacity of at least one, timestamps that are numbers |
| `HubConstants`, `ExecutorConstants`, `StrategyConstants` | bounds and limits that are numbers, quantities that are integers or `NaN`, integer closes |
| `OrderConstants`, `BookConstants`, `EngineConstants`, `PortfolioConstants` | integer prices and quantities, a tolerance of at most one half; finitely many symbols and prices (a position map and an `f64` have no more) |

Each theorem follows the same argument: an inductive invariant that the initial
states satisfy, that every action preserves, and that implies the property.

Loops and recursive functions are reasoned about by bounded induction: `NatLemmas`
derives from the well-foundedness of `<` that every set of numbers has a least
element (`Least`), and from it that what holds of 0 and passes from n to n + 1
below N holds up to N (`UpTo`).  That a recursive function exists, and what it
computes, are two such inductions.

**`CandleStoreProofs`** proves `TypeOK`, `Conservation`, `NoPoison`,
`RangeComplete` and `EvictedFrozen`.  None is inductive by itself.  The
invariant `IInv` adds: each append in flight owns its tick, and ticks name
entries uniquely (`Pending`, `OwnTick`, `TickInv`); every entry in the map
exists, belongs to its symbol and holds only accepted candles (`EntryInv`); an
`Arc` held by a thread is an entry of its symbol that is either in the map or
flagged (`ArcInv`); a thread in the insert path is the one that holds the write
lock, and the victim it has flagged is still in the map (`LockInv`); and what a
reader has collected so far covers, together with what its next read will
see, all it owes (`ReadInv`).  `Conservation` rests on the order flag, copy,
spill, remove: while the flag is up nobody pushes, so the copy that is
spilled is the ring that is removed.  `RangeComplete` rests on the order hot
before cold: a candle leaves memory only after it is on disk.
`CountsRight` needs cardinalities: the entries in the map, the accepted candles
and the appends in flight are finite sets, and each step adds to or takes from
one of them what it adds to the counter.  For `StoreWatch` the invariant `WInv`
counts signals the same way (`SignalInv`), which bounds all that a snapshot may
load, and says that while
the version is the one the consumer saw and no push waits for its bump, its window
is the newest (`QuietInv`).

**`ShmProofs`**, the ring: `TypeOK`, `NoSlotRace`, `InOrder` and that the ring
implements `Fifo`.  Wrapped cursors say nothing by themselves, so the invariant
`RInv` relates each cursor and each stale load to the true counts of pushes and
pops (`CursorInv`, `WriterInv`, `ReaderInv`) and says what every slot between
tail and head holds (`SlotInv`).  The proof needs that the capacity divides the
cursor modulus, which is why the code asks for a power of two.
The feed: it drives the ring only as its
specification allows (`UsesRing`), the ingester exits with nothing
popped and not appended (`ExitClean`), stored timestamps strictly
grow whatever the clock does (`StoredInOrder`), and a stall is counted once.
The invariant adds the clock,
the stamps in the ring and the ingester's hand to `RInv`.
The processes: they drive the feed as `ShmFeed`
allows (`UsesFeed`), so that all of the above holds of them; `HandlerInv`; and
`DepthHonest`, for every capacity and cursor
width.  The invariant adds where `main` is when the loop
has ended and who holds an `Arc` at each point (`ArcInv`), how far the shared
count may lag the pushes and the exported count the shared one, and that the head loaded
by `depth()` is the cursor of `dpushed` pushes, an older count (`DepthInv`).
The segment: `SegmentInv` and `NameIsOurs`.  The invariant `SInv` says that
until `create_force` is used at most one producer is between a successful
`shm_open` and the end of its `Drop` (`OwnerInv`), what each place of
`create_inner` has made of the segment (`LayoutInv`), and that what a reader has
seen of its segment stays so (`AttachInv`).

**`StoreClientsProofs`** proves `HoldsNewest` (reading through `physical_idx`
yields the newest pushes in order, before and after wrapping) and
`InOrderIsSorted` from an invariant that ties every slot to the push that filled
it and the last timestamp to the history.  `QueriesExact` is the functional
correctness of the queries: a bisection ends, for any interval, by induction on
its width; on a sorted ring it finds the boundary, and on any other the two
bisections still do not cross, since the upper one goes right wherever the lower
one does; the two chunks of a copy are the logical range.  `AbiExact` then needs
that a call of `RangeN` with a buffer that was not filled has seen everything;
`KlinesStored` that what was published is stored, in flight or lost with a
connection, and that the numbers stored, then those in flight, increase;
`SizedRight` the bounds of each division.

**`ColdStoreProofs`** proves `FilesStay` and `AnswerRight`.  The invariant `CInv`
says that files have names of their own and rows inside the range the name
advertises, that only files `check_schema_compat` lets through hold candles of
this store (`FileOK`, `FilesOK`), that a kept candle is in no other symbol's ring
or directory (`Own`), and that it is in its ring or in a file of its directory
that can be read (`Found`).  `FilesStay` is a counting argument: a directory of n
files cannot take all of the suffixes 0 to n.  `AnswerRight` takes the answer
apart: what `range` finds in the ring is a run of its candles, and with the ring
in order (`InOrder`, equal timestamps included) exactly those of the window
(`RunOf`, from the lemmas on bisection); the rows of `query_cold` ascend and cover
every timestamp the readable files have in the window, since a file with such a
row is not pruned by its name (`ColdRun`, `NotPruned`); and each turn of
`merge_by_ts` keeps that what was put out comes from the two, covers what it has
passed, lies before what is to come, repeats a timestamp only with the ring's
candles (`Sorted`) and has of a timestamp of the ring nothing else (`Fresh`), by
induction over the turns (`Merged`).  The theorem is for any escaping of the
symbols, colliding ones too; the run has two symbols with a directory each.

**`StrategyProofs`** proves `FoldsRight` and `SignalsAreCrossings`.  The invariant
ties each `RollingSma` to the folded history: the sum is that of the last `filled`
closes and slot `i` of its buffer holds the close folded at `i` modulo the period
(`SmaInv`), timestamps folded increase up to the last one (`FoldInv`), and the
previous averages are those of the history folded so far (`WarmInv`).  That every
signal is a crossing and every crossing a signal is kept along with them.  A batch
of several candles is an induction over the batch.

**`MarketHubProofs`** proves `HubInv`, from the order in which `main` raises the
flags and joins, and from where each thread stands when a signal is pushed,
taken and dealt with; and of the executor `ExecutorInv`, `CrashWindow` and
`FileStaysValid`.  Its invariant `EInv` relates position, file and temporary at
each point of a booking (`FileInv`), and the rate limiter's bucket to the signals
accepted in it and before it (`BucketInv`); those of any one second are then among
twice the limit of successive ones (`WindowInv`).

**`MatchingProofs`**, the book: `BookInv` and `NothingPassedOver`.  The invariant
`BkInv` holds in the middle of a match: every live order is as submitted with what
its fills have left (`RestInv`, `TakerInv`), queues are in order of arrival
(`QueueInv`), what rests does not cross (`CrossInv`), and no fill has passed over
an order that still rests (`PassInv`).  That a FOK order
`can_fill` let through is filled needs the sum of the resting quantities: each fill
takes from the sum what it takes from the order, so the loop cannot run out of
levels first.

The paper engine: `EngineInv`.  The invariant `PInv` says that the
pending orders have increasing ids, no report and no candle that could have
filled them, and that every other id was refused or has its one event (`Account`);
that `on_candle`'s loop keeps it is an induction over the pending
orders, with what was kept, filled and reported so far (`LoopInv`).

The portfolio: `BooksBalance`.  Averages are fractions whose denominators grow
with every blend, so the invariant `BooksInv` counts in a common denominator K of
all of them (`Ledger`): the realized profit is `rho`/K, the cost of symbol s
is `alpha[s]`/K, each cost lies between two prices that traded, and the profit
made up so far, `rho` less the cost of the open positions less K times the change
of cash, is at most one part in `TolInv` of the highest price times the volume.
A fill multiplies K by the size of the position it leaves (`AddedStep`), or
keeps it (`ReducedStep`, `FlippedStep`); only a snap to flat or a dropped dust
leftover adds to the profit made up, by dust of that fill.  Marks enter only at
the end (`PnlWorth`, `BooksImplied`): they cancel, since sums over the
symbols are linear (`TotalLinear`).

The type invariants of the two rings, `InOrder`, `UsesRing`, `UsesFeed` and
`InOrderIsSorted` are proved and not checked by a run of their own; the other results named here are both.

Only model-checked:

* every liveness property (`AppendReturns`, `Settles`, `LoopsEnd`,
  `ClientsProgress`, `CatchesUp`, `SignalsServed`, `ThreadsExit`,
  `SubmitReturns`), and anything under fairness: outside the prover's temporal
  reasoning (no `ENABLED`).

## 7. Not modelled

* `src/affinity.rs`: one platform call per thread; nothing depends on its success.
* Of `src/hw.rs`, the `sysctl` calls of other platforms and the cache-line size.
* Of the C ABI, strings, struct conversion and the panic barrier.
* The metrics endpoint, logging and configuration; the racy reads behind the
  metrics (`snapshot`, `depth`, the flushed and the exported count) are modelled.
* Benchmarks and examples.
* Abstracted inside the modules: floating-point rounding other than price keys and
  the dust tolerance; Parquet and Arrow encodings; the byte layout of records;
  what a power failure keeps of unsynced writes; a change of the risk limits
  between two runs of the executor; prices finer than a quarter of a tick, of which
  only the key they round to matters.
* What `range` answers while the hot ring holds late candles, beyond that it
  misses no spilled timestamp and serves nothing alien: the bisections of an
  unsorted ring may miss some of its candles, as the code says.
