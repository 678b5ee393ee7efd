# A verification project for hft-feed-handler

TLA+ models of the feed handler from the datagram to the replay service and the
backtest, model-checked with TLC on small instances, with proofs checked by
TLAPS for the parts where every size matters. Paths below are relative to the
repository.

## 1. The system

Market data of several venues goes through these parts.

| part | state it keeps | operations | talks to |
|---|---|---|---|
| senders, multicast receiver, sessions, event loop (`src/wire`, `tools/synthetic_mcast_sender.cpp`) | sockets, an epoll edge | open, add, wake, poll, frame | parsers, by callback |
| AF_XDP receiver (`src/transport/afxdp`) | fill and rx rings, umem frames | open, attach, recv, close | kernel, parsers |
| parsers and loaders (`src/proto`, `src/parsers`, `src/apps`) | statistics, a running number | parse_message: bytes to a `BookEvent` | arbiter or pipeline |
| A/B arbiter (`src/phase2/ab_arbiter.cpp`) | a tracker per venue, `pending_`, `ready_` | on_event, drain_ready | pipeline |
| sequence tracker (`src/phase2/sequence_tracker.cpp`) | `next_expected_`, a ring of tags | on_sequence, force_advance | sequencer |
| pipeline with replay recovery (`src/phase2/pipeline.cpp`, `recovery*.cpp`) | tracker, pending events, replay store, recovered events | on_event, finalize | merger, sink |
| deterministic merger (`src/phase2/deterministic_merger.cpp`) | a queue per venue | push, pop_next | sink |
| SPSC and SPMC rings (`include/mf/core`) | slots and indices shared by threads | try_push, try_pop; try_publish, try_read_next | threads |
| sharded pipeline (`include/mf/runtime/sharded_pipeline.hpp`) | a ring and a thread per shard, the submitted events | submit, close_input, finalize, worker_loop | rings, pipelines, merger |
| order books (`src/phase3/order_book_engine.cpp`, `intrusive_order_book.cpp`) | levels, order table; node pool, linked queues, best prices | on_event, snapshot | NBBO, features |
| NBBO consolidator and its journal (`src/phase3/nbbo_*.cpp`, `src/journal/nbbo_*.cpp`) | a top of book per venue, the NBBO, row buffers | update, replay_to_journal, append, next | journal |
| journal (`src/journal`) | buffers, file; mapping and offset | open, append, flush, close; open, next | file system |
| tick replay service (`src/service`) | the rows loaded at start | Health, StreamTicks, QueryNbbo, StreamNbbo | both journals |
| live Bitfinex feed (`src/live/bitfinex`) | on-book orders, feed state, last sequence, sidecar file | on_snapshot, on_update, on_disconnect | order books |
| features, simulation (`src/phase3/feature_*.cpp`, `src/phase4`) | windows and buckets; orders, positions, quotes | on_event, on_fill, submit, cancel | files, Python |
| research (`src/research`) | clock, signal, strategy, feature rows | per event; labels, folds | simulation |

What is hard in it, and so hardly tested: arrivals in any order with losses and
duplicates; events that are processed a second time by recovery; two and more
redundant records of one fact; threads that share a ring with stale indices or
overwrite what another reads; a worker's exit racing a late push; a wake-up that
is reported once; frames that go round between kernel and program; a hash table
with tombstones; linked queues in a pool that runs out; files torn by a crash or
a failed write, and the programs that read them; callbacks out of the middle of
a loop. `PROJECT.json` lists each hazard at its line with the properties aimed
at it.

What makes each part correct:

* wire: a live session decodes what a loader makes of the same file, less what
  was lost; every datagram is read; no frame is in two places;
* loaders: they agree with each other on the same messages;
* tracker: it advances only over numbers that arrived, or in a counted jump;
* arbiter and pipeline: each event once and in order, nothing lost without a
  counted jump, a gap closed when the replay store has what is missing, and a
  failover that the sink cannot see;
* merger: the order depends on the events, not on their arrival;
* rings: a FIFO queue without slot races; never a torn value;
* sharded pipeline: each symbol in order, everything processed that a worker
  could see at its last poll, no gap in a worker's numbers but those of refused
  submits, one deterministic final order, and finalize returns;
* books: both books agree with each other and with the exchange;
* NBBO: the best of the venues' tops, and a service that answers from exactly its
  changes;
* journal: what is read was written, whole, a tear is reported, and what was
  synced lasts;
* Bitfinex: a live tracker is the exchange's book at the number it has reached;
* simulation: the records of orders and money agree, limits hold, and the data
  set does not look ahead.

## 2. Modules

| module | models | composes |
|---|---|---|
| `SequenceTracker` | tracker as operators on a record | |
| `TrackerSpec`, `GapSequencer` | the tracker by itself; abstract sequencer that remembers all arrivals | `SequenceTracker` |
| `DeterministicMerger` | per-venue queues and `pop_next` | |
| `Pipeline` | on_event, recovery loop, finalize | `SequenceTracker`, `DeterministicMerger` |
| `ABArbiter` | on_event, drain_ready, two lossy feeds | `SequenceTracker` |
| `ABFailover` | arbiter, pipeline and the failover drill as the tools wire them | `ABArbiter`, `Pipeline` |
| `SPSCRing`, `BoundedFIFO` | the ring access by access; abstract bounded queue | |
| `SPMCRing` | seqlock ring word by word | |
| `OrderTable`, `TableSpec`, `OrderMap` | open addressing with tombstones; the table by itself; abstract map | |
| `OrderBookEngine`, `IntrusiveOrderBook` | the two books as operators on records | `OrderTable` |
| `BookParity` | exchange, feed and both books | both books |
| `ShardedPipeline` | owner, workers, closing thread | `DeterministicMerger`; a ring is the FIFO of `BoundedFIFO` |
| `TickService` | NBBO journal file and reader, catalogue, queries, as operators | |
| `NbboJournal` | consolidator, replay_to_journal, row writer, service start | `TickService` |
| `Journal` | writer, file, crashes, reader and the reader's clients | |
| `BitfinexFeed` | exchange, web socket, parser, resync state machine, sidecar | `OrderBookEngine` |
| `FeedParsers` | ITCH (both paths), PITCH, DEEP and MDP 3.0 as tables | |
| `WireFraming` | framer, packer, synthetic sender, loaders, UDP payload of a frame | `FeedParsers` |
| `WireFeed` | sender, network, both receivers, sessions, event loop | `WireFraming` |
| `FeaturePipeline`, `SimMatchingEngine`, `PnlAccountant` | operators on the state of one symbol | |
| `Backtest` | runner, feature bridge and market making strategy | those three |
| `AlphaLab` | labels and purged folds of a data set | |
| `Experiment` | experiment runner, order flow strategy and signal, feature store | `Backtest`, `AlphaLab` |
| `FailoverProofs` | proofs about `TrackerSpec` and `ABFailover` | `ArithmeticLemmas` |
| `ConcurrencyProofs` | proofs about `SPSCRing`, `SPMCRing` and `ShardedPipeline` | `ArithmeticLemmas` |
| `BookProofs` | proofs about `TableSpec` and `BitfinexFeed` | `ArithmeticLemmas` |
| `JournalProofs`, `NbboProofs`, `WireProofs`, `BacktestProofs` | proofs about `Journal`, about `NbboJournal` and the pool of `BookParity`, about `WireFeed`, about `Experiment` | `ArithmeticLemmas` |
| `MC*` | constants of the runs that need definitions of their own | |

Correspondence. A variable has the name of the member it stands for; an action
is one call, or one step of a call where another thread, a callback or a crash
can come between. `PROJECT.json` maps each definition to its lines. A definition
whose comment begins "Mutant of" is a plausible mistake in the definition after
it; it is used only to see that a property can fail.

What the data became:

* an event is its venue and sequence number in the pipeline; its order id,
  symbol, side, price and quantity in the books; nothing else decides there.
* the race stream of a drill is the set of its places that are not yet sent;
  place p holds a copy of event (p + 1) div 2, and the least place is next. The
  arbiter's `pending_` is the number of copies per sequence number, as on_event
  sorts it before it looks at it.
* the loops of the recovery simulator and of the release run from the least
  number up; `Ascending` is that order of a set of numbers.
* a message is its type letter, its length in bytes and the values of its
  fields. A walk over length-prefixed bytes stops where the end offset of the
  next message passes the bytes there are. Byte order is left out; conversions
  of width are not (`U32` stands for 2^32).
* a level vector, which `lower_bound` keeps sorted, is a function from prices to
  quantities. The replay store is *not* abstracted so: it is bisected unsorted,
  and the model follows the bisection.
* the hash is any function (a constant) of the keys into the slots.
* in the event journal a record is four units, in the NBBO journal three, so
  that a write can end inside the header, inside the payload or between records.
  A CRC fits its own payload and no other.
* numbers of the Bitfinex wire are integers of which `Grain` make one unit of
  the book; a row that rounds to nothing or does not fit is told apart, and an
  amount printed with an exponent is read back as its mantissa.
* a packet of a pcap file has its headers' fields, its messages and, if it is too
  large for the loaders, what they find when they take its bytes for packets
  (`inside`). The memory behind a packet is one of the runs of messages in
  `Beyond`.
* doubles of the accountant are exact fractions; in the backtest the order books
  are the best price each event leaves behind.
* the tracker's 64-bit numbers do not overflow in the model; at one event per
  nanosecond they would after five centuries.

## 3. Runs

| run | bounds | shows |
|---|---|---|
| `tracker` | window 3, numbers 0..11 | exact ring of tags; implements `GapSequencer` |
| `failover` | window 2, slack 2; two venues with tied timestamps and five arrivals of 1..6 straight into the pipeline; five numbers and two copies each, any loss, in a race; a source of seven events in the drill | what waits is recorded consistently, once and in order, no loss without a counted jump, recovery, and a drill the sink cannot see |
| `spsc` | four slots, three times round | FIFO, no slot race, every item arrives |
| `spmc` | two slots, two words, two readers | no torn value; only overwritten items are skipped |
| `order_table` | four slots, five keys that collide | implements `OrderMap` |
| `books` | three ids, two prices, both sides, a pool of two or three nodes, one message lost or one order refused in the pool of two | the books agree; the reference book equals the exchange; queues and pool stay whole |
| `sharded` | two shards, two venues, rings of one, two events per venue, three local numbers per shard and venue | gaps in local numbers are refused submits, symbol order, nothing left behind that was there at the last poll, final merge order, finalize returns |
| `nbbo` | two venues, two prices a side, another symbol, two timestamps in any order, three events, a buffer of two rows, failing writes | NBBO, what is served, what a query answers |
| `journal` | four events, buffer of two records, failing fsyncs, crash, power loss and restart, streams with and without a limit | torn, short and lost writes and what each reader says of them; what was synced stays |
| `bitfinex` | two orders of which one has three wire rows (two prices, two quantities, one row that does not fit) and one an unreadable row, four trades, three frames in flight, two faults (loss, disconnect, also inside a message) | tracker, order book and sidecar against the exchange |
| `wire` | seven live captures of three to five messages over UDP and AF_XDP, two socket slots, four frames, two strays, receive errors; all captures of up to three entries of seven kinds, each message type once, pairs of packets, oversize ones and ones with an impossible UDP length among them | live session against file, frame ownership, agreement of loaders, every datagram read |
| `backtest` | tapes of up to seven of ten events; cap 1/2, quote size 3, limits 2; three folds | orders, money, flow, position limit, folds |

Why the bounds are enough: a gap window of two or three has a gap at, below and
beyond its edge; five arrivals are more than the replay store holds and enough
to force a jump, refill the window and recover; rings wrap several times; the
order table is smaller than its keys, so that probes wrap and cross tombstones;
three order ids give a head, a middle and a tail, and exhaust a pool of two; a
ring of one makes submit meet a full ring, and a third number lets a refused
event be submitted again; an order with two prices and two quantities is replaced
in both; two socket slots overflow and four
frames go round; two faults put a gap inside a resubscription; a quote of three
against prints of half their size is filled in parts, turned round and refilled;
seven rows in three folds have rows before, in and after the test, with ties.

The inductive invariants of the proofs (`FailoverInv`, `HealInv`, `SeqlockInv`,
`JournalInv`, `ShardedInv`, `RingInv`, `ConsolidatorInv`, `FrameInv`, `FeedInv`,
`ExperimentInv`) are ordinary definitions of their modules;
each was checked with TLC as an invariant of its run before it was proved, and
any of them can be added to the run's configuration.

Deadlock is checked except where a run ends: the bounded supply of order ids,
numbers, items, messages, trades, rows or events is used up and the program
would wait for more.

### Where the code disagrees with what is said of it

The models follow the code in these points, and no property claims the contrary;
where a property is restricted because of one, its comment says so. Two can be
seen with the definitions here: `Feed = "ITCH"` in `MCBooks.cfg` makes
`SnapshotsAgree` fail, and `ABArbiter!BufferedIsAccepted` as an invariant of
`failover` fails in a race.

Sequencing and failover

* The replay store is bisected although it is in order of arrival, so after a
  late event a stored number may not be found (`recovery_simulator.cpp:33`).
  `StoredGapIsHealed` is therefore stated for a store in order.
* The arbiter erases what it buffered: `on_sequence` has moved `next_expected`
  past the buffered numbers before the sweep reads it, so all of them look old
  (`ab_arbiter.cpp:53`), although `docs/architecture.md:73` says "small gaps are
  buffered". The branch commented "Re-run as recovered/incoming path."
  (`ab_arbiter.cpp:59`) is unreachable, which `HeldRecordsAgree` shows. The
  drill sends both copies of a number side by side and does not meet this.
* After a forced advance the arbiter's `next_expected` stays on the number it
  dropped, so a feed that goes on in order is buffered and skipped, and stale
  copies stay in `pending_` until an event is accepted (`ab_arbiter.cpp:31`).

Rings and shards

* A reader of the seqlock ring that is lapped before it has used up its cached
  count gets `RetryLimit` on every call (`spmc_seqlock_ring.hpp:53`);
  `KeepingUpReadsAll` is stated for readers that are not lapped.
* An event pushed between a worker's last poll and its load of `input_closed_`
  stays in the ring (`sharded_pipeline.hpp:242`); `SymbolOrderKept` allows that.
* submit uses up a local number before it knows whether the ring takes the event
  (`sharded_pipeline.hpp:91`). When it returns false and the caller submits again,
  as `tools/sharded_replay_bench.cpp:120` and
  `tests/test_runtime_sharded_pipeline_determinism.cpp:58` do, and the worker has
  made room meanwhile, the shard's tracker sees a gap. `GapsAreRefusals` says that
  there are no other gaps.
* A caller that submits again and again into the full ring of a worker that has
  left never gets to finalize. `FinalizeReturns` is about a caller that gives up:
  `MaxNumbers` bounds its attempts.
* `local_seq_by_shard_` is indexed beyond its three entries by CME and Bitfinex
  events (`sharded_pipeline.hpp:90`).

Books

* ITCH and PITCH messages about an existing order carry no symbol; the reference
  book reduces the book of the event's symbol (`order_book_engine.cpp:205`), the
  intrusive book that of the order. MDP 3.0 events have their sequence number as
  order id and DEEP replacements have no reference, so their deletes and
  replacements match nothing.
* Tombstones never become free slots; once every slot has been used the order
  table refuses each new key (`order_book_engine.cpp:170`), and an order it
  refuses stays in its level for good (`:219`).
* An Add of quantity 0, to which a Bitfinex amount may round, leaves a level of
  quantity 0 that counts as the best one of its side (`order_book_engine.cpp:89`).
  The model does not tell such a level from none; no property here depends on it.

Journals and service

* A journal that is not empty cannot be opened for appending, as its header is
  read through a descriptor opened with `O_WRONLY` (`journal_writer.cpp:40`,
  `:118`).
* flush and close throw away what `fsync` returns (`journal_writer.cpp:79`, `:88`),
  so that the "stronger durability" of `journal_writer.hpp:20` fails without a
  word. `FlushIsDurable` is about fsyncs that succeed: it says that the code syncs
  after it has written and never harms what was synced.
* `compute_semantic_crc`, `EventStore::replay` and `nbbo_journal_from_book` look
  only at CRC failures and pass over a rest that is shorter than a header;
  `journal_diff` and `nbbo_journal_diff` do not report a torn tail.
* The NBBO writer does not report a failed write, and the catalogue neither a
  torn row nor a CRC failure (`replay_catalog.cpp:58`).
* `QueryNbbo` answers with the first row of the newest timestamp, not the last
  (`tick_replay_service.cpp:98`); `QueryAnswersAsOf` is stated for timestamps
  with one change.

Bitfinex

* The sidecar prints amounts below 1e-4 with an exponent and reads back only the
  mantissa; a torn sidecar reads as a shorter one; the result of the write is
  ignored (`resync_state_machine.cpp:34`).
* A snapshot with an unreadable row, or none, is refused as a whole, and the feed
  stays off until another comes.
* `WsClient` keeps the part of a message that a broken connection had delivered,
  and reads the first message of the next connection behind it
  (`ws_client.cpp:86`). That first message is then refused, or passes for the
  message that was cut: the control message, as a rule. The model lets such a
  message do nothing, or ask for a subscription when the feed is not live.
* Nothing cancels the orders of the book before a snapshot, so they stay in the
  order book (`resync_state_machine.cpp:20`); `BookCarriesTracker` counts them as
  `orphans`.

Wire and loaders

* A datagram of length zero, and any error of `recv`, ends an edge-triggered drain
  and strands the rest until the next arrival (`feed_session.cpp:36`, `:40`).
* A refused message uses up a sequence number, which looks like a gap later.
* PITCH framing takes the number from the first eight characters, which are the
  message's timestamp (`framing.cpp`); only the synthetic sender writes a number
  there.
* The IEX framer expects a header of 36 bytes in network order, the pcap loaders
  one of 40 bytes in little endian.
* `afxdp_itch_producer` sends the first messages of its file in every datagram;
  the AF_XDP path does not fill in missing timestamps as the offline one does.
* `AfxdpReceiver::close` does not detach the XDP program.
* The IEX loaders differ. Those of `phase1_parser_validate` do not pass over the
  bytes of a packet of more than 65535 bytes and take them for packets
  (`phase1_parser_validate_main.cpp:200`, `:379`); `load_iex_pcap` of the evidence
  tool passes over them, but subtracts the UDP header without the test its twins
  have, and with a UDP length below 8 reads on behind the packet
  (`phase2_ab_evidence_main.cpp:117`): the model then takes any of `Beyond` for
  what is there, or ends the tool. `LoadersAgree` says that they differ in nothing
  else. None of them looks at the IP version.

Simulation and research

* A fill that turns a position round and leaves no more than it closed keeps the
  old average cost (`pnl_accountant.cpp:35`); `ProfitIsCash` leaves such symbols
  out. Equity adds realised profit to cash that already holds it (`:64`).
* `max_inventory` only limits the skew of the quotes (`strategy.cpp:40`).
* A `vpin_bucket_volume` of 0 loops for ever (`feature_pipeline.cpp:110`), and a
  timestamp that runs backwards empties the window, as ages are unsigned (`:77`).
* The `OfiStrategy` may exceed `max_position` by less than one quote, which is
  what `PositionBounded` says (`ofi_strategy.cpp:103`).
* A training row's label may use a price inside the test when nothing was
  observed between the end of its horizon and the test, and `is_leaky_split`
  does not see it; the default purge of 2 s is shorter than the label horizons
  of 5 s and 10 s.

### Fairness

* `spsc`: weak fairness of every step of producer and consumer. Both are loops
  of threads that run until done; that an index store becomes visible is what
  release and acquire give on every supported machine.
* `sharded`: weak fairness of the owner and of each worker, which are threads
  that spin and yield. Closing the input from another thread is *not* fair.
* `spmc`: weak fairness of the writer within one publish and of the readers'
  steps; a reader calls until it has caught up. The writer need not publish.
* `wire`: weak fairness of the session's own steps (`Wake`, `PollSocket`,
  `TakeFrame`, `CopyFrame`): `run_once` is called in a loop and epoll reports an
  edge that is set. Senders, strays, opening and stopping are not fair.

## 4. Proofs

Checked by `tlapm` without a gap; the constants are arbitrary under the named
assumptions of the modules.

* `FailoverProofs`, the tracker (assumes `GapWindow \in Nat` and numbers in `Nat`). The
  inductive invariant is types, every tag in its own slot and inside the window,
  and the tags equal to the arrivals above `next_expected`. The window part is
  needed because only there do two numbers of one slot have to be equal
  (`ModWindow`). From it: `TagsInWindow`, `HeldAreArrivals`, `NoSilentSkip`, and
  that the tracker implements `GapSequencer`.
* `ConcurrencyProofs`, the SPSC ring (assumes a positive size). The invariant places the
  indices that each thread last saw between the true ones; a producer may hold
  an old head, never a head that is too new. From it: `NoSlotRace`, and that the
  ring implements `BoundedFIFO` with room for `Size - 1` items.
* `BookProofs`, the order table (assumes any hash into the slots). The invariant says of every
  live slot that the probe for its key comes to it before any slot that stops
  it. An insertion into a tombstone needs that the key has no entry further on,
  which is what the full probe of `put_order` establishes; an erased slot stays
  a tombstone and stops no probe. From it: `EveryEntryFound`, the count, and
  that the table implements `OrderMap`.
* `FailoverProofs`, arbiter and pipeline (assumes a gap window in `Nat`, venues, sequence numbers and
  timestamps in `Nat`, any recorded source; nothing about arrivals, losses,
  duplicates or the time of a finalize). `FailoverInv` has a part per stage. The
  pipeline's part says of each venue that the tags lie in the window and equal
  `pending`, that what went to the merger or the sink increases and is below
  `next_expected`, and, while no jump was counted, is *all* below it; and that
  during a finalize what was sent goes before all that is queued. The steps of
  `process_event` come down to four facts about the tracker (`AfterInOrder`,
  `AfterGapBuffered`, `AfterForceAdvance`, `HeldInWindow`); the release then
  appends a run of consecutive numbers because every released number is
  pending. The arbiter's part says that its tags are the pending copies *above*
  `next_expected`: after a jump stale copies remain below, and the invariant
  must allow them. From it: `HeldRecordsAgree`, `NoLossWithoutForcedAdvance`,
  and `InOrderOnce`. The last assumes `TimesMonotone`, that timestamps do not
  run backwards within a venue: without it the merger cannot put a venue's
  queue into merge order, and the code does not claim to. `MCFailover`'s
  timestamps satisfy it.
* `FailoverProofs`, recovery: `GapsHeal` is `StoredGapIsHealed` for every run of
  the pipeline. `HealInv` says that as long as events wait for a number which the
  store holds with nothing smaller behind it, that number is among the recovered;
  that a recovered event is past, waits or is the next one, so that processing it
  again asks for nothing; and that the store holds no other numbers. `LookupFinds`
  shows what the bisection finds; the loop that reinjects is followed event by
  event.
* `ConcurrencyProofs`, the seqlock ring (assumes a positive size and number of words). `SeqlockInv` says
  which slot is marked, that a slot's version is the newest item begun for it,
  that an unmarked slot is whole, and of a reader inside its copy that either the
  words copied so far are its item's or the slot's version has gone past it, so
  that the second load must differ. From it: `NoTornRead` and the action
  property `SkipsOnlyLostItems`.
* `JournalProofs` (assumes a buffer of at least one record). `JournalInv`
  describes a file after any number of crashes and short writes as a chain: a
  unit is followed by the next part of its record or by the start of a later
  record. It relates the buffer to the records behind those in the file, the
  synced length to what had been appended when an fsync succeeded, and the reader's offset to its
  deliveries as long as it has no error. From it: `DeliversWhatWasAppended`,
  `FlushIsDurable`, `TearReported`.
* `ConcurrencyProofs`, the shards (assumes the venues 0 to 2, for which the code has counters, and
  timestamps in `Nat`; any shards, symbols, routing and capacity). `ShardedInv`
  places every submitted event among those pushed to its shard by counting
  (`CountUpTo`), says that every local number was given once, to an event that is
  pushed, is held by submit or was refused, and that the numbers of the pushed ones
  rise, and describes the merger between two calls of `pop_next`: what is left
  of a venue are the numbers behind those that went out, and a front that has
  been waiting is greater than what went out meanwhile. From it:
  `GapsAreRefusals`, `SymbolOrderKept`, `ReaggregatedIsMerge`. The theorems are
  about `Spec`, which has no fairness, and so about `FairSpec` of the run.
* `NbboProofs` (assumes a finite set of venues with numbers and positive prices and
  quantities). `ConsolidatorInv` says that the tops the consolidator keeps are
  those of the venues' books of its symbol and that the NBBO is computed from
  them. That the scan over the venues gives the best, with a tie going to the
  lowest slot, is shown for any finite set of venues. From it:
  `NbboIsBestOfBooks`.
* `NbboProofs`, the intrusive book's pool (assumes that a pool has a natural number
  of nodes). `PoolOK` says of a book that its free list holds each dead node once,
  that the index leads to live nodes under their own keys, and that every live
  node is in the index; levels and links do not come into it. `PoolInv` adds that
  the keys come from the ids given out, so that an add cannot meet its own key even
  after the message that would have removed it was lost. A replacement is deleted
  before its successor enters (`ReplacePool`). From it: `PoolAccounted`, one of the
  two parts of `BookIntact`.
* `WireProofs` (assumes at least one frame). `FrameInv` counts the frames in the fill ring, in
  the rx ring and with the receiver, and says that together they are all of
  them; that no frame is in two places follows because the numbers add up. From
  it: `FramesOwnedOnce`.
* `BookProofs`, the Bitfinex feed (assumes what is said of a wire row: its id is a
  key, its price is not zero and either rounds to a price of the book or does not
  fit). `FeedInv` says what is on the wire: a snapshot is the exchange's book
  at its number, and an update carries the change that the exchange made under
  that number, so that a tracker that applied all up to a number has the book at
  that number. Losses and resubscriptions leave the rest of the wire as it was.
  From it: `TracksExchange` and `SidecarRestores`.
* `BacktestProofs` (assumes the record type of a tape event, a positive quote size,
  bucket volume and position limit, at least one bucket; any tape, cap, skew,
  threshold and window). `ExperimentInv` says that a quote is nothing, or the one
  order of its side, known to both maps and within the numbers given out. A book
  has therefore one order at most and a print one fill at most, which makes the
  folds of the model folds over at most one element. `Bounded` is kept by every
  fill because position and resting quantity move against each other, and is
  established by `OfiRequote` from the position alone. For the windows,
  `SumSplit` adds up the two parts of a sequence; the loop that closes buckets is
  followed turn by turn down to a rest below `BucketVolume`. From it:
  `OrdersAgree`, `PositionBounded`, `FlowAccounted`. `MoneyInv` says of an account,
  without fractions, that its profit is its cash and what its position cost; of a
  fraction in lowest terms only the product that defines it is used. A fill that
  adds keeps it through the new average cost (`IncreaseProfit`); one against the
  position closes its own size or the whole position, and then leaves the old
  cost, none or its own price (`Against`, `ReduceProfit`), or is one of those that
  `KeepsOldCost` names. Quotes and marks move no money. From it: `ProfitIsCash`.
* `ArithmeticLemmas`: facts about remainders, least members, functions that are
  sequences and counting the members of a set up to a bound.

Properties about sequences are stated by index (`PublishedInOrder`,
`SymbolOrderKept`, `IsMerge`) and not with filters: what a filter of a sequence
computes is defined by recursion, about which nothing can be proved here.

Only model-checked, and why:

* liveness (`EveryItemArrives`, `KeepingUpReadsAll`, `FinalizeReturns`,
  `EveryDatagramRead`): the prover has no reasoning about fairness here;
* `FailoverTransparent` compares with the sorted source, and `FoldsDoNotLeak` with
  filtered rows: what sorting and filtering compute is recursive over data;
* `ServedIsChangeLog` and `QueryAnswersAsOf` for the same reason (the rows served
  are filtered and walked);
* `SnapshotsAgree`, `MirrorsExchange` and `QueuesIntact` of the two books, and
  `BookCarriesTracker`: sums over the orders of a level, and linked queues;
* `WireReplaysFile` and `LoadersAgree`: folds over the messages of a capture.

## 5. Not modelled

* Byte order and bit layout of the wire formats; the C++ memory model beyond
  stale index loads in the SPSC ring: `SPMCRing` takes accesses in program order.
  `spsc_ring_aligned_storage.hpp` differs from the ring in its allocation only.
* Floating-point statistics: effective spread and regression of the features,
  IC, Sharpe and deflated Sharpe of the alpha lab, tear sheets and reports.
* The reconciler: it replays one file twice through one deterministic engine, so
  that its comparison cannot fail; what two books owe each other is
  `SnapshotsAgree`.
* The JIT bridge (a copy into an SPMC ring), the event store (the journal reader
  behind another interface), gRPC transport.
* Benchmarks, thread pinning, NUMA and huge pages, command lines.

## 6. Plan

1. Done: every part of section 1, alone and composed where parts interact.
2. Done: proofs of tracker, arbiter, pipeline and recovery, both rings, order table,
   sharded pipeline, journal, NBBO, the intrusive book's pool, AF_XDP frames, the
   Bitfinex tracker and the simulation's orders, position limit, flow and profit.
3. Left to model checking: what section 4 lists.
