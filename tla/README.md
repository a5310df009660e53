# TickForge, specified in TLA+

A verification project for `tickforge-distributed`: TLA+ modules for its parts,
TLC runs on small instances, and TLAPS proofs for all instances. Paths are
relative to the repository (`src/` here is the repository's root).

## 1. The system

Market events flow through two processes that share only a Kafka topic:

    Binance WebSocket --> LiveSource --\                    +-- services/ingestion --+
                                        > IngestionPipeline: ingest thread           |
    capture file -----> ReplaySource --/    --> BoundedQueue --> publish thread      |
                                                 --> KafkaEventProducer --> topic    |
    topic --> KafkaEventConsumer --> services/consumer (counts per partition)

### Inventory

| Part | State | Operations | Hard behaviour | What makes it correct |
|---|---|---|---|---|
| `BoundedQueue<T>` | `std::queue`, high-water mark, `shutdown_`, one mutex, two condition variables | `push`, `pop`, `shutdown` | any number of threads; notify after unlock; spurious wakeups; shutdown racing a wait | FIFO, bounded, drain then stop, no lost wakeup, everyone is released |
| `IngestionPipeline` | two threads, a queue, four atomics, `started_`, `stopped_` | constructor, `start`, `requestStop`, `stop`, destructor, `runIngest`, `runPublish` | calls of the owner against two threads; failures between two steps of `start` | no event dropped or reordered, clean stop, destruction is safe and ends |
| `MarketDataSource` | a stop request | `start`, `stop`, `next` | `stop` from another thread | false only after `stop` or at the end |
| `LiveSource` | the connection under a mutex, two flags, counters, backoff | `start`, `stop`, `next` (with `connectOnce`, `ensureConnected`) | `stop` at any point of connecting and reading; reconnects | nothing open after `stop`, no dangling stream, exact counters, `stop` unblocks |
| `ReplaySource` | a stream on a file, a stop flag, a counter | the same | `stop` between test and read; lines that are empty, malformed or make the parser throw; a second `start` | file order, a malformed line costs one line, false is final |
| `EventRecorder` | an append-only file | constructor, `record` | a write cut short by a kill or a full disk; what the next run appends to | the capture holds what was recorded |
| `KafkaEventProducer` | two counters; librdkafka's queue | `publish`, `flush`, delivery report, destructor | late, failed and repeated deliveries; timeouts | every event accounted once; final figures complete; order per symbol |
| `KafkaEventConsumer` and its service | a flag, counters; offsets in librdkafka and the broker | constructor, `start`, `next`, `stop`, destructor; `main` | crash and restart around commits; bad messages; signals | loss and repetition bounded, nobody starved, a signal ends it |
| `EventPublisher` | what was accepted and not yet reported | `publish`, `flush` | results that come late, or not before the timeout | only stored events count as delivered, each once |
| ingestion service `main` | a flag, the parts above | construction, polling loop, reports, shutdown | signal against end of replay; figures read while threads run | always ends, prints what happened |
| ingestion demo `main` | a flag, a source, a recorder | the same without queue and Kafka | kill and restart on the same capture file | a replay is the capture; it always ends |
| JSON codec, Binance parser | none | two conversions, one parser | 64-bit edges, numbers that are not finite, round trip | accepts what it should, loses only what it must |
| `getEnvOr`, benchmark | none of their own | | | not modelled |

`PROJECT.json` lists the parts under `components` and, under `hazards`, every
place in the code where something can go wrong that a test would hardly reach,
with the properties that watch it.

## 2. The modules

| Module | Models | Uses |
|---|---|---|
| `BoundedChannel` | the contract of `BoundedQueue`: a closable bounded FIFO channel, one atomic step per call | |
| `BoundedQueue` | `bounded_queue.hpp`, with mutex and condition variables | implements `BoundedChannel` |
| `IngestionPipeline` | `ingestion_pipeline.{hpp,cpp}`, with the recorder | its `queue_` is a `BoundedChannel`; its source behaves as `MarketDataSource` |
| `MarketDataSource` | the contract of the interface | |
| `LiveSource` | `live_source.{hpp,cpp}` | implements `MarketDataSource` |
| `MarketEventJson` | `market_event.hpp`, `market_event_json.{hpp,cpp}`: operators, no state | |
| `BinanceTradeParser` | `binance_trade_parser.{hpp,cpp}`: operators | extends `MarketEventJson` |
| `EventRecorder` | `event_recorder.{hpp,cpp}`: what each call does to a file | extends `MarketEventJson` |
| `ReplaySource` | `replay_source.{hpp,cpp}` | implements `MarketDataSource`; reads with `MarketEventJson` |
| `IngestionDemo` | `src/ingestion_demo_main.cpp`, over several runs of the process | extends `ReplaySource`, whose file is the capture, and composes it with `BinanceTradeParser` and `EventRecorder` |
| `EventPublisher` | the contract of `event_publisher.hpp`, with the producer's delivery counts | |
| `KafkaProducer` | `kafka_event_producer.{hpp,cpp}` | implements `EventPublisher` |
| `IngestionService` | `services/ingestion/main.cpp` | composes `IngestionPipeline` and `EventPublisher` |
| `KafkaConsumer` | `kafka_event_consumer.{hpp,cpp}` and `services/consumer/main.cpp` | |
| `MC*` | instances for TLC | |
| `*_proofs` | theorems about the module they extend | |

Variables keep the names of the members they stand for (`queue_`,
`stop_requested_`, `delivery_successes_`); variables marked *history* in the
declarations exist only so that properties can speak of the past. Where threads
are involved a variable holds the point each thread has reached, and an action
is the stretch of code up to the next point at which another thread can
interfere. `map` in `PROJECT.json` gives the lines behind every definition.
Operators commented *Mutant* are plausible bugs: substituted for the definition
after them they make a property fail, which shows that the property depends on
that line of code. They are not part of any specification.

**BoundedQueue.** Taking the mutex and testing the predicate is one step
(`PushTest`), releasing it into the wait set one (`PushBlock`, atomic in
`condition_variable::wait`), the critical section up to the unlock one
(`PushEnqueue`, `PushRefused`), and the notification, which the code issues
after the unlock, one (`PushNotify`). `notify_one` wakes any one waiter or
nobody; a woken thread competes for the mutex again. Spurious wakeups are
actions. `pop` is alike, and `shutdown` is three steps.

**IngestionPipeline.** The owner may call `requestStop`, `stop` and the
destructor in any order after or without `start`; `start` is called at most
once, as everywhere in the repository (a second call would assign to a joinable
`std::thread`). Creating a thread may throw between any two steps of `start`.
The publisher accepts or rejects at will. Because `queue_` is the abstract
channel, this module stays small, and `ImplementsChannel` justifies it.

**LiveSource.** The network decides whether connecting succeeds, when a
connection breaks and when a message arrives. Two facts about the platform are
constants: `CloseWakesRecv`, whether `close()` ends a `recv()` that another
thread is blocked in, and `HandshakeEnds`, whether connecting and shaking hands
always returns. A message with a number beyond double's range makes the parser
throw what nobody catches: the reader is then "aborted".

**MarketEventJson, BinanceTradeParser.** A text is a record that says what the
JSON library makes of it (no JSON, JSON whose number throws, a value, an object
with typed fields). Integers keep a width: `W` bits stand for the code's 64 and
`Scale` clock ticks for the million nanoseconds of a millisecond, so that
`TimeFromMs` overflows in the model where `milliseconds -> time_point` does in
the code (signed overflow, which this build wraps). Doubles that are not finite
are written as `null`. `FromChars` has one text for each case of
`std::from_chars`, trailing characters, `inf` and `nan` among the accepted ones.

**ReplaySource.** The test of the stop flag and `getline` are two steps. A second
`start()` opens a stream that is open already, so it throws and leaves the
stream failed.

**EventRecorder, IngestionDemo.** A file is its lines and whether the last one
lacks its newline; a line appended to a torn one is lost with it. The demo runs
up to `MaxRuns` times on two files, each time live or in replay, recording or
not; a signal, a kill (inside `record` too), a failed write and an exception
from the parser can come at any time, and only the files outlive the process.
Its live source is `LiveSource`'s loop without the connection; whether a waiting
`next()` returns after `stop()`, which `LiveSource` derives from its two platform
constants, is here the constant `LiveStops`. The capture may be
there before the first run, without events of ours (`DemoAssumption`, which also
says that JSON's integers in a message are of the codec's width and that its
price is a text `FromChars` knows).

**EventPublisher, IngestionService.** The service is the pipeline's module with
`main()` in the place of its arbitrary owner, and the publisher by its contract:
events are pending until reported, and reports are called back in the poll at the
end of `publish()`, after the event was handed over, in `flush()` or in the
destructor. Each figure of a report is read in a
step of its own. `Die` stands for a kill and for every exception that ends the
process. That `KafkaProducer` implements `EventPublisher` (`PublisherSpec`) is
what makes this composition speak of the Kafka producer.

**KafkaProducer, KafkaConsumer.** librdkafka and the broker are external: their
actions are taken from how the code configures and calls them (marked
`external` in the map). For the producer: messages of one key leave in order,
requests or acknowledgements get lost and the message is sent again, messages
expire, reports wait for a poll. For the consumer: a poll stores the offset of
what it hands out, a timer commits what is stored, closing commits unless the
broker is away. The process can be killed at any step and started again; a
group rebalance between several members is not modelled.

## 3. The runs

| Run | Instance | Result |
|---|---|---|
| `queue` | 2 producers, 2 consumers, 1 stopper, 1 item value, capacity 2, 4 pushes; fairness | passes |
| `pipeline` | 2 events, capacity 1, 4 events emitted, both kinds of source, thread creation may fail; fairness | passes |
| `pipeline_capacity0` | capacity 0 | the destructor hangs |
| `live_source` | backoff 1, 2, 3, 3; 3 messages, 3 connects, 4 failures; fairness | passes |
| `live_close` | `CloseWakesRecv = FALSE` | `next()` stays blocked |
| `replay` | `W` = 4, `Scale` = 3; files of 3 lines of 7 kinds, and of 1 line with every time and sequence number or one odd field | passes |
| `demo` | 5 messages of which 3 arrive, 3 runs, 2 first captures; fairness | passes |
| `service` | 1 event value, capacity 1, 2 events, 1 periodic report and the final one; fairness | passes |
| `producer` | 2 symbols, 3 events, library queue of 2, 2 losses | passes |
| `consumer_service` | 2 partitions, 2 messages of 3 kinds, 2 runs of the process; fairness | passes |
| `consumer_atleastonce` | events only | a committed message was never processed |
| `consumer_corrupt` | 3 kinds | the process aborts |

What they show, beyond the names of the properties:

* `queue`: `PushProgress` says of a blocked `push()` that it returns or another
  one is accepted meanwhile. With the pipeline's one producer that means that
  every push returns. Of several producers one may be overtaken for ever, since
  `notify_one` gives it another look at the queue and no more. After `shutdown()`
  every push returns. None of this rests on `MaxPushes` running out.
* `replay`: each line read is returned, counted as malformed or empty, except one
  whose number makes the parser throw: it is the last one read, and the process
  ends (`ReplayFaithful`). Whatever a line holds, an event read from it survives
  being recorded and read again (`RecaptureStable`); the one exception is a time
  that overflowed, which loses what is below a millisecond, once. After false, or
  `stop()`, nothing comes any more, not even after another `start()`.
* `demo`: `CaptureComplete` counts the damage of kills and full disks: each write
  that was cut short costs at most one event that was recorded without error
  (the one appended to the torn line). `ReplayMatchesCapture` goes from the provider's
  message through parser, recorder, file and a second process: what comes out is
  what was captured, times rounded to milliseconds, without the events whose
  price JSON cannot hold.
* `service`: a report is no snapshot, but none of its figures runs ahead of the
  truth (`ReportTruthful`); the final ones are complete, and if `flush()` did
  not time out, delivery included (`FinalStatsAddUp`).
  `DeathLoss` says what a death costs, at whatever moment it comes: of the events
  received the broker lacks at most what is queued, which the capacity bounds,
  what the two threads have in hand, what librdkafka had accepted and not
  delivered, which it does not bound, and what was already counted as failed.
* `pipeline`: `DestructionTerminates` covers a `start()` that failed halfway, with
  one exception, which is the hang described in section 5: the second thread
  could not be created (`Undrained`) and the first waits on the full queue.
* `producer`: order per symbol does not survive a resent message, but only that
  message is out of place or there twice (`OrderUnlessResent`).

*Why the bounds suffice.* Two threads on each side of the queue are the least
for which a notification can wake the wrong one of two; capacity 2 distinguishes
full, partly filled and empty, and 4 pushes fill it, drain it and block again.
One item value is enough there, because order is proved for all values.
The pipeline's capacity of 1 with 4 events fills the queue and both threads'
hands with one event to spare. Three connects give two reconnects; four
failures reach the cap of the backoff twice. Four bits hold times on both sides
of the overflow, negative ones too, and a scale of 3 does not divide them. Three
lines allow a bad line before, between and after good ones. Three runs of the
demo capture, damage or extend, and replay. Two events in the service leave one
in the queue when the other fails or is delivered, and one with
librdkafka when the other is queued or in hand at a death. Two runs of the consumer are the
least in which a message is repeated or skipped. Two losses let both a request
and an acknowledgement be lost. What the proofs cover holds for every value.

*Bounds.* `MaxPushes`, `MaxEvents`, `MaxMessages`, `MaxConnects`, `MaxLosses`,
`MaxRuns` and `MaxReports` are guards of the environment's actions only (a producer calling
`push`, a source returning an event, the network delivering, somebody starting
the process, two seconds passing). `MaxFailures` caps a history counter.

*Deadlock* is checked for the queue, where somebody can always act. A destroyed
pipeline or producer and a process that has ended, or aborted, are meant to stop.

### Fairness

* Queue: a thread inside an operation keeps running (weak fairness), a mutex
  that is free again and again is eventually obtained (strong fairness on
  `PushTest` and `PopTest`; the one assumption about the scheduler beyond
  progress), and consumers loop on `pop`, as `runPublish` does. Nobody is forced
  to push or to shut down.
* Pipeline: each thread keeps running, and `next()` returns false after `stop()`
  or at the end of a file, which is `MarketDataSource`'s contract. `LiveSource` does
  not keep it on Linux (`live_close`) or while it connects (section 5), so with a
  live source `DestructionTerminates` is conditional on it. No event has to arrive and the owner need not call.
* LiveSource: both threads keep running; a connection attempt ends if
  `HandshakeEnds`. No message has to arrive, no connection has to break.
* Consumer: both threads run, a poll ends after its 200 ms, and the library
  eventually hands out what a partition holds (strong fairness per partition:
  polls that time out do not count). No commit, signal or restart is forced.
* Service: its threads run, `next()` returns once it was stopped or has reached
  the end of its file, and `flush()` returns, at the latest after its timeout.
  The second of these is again the contract that `live_close` shows broken, so
  `ServiceEnds` is unconditional for a replay, and for a live source holds
  where the contract is kept.
* Demo: its threads run, and a waiting `next()` of the live source returns after
  `stop()` if `LiveStops` (`LiveStops => WF_vars(LiveInterrupted)`). `DemoEnds`
  promises an end after a signal in live mode only under `LiveStops`; for a
  replay, always.
* Nowhere is a message, signal, delivery or report forced.

## 4. What the proofs show

`tlapm` checks every leaf; the theorems hold for all threads, items,
capacities, backoffs, files, word widths, partitions and bounds that satisfy the
assumptions named in the modules: sets of threads, symbols and partitions are
finite and the threads' disjoint, the "nothing" values are not elements, numbers
are naturals (capacity 0 included), a file is a sequence, what its JSON has as an
integer is one (`FilesAssumption`), `LiveStops` is a Boolean, and of the demo's
messages and first capture what section 2 says (`DemoAssumption`).

* **`BoundedQueue_proofs`.** The inductive invariant adds to the properties who
  may hold the mutex (exactly the thread between test and unlock), what each
  caller's result can be, and that a thread in a critical section has seen its
  predicate true and nobody has changed the queue since. From it: types, FIFO,
  the bound, drain before false. The three wakeup properties are inductive
  relative to it; their proofs count waiting, notifying and awake threads, and
  the arithmetic of those sets is the bulk of the module. `ImplementsChannel`
  maps each critical section to one step of `BoundedChannel`, all else to a
  stutter.
* **`IngestionPipeline_proofs`.** The invariant adds how far the owner has got
  and what the threads can be doing then (`PhaseInv`: the queue is shut down
  only after the ingest thread ended), what each thread has in hand, and that
  the publish thread leaves its loop only when the closed queue is drained.
  From it: conservation and order of events, `push` never refused, the clean
  stop with its counters, the recorder, safe destruction, and that
  `ingestFinished()` is final. The lemma `InFlight`, that what lies between
  source and `publish()` is queued or in a thread's hands, is for the service.
* **`LiveSource_proofs`.** `StoppedStaysClosed` needs `MutexInv`: a reader that
  is about to publish a connection tested the flag under the mutex, so a stop
  it missed has yet to take the mutex. From it also the validity of the stream,
  exact counters, and `ImplementsSource`. `BackoffScheduled` rests on
  `BackoffInv`, which carries the schedule through the attempts between two
  sleeps (a connection discarded because of `stop()` is a failure that is not
  counted, and leads to no sleep), and on `DoubledPower`, 2^(n+1) = 2 * 2^n,
  from the number of subsets of 1..n+1. The proof made the property say what
  the code does when `initial_backoff` exceeds `max_backoff`: the first sleep is
  not capped.
* **`ReplaySource_proofs`.** `FalseFinal` and `ImplementsSource`, for every file:
  once the flag is set outside the read, or the stream has failed, no step of
  `start`, `stop` or `next` makes another event come out, and every step is one
  of `MarketDataSource` or a stutter under the mapping of the reader's points to
  idle, called and open. `ReplayIsFaithful` goes by the set of good lines: the
  n-th of them, by its rank, is the n-th event returned; `ThrowInv` adds that a
  line that throws is the last one read. `RecaptureIsStable` is
  about the codec for every width `W` and clock `Scale`: casts to 64 bits fix
  what is in range, rounding towards zero and scaling back stays in range, and
  a product that did not overflow is divided exactly (`SignedKeeps`, `MsInRange`,
  `MsExact`, `TimeAgain`); what is written for an event is an event's text
  (`ToJson`).
* **`KafkaProducer_proofs`.** An accepted message is in one place at a time
  (`PlaceInv`), a report of success exists only for a stored message
  (`BrokerInv`), and in the log, among the requests and in the queue, in this
  sequence, an event that was not sent again has only earlier ones of its key
  before it (`OrderInv`).
  From it: types, `Accounting`, `Ordered` and `ImplementsPublisher`, where a
  batch of reports called back by one poll is one step of `EventPublisher`.
* **`KafkaConsumer_proofs`.** Positions, stored and committed offsets are ordered
  (`OffsetInv`); what was taken and not handled is the message in hand, or one
  per crash (`SkipInv`); what will be taken again was handled at most once per
  run that lost its commit (`TimesInv`). From it: types, agreement of the
  counters, and the bounds on loss and repetition over any number of runs. A sum
  over partitions is the cardinality of a disjoint union (`Sum`), which is what
  lets the counters be proved equal.
* **`IngestionService_proofs`.** `main()` is one of the owners that
  `IngestionPipeline` allows and uses its publisher as `EventPublisher` says
  (`ServiceImplementsPipeline`, `ServiceImplementsPublisher`), so the pipeline's
  theorems hold of the service. On top of the pipeline's invariant: where
  `main()` and the pipeline are together (`MainInv`), what became of the events
  counted as published (`DeliveryInv`), and that figures read earlier are not
  above those of now, and equal to them after `stop()` (`ReportInv`,
  `FinalInv`). From it: `FinalStatsCorrect` and `ReportsTruthful`.
  `DeathLossBounded` adds up where the received events are: in flight in the
  pipeline (`InFlight`), refused, pending, failed or on the broker (`OpenInv`,
  `BrokerHas`). With `ImplementsPublisher` all three speak of the Kafka producer.
* **`IngestionDemo_proofs`.** Any number of runs of the process on the same
  files, for any messages, first capture, width and clock. `RoundTrip`: what the
  parser or a replay hands to `record()` comes back from its line with the time
  in milliseconds, or not at all if the price is not finite. `FileInv` is about
  one file, what was recorded to it and how many writes were cut short: without
  any, the file ends with the lines of the events recorded and has no good line
  before them (`Exact`); otherwise a torn last line means a cut write that has
  cost nothing yet, and two if that line can still be read, because the next
  write spoils it and is lost with it (`Debt`). Without `Debt` the bound of one
  event per cut write is not inductive. `RecordKeeps` and `TornKeeps` preserve it
  write by write. `ReplayInv` says that nobody writes to the capture being
  replayed, so that the argument of `ReplaySource_proofs` holds within the run
  (`LineInvStep`, `FaithfulStep`). From it: `CaptureIsComplete`, by the ranks of
  readable lines and recorded events (`ShiftRank`, `RankInjective`), and
  `ReplayIsTheCapture`, where an event whose rank was reached is on a line
  already read (`ReadPrefix`), and a malformed line is either an old one or that
  of an infinite price (`MalformedBound`).

Types (`TypeOK`), FIFO order (`NothingLost`), `CapacityBound`,
`DrainedBeforeFalse` and `NeverRefused` are proved and not repeated in a run.

Only model-checked: all liveness (`~>`) and the fairness it needs, which is out of
the prover's reach. Every invariant and every action property that a passing
run checks is proved, and every refinement.

## 5. Where code and documentation disagree

1. `pipeline_capacity0`: `--queue-capacity 0` is accepted, and after the first
   event neither `stop()` nor the destructor returns, although "destruction is
   never a surprise hang" (`ingestion_pipeline.hpp:33-35`).
2. `live_close`: `stop()` closes the socket another thread reads from. On Linux
   that does not end a blocked `recv()`; the header says it "makes a blocked
   read() fail immediately" (`live_source.hpp:40-45`).
3. `consumer_atleastonce`: offsets are stored at the poll and committed by a
   timer, so a crash during processing can skip a message; the header calls the
   consumer at-least-once (`kafka_event_consumer.hpp:32`). `LossBound` shows the
   extent: at most one message per crash, none without.
4. `consumer_corrupt`: only `parse_error` is caught; the out-of-range error for
   a number ends the process, against the comment "skip, don't crash the
   consumer" (`kafka_event_consumer.cpp:90`).

Related, without a run of their own, and visible in the runs above:

* If the second thread cannot be created, the first one fills the queue and
  blocks in `push()`; the destructor joins it before it would shut the queue
  down, against the sentence quoted under 1. It is the exception that
  `DestructionTerminates` makes.
* While `connectOnce()` connects and shakes hands there is no socket `stop()`
  could close, and no timeout; `market_data_source.hpp:36-38` says `stop()` can
  unblock "a source that is currently waiting on network I/O". With
  `HandshakeEnds = FALSE` in `MCLiveSource_live.cfg`, `StopUnblocks` fails in a
  few steps.
* The out-of-range error of 4 also ends the demo and the service, from a message
  or from a line of a capture (then at every replay of it), against "Malformed
  lines are skipped, not fatal" (`replay_source.hpp:29-30`) and "Never crash the
  loop over one corrupt record" (`milestone-1-ingestion.md:90-92`). `Accounted`
  and `ReplayFaithful` say that this message or line is the last.
* A message that is sent again is stored behind a later one of its symbol (lose
  the first of two requests, store the second), or twice, while
  `kafka_event_producer.hpp:25-26` promises "the same partition, in production
  order". `OrderUnlessResent` is what remains.
* `market_event_json.hpp:28-30` says that what does not round-trip cleanly is
  rejected; a time that overflows is accepted and changed.
* A price of `inf` or `nan` passes the parser's test for a positive number; the
  capture line it gives is one `ReplaySource` rejects, although
  `event_recorder_test.cpp:52-53` calls what is recorded "exactly what
  ReplaySource can read back".
* `ReplaySource` keeps the `source` of the capture ("live:binance"), where
  `market_event.hpp:40` speaks of "replay:<file>".

## 6. Not modelled

`getEnvOr`, which only wraps `getenv`; the benchmark, which adds clock readings
and percentiles to the classes above; terminal output except the figures; error
texts and the decimal digits of numbers; `splitSymbols` and the target string;
TLS details; consumer group rebalancing and partition counts that change; a
replay that records to the file it reads (the file grows as it is read); what a
failed stream's destructor may still write of its buffer; and the memory model
below the level of mutexes and atomics.

## 7. Plan

Done: every component but the environment lookup and the benchmark has a module,
the parts of the two ingestion programs are composed, and all the invariants that
the passing runs check are proved.

Next, modelling: an end-to-end composition of producer, topic and consumer by
their contracts; a replay that records to the file it reads.
