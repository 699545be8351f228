# SisyphusGate in TLA+

TLA+ models of SisyphusGate, an asyncio honeypot gateway in Python: it accepts
connections on a set of ports, scores each from its first bytes and the rate at
which its address connects, and drops it, relays it to an external honeypot
(Cowrie, Endlessh, SNARE) or slows it down in a built-in tarpit. Events, those
the external honeypots write to their logs included, go through one collector to
a storage backend.

Paths below are relative to `src/src/sisyphusgate/` unless they start with
`src/`.

## Inventory

| Part | State | Operations | Model |
|---|---|---|---|
| event collector, `aggregator/collector.py` | bounded `asyncio.Queue`, its unfinished count, `_running`, consumer tasks | `publish`, `add_consumer`, `start`, `stop`, `_consume_loop` | `EventCollector`, `EventDelivery` |
| JSONL storage, `aggregator/storage.py` | buffer, last flush, one file a day | `write`, `flush`, `close` | `JSONLStorage`, `EventStore` |
| SQLite storage, same file | buffer, last flush, connection and its open transaction | `initialize`, `write`, `flush`, `close` | `SQLiteStorage`, `EventStore` |
| log bridge, `honeypots/external/log_bridge.py` | a position per log, a watcher task per log | `start`, `stop`, `_watch_log`, `_read_new_lines`, `_process_line` | `LogBridge` |
| gateway, `gateway/server.py` | listeners, `_running`, `_active_sessions`, `_session_count` | `start`, `stop`, `_shutdown`, `_handle_connection`, `proxy_to` | `Gateway` (connections), `ProxyRelay` (relays), `Lifecycle` (listeners, signals) |
| tarpit, `honeypots/tarpit/server.py`, `honeypots/base.py`, `honeypots/registry.py` | `_active_clients`, `_total_trapped`, the event callback | `handle_session`, `emit_event`, registry look-ups | `Gateway` |
| application, `app.py`, `__main__.py` | everything above, owned | `start`, `stop`, `_handle_connection`, `_on_honeypot_event`, `_store_event`, `run_command` | `Lifecycle`, `Gateway`, `Routing`, `EventPath` |
| external honeypots, `honeypots/external/manager.py` | child processes | `start_all`, `stop_all`, `health_check` | `Lifecycle` |
| router, `router/dispatcher.py`, `router/rules.py` | sorted rules, IP lists | `route` | `Routing` |
| traffic analyzer, `analyzer/engine.py`, `analyzer/frequency.py` | connection times per address | `analyze`, `record`, `get_frequency_score`, `cleanup_all` | `Routing` |
| signatures, heuristics, protocol detection, `analyzer/signatures.py`, `analyzer/heuristics.py`, `gateway/protocol.py` | none | pure functions of the first bytes | `ContentAnalysis` |
| rate limiter, `router/rate_limiter.py` | token buckets | `allow`, asked by nothing | not modelled |
| session record, GeoIP, reporter, configuration, logging, network helpers, deployment | none that changes during a run, or a cache | | not modelled |

How they interact. Everything runs in one asyncio event loop. Each accepted
connection is a task of the gateway; it calls the analyzer, the router and a
destination directly, without a suspension in between, and is then a relay or a
tarpit session until it ends. The bridge's watcher tasks call
`collector.publish()`, which suspends on a full queue; the collector's consumer
task calls the storage's `write()`. The application starts the parts one after
the other and stops them in an order that is meant to drain the pipeline. Two
components register handlers for the same two signals.

What is hard about it, and so what the properties are about (`PROJECT.json`
lists each at its line under `hazards`):

- cancellation and timeouts at every `await`, including the case in which
  `asyncio.wait_for` swallows a cancellation because the result is already there;
- a bounded queue between tasks that are stopped at different times;
- writes that fail in the middle, are repeated, or stop within a line, and a
  transaction that nothing rolls back;
- a log read while another process appends to it and rotates it, between any two
  system calls of a read;
- resources given back on every way out of a session, and two relays that end in
  different ways at different times;
- signals, port binding and shutdown in any order;
- rules written in one order and applied in another.

What makes each part correct: the collector loses, repeats and over-delays no
event, and `stop()` returns; a storage keeps an event until it is on the disk and
repeats it only after a failure; the bridge publishes lines once and in order,
but for a read that races with a rotation; tarpit slots and session entries are given back exactly once; `stop()` drains
what was published; events travel from the log to the disk in order, and none is
lost after the collector has taken it unless the process dies; a relay passes on
what it has read, within bounded memory, and both connections end; a routing
decision is made from the exact window of the address and gets no weaker when an
address connects more often, and it should follow the documented order and
thresholds, which it does not (`CowrieReached`).

## The modules

A definition keeps the name of the code where it can; `PROJECT.json` maps each to
its lines. A step is what one task does between two suspension points, since
asyncio switches tasks nowhere else. An event or a line is the number of its
arrival; its content is left out. Variables marked *history* record something
the code does not keep, for the properties only. Operators marked *Mutant* are
not part of a specification: each is a plausible mistake in the definition that
follows it, and putting it in that definition's place must break the property
named with it in `PROJECT.json`.

**`EventCollector`** is the core. `Publish`, `Resume` and `CancelPublish` are
`publish()` with its suspension in `put()`; a woken publisher looks again, since
a newcomer may have taken the place. `Begin` to `LeaveLoop` are `_consume_loop()`
with one state for each place it suspends in: `getting` is `wait_for(get(), 0.5)`,
`held` is the moment at which `get()` has taken an event and the loop has not
seen it, `handling` is the consumer's own call. `Deliver` clears a pending
cancellation: that is `wait_for` of Python 3.11 (the version of the Dockerfile)
swallowing it. `Start`, `Stop`, `JoinStart`, `JoinReturns`, `JoinTimeout` and
`Gathered` are `start()` and `stop()`. `asyncio.Queue` and `wait_for` are external
and modelled from their use. The collector has any number of consumers; they
compete for events, as the code has it, and do not each see all of them.

**`EventDelivery`** is its contract, in terms of two variables: an accepted event
is settled at most once, and overtakes fewer older events than there are
consumers. With the single consumer the application registers this is order.

**`JSONLStorage`** and **`SQLiteStorage`** model `write()`, `flush()` and
`close()` as single steps: no method suspends while it holds its lock. In
JSONL a flush may fail after any number of whole lines and within a line; the
next append then continues the broken line, whose event no reader can decode
(`-e` in a file). In SQLite a flush inserts one row after the other and the first
exception leaves the loop with the transaction open; an event that can never be
inserted (*poison*) makes every later flush fail at the same place. `End` and
`Restart` are the end of the process, by exit or kill, and a new one.
**`EventStore`** is what both promise: an event that was taken is pending until it
is durable, and durable for good; only the end of the process, which its variable
`up` records, takes pending events away.

**`LogBridge`** gives each line two units, so that a read can end within a line.
A rotation moves the beginning of the file. A read is two steps, for the honeypot
that writes the log is another process: `Stat` asks for its size, and `Read` opens it
and reads up to that size (or `OpenFails`). A rotation in between makes the read
return part of the new log and leave the old size as the position; the next poll
takes that for one more rotation and reads the new log again. `moved` and `raced`
record this. An append in between does no harm, since a read stops at the size it
asked for. `excused` collects the lines the
code is known to lose, each where it happens: those written before `start()`,
half written at a read, not JSON, behind a line that raised, in hand at `stop()`,
or rotated away; the properties say that nothing else is lost, and that nothing comes
twice or out of order but what such a race has read. It is assumed that the log is
ASCII, as Cowrie's JSON is, so that byte offsets are character counts.

**`Gateway`** follows a connection from accept to close through the gateway and
the tarpit; analysis and routing, which do not suspend, are one choice of a
destination. `LoopEnds` is the end of `asyncio.run()`, which cancels the tasks
that are left. `AsyncCallback` says whether the honeypots' event callback is a
coroutine function; `emit_event()` calls it and drops the result, so with a
coroutine function nothing is published. A relay is one state.

**`ProxyRelay`** is the inside of that state: `proxy_to()` and its two relays, each
named for the side it reads from. Data is counted in chunks on their way from the
peer through the `StreamReader`, the relay and the other transport's buffer.
`ReadEnd`, `ReadRaises`, `ReadData` and `Drained` are the turns of `relay()` and
`Finally` its `finally` clause, which closes the *other* side: a peer that ends its
stream ends both directions. `Fault` loses a connection with a reset, which
`relay()` catches, or another error, which it does not; then `gather()` raises
(`GatherRaises`) and leaves the other relay behind. `Freeze` is a peer that stops
taking data.

**`Lifecycle`** composes `run_command()`, `app.start()`, `app.stop()`, the signal
handlers, the listeners of several ports and the child processes. `caller` chooses
between the command line and a program that embeds `SisyphusGate` and calls `stop()`
itself. What `stop()` does to the events on their way is in `EventPath`.

**`EventPath`** composes `LogBridge`, `EventCollector` and `JSONLStorage` by
`INSTANCE`, as `app.py` does: the watcher is the collector's publisher and suspends
in its `put()`, the storage's `write()` is the collector's one consumer, and `stop()`
runs through the three. Each of its actions is a step of one component or of two
that call each other, so it adds order and no behaviour; `Calm` says that no other
task runs during a `write()`, and `Suspended` that none of this process runs between
the two steps of a read, for neither suspends. The process may be killed
at any step, and the next one finds the log and the files. Broken lines and
rotations stay within `LogBridge`, whose constants switch them off here.
**`EventPipeline`** is the contract of the whole in two variables: whether the
process runs, and where each line's event is. `Place` derives that from the
components' variables. On the disk is what `JSONLStorage` has recorded, and that
includes a line written behind a broken one, which no reader can decode; how many
those can be is `LossIsTorn` of the storage.

**`ContentAnalysis`** is what the signatures, the heuristics and the protocol
detection make of the first bytes, as pure operators. A payload is a record of how
it starts, which signatures' patterns occur in it, and whether it is long or
binary; regular expressions are left out. The table of signatures, with protocols,
scores and tags, is the one of the code.

**`Routing`** extends it with the sliding window, the score, the rule chain and the
destinations, in one step per connection. `analyze()` looks at the clock twice, so
`Connect` may let it advance in between and the count a rule sees may differ from
the count that is scored. `Sweep` is `cleanup_all()`: it ends with an exception as
soon as it has deleted an address, with the rest as it was. `MCRouting` states the
rules of `src/config/default.yaml`, one more with the tag and port conditions
those do not use, a signature of the operator, and seven kinds of first bytes; its
assumption `KnownScores` compares the operators with what `src/tests/test_analyzer.py`
expects and with the table, and `Configuration` says that these rules are of the kind
the theorem about escalation speaks of.

## Runs

| Run | Checks | Bounds | States |
|---|---|---|---|
| `collector` | types, `OnePlace`, `GracefulStop`, refinement of `EventDelivery`, `StopReturns`, `EventuallySettled` | 2 publishers, 2 consumers, queue of 2, 4 events | 124 thousand |
| `jsonl` | types, `ExactLog`, `LossIsTorn`, `WriteBoundsWait`, refinement of `EventStore` | 4 events, 2 failed flushes, 2 days, interval 1 | 57 thousand |
| `sqlite` | types, `ExactRows`, `PoisonFreezes`, refinement of `EventStore` | 5 events, 2 flushes that raise, interval 1 | 41 thousand |
| `bridge` | types, `InOrderOnce`, `NothingElseLost`, `EventuallyBridged` | 5 lines, 2 rotations | 37 thousand |
| `bridge_torn` | **violation** of `WholeLinesBridged` | 2 lines | |
| `gateway` | types, `CountsExact`, `EventsPaired`, `SlotsReleased` | 3 connections, 1 slot | 50 thousand |
| `gateway_events` | **violation** of `TarpitEventsPublished` | 2 connections, coroutine callback | |
| `lifecycle` | types, `StopCloses`, `SignalsNeverStop`, `TakesItsCourse` | both callers, 3 ports, 2 children, 3 signals | 543 |
| `routing` | types, `WindowExact`, `Escalation`, `CowrieReached` | 3 addresses, 7 payloads, 2 ports, 4 connections, 4 instants | 123 thousand |
| `routing_telnet` | **violation** of `TelnetFits` | 1 connection | |
| `relay` | types, `NoneOutlives`, `WholeStream`, `Backpressure`, `BothEnd` | 3 chunks from each side, high water mark 1 | 972 thousand |
| `path` | `Drained`, refinement of `EventPipeline` | 3 lines, queue of 1, 1 failed flush, 2 processes | 74 thousand |

Why the bounds are enough for the interesting cases:

- *collector*: with two publishers on a queue of two, both can be suspended while
  a consumer frees one place, and a newcomer can overtake them; two consumers
  can hold events at once while `join()` waits, one be cancelled in its handler
  and the other swallow its cancellation; four events leave some behind in a
  stopped collector. No symmetry is used, since the run checks liveness too.
- *storage*: a failed flush, a second one on top of its broken line, a
  restart, and a change of date before the third all fit in 4 events and 2
  failures; an event that waits for an interval and finds a failing flush does, too. In SQLite two failures leave a partial transaction, extend it, and
  commit it or lose it to a restart.
- *bridge*: two rotations let a file be replaced by one that is shorter, as long
  and longer than the old position, twice, with a line torn in each; with five lines
  a rotation between `Stat` and `Read` makes lines come a second time and older ones
  behind newer ones.
- *gateway*: three connections for one slot: one holds it, one is turned away and
  one gets it later, while listeners close and tasks are cancelled.
- *lifecycle*: three ports, so that a signal can come between any two bindings,
  and three signals, so that a later one finds what the first missed.
- *routing*: thresholds 10 and 15 become 2 and 3 and the window 2 ticks, so that
  an address passes both, and falls back, within 4 connections; two addresses
  besides it make a sweep end halfway.
- *relay*: with a high water mark of one chunk, two of three sent on a stalled side
  pause `drain()`; data can be in all four places at once in each direction.
- *path*: one line in the storage's hands, one in the queue of one and one behind a
  suspended `put()` fill every stage; a failed flush makes the storage repeat, and a
  second process follows the first in the same files.

A deadlock is checked for where the system goes on for ever (the storages, the
bridge). It is not where it may stop: a collector that is stopped with publishers on
a full queue, a gateway whose loop has ended, a process that has exited, a
routing run out of its bounded connections, a session that is over, a bridge
model or an event path whose bounded log has been read.

## Fairness

Fairness is weak, but for the bridge's reads, and stands for three facts: the event loop
runs a task that can go on; a timer fires (half a second in the consumer, five
seconds in `stop()`, the connection timeout, the watcher's sleep); and a
consumer's call, a write to a local file, returns or raises. A publisher, a
client, a signal, `start()` and `stop()` owe nothing: there is no fairness on
`Publish`, `Accept`, the end of a relay, or on a tarpit client letting go, unless
the task is cancelled. In `ProxyRelay` the peers owe neither data nor its end, but
a peer that is not frozen takes what it is sent (`WF(Take)`), as TCP does for one
that reads; `BothEnd` promises nothing once a side is frozen, for no timeout
of the code ends that wait. In `Lifecycle` nothing promises that the process ends:
`asyncio.run()` waits for every task it cancels, and a tarpit session may wait in
`wait_closed()` for a client that never reads, or have swallowed the cancellation in
`wait_for()`. There is no fairness on `MainEnds`, and `TakesItsCourse` promises that
`stop()` comes to its end, not that the process does. The exceptions are `SF(Stat)` and
`SF(Read)` in `LogBridge`: a log that is missing after a rotation, or that cannot be
opened, may be so at several polls, and is there again at some of infinitely many.
`EventuallyBridged` is about such logs only.

## What is proved

`EventCollectorProofs` proves, for every set of publishers and of consumers,
every queue size (unbounded included) and every number of events, all the
safety that the `collector` run checks and the exactness of `join()`'s count, which
implies part of it:

- `TypeCorrect`, `Conservation` (`OnePlace`), `JoinCountExact` (`JoinCount`),
  `GracefulStopHolds`: theorems `Spec => []P`;
- `ImplementsDelivery`: `Spec => DeliverySpec`, so the collector implements
  `EventDelivery` with `Width` the number of consumers.

The only assumption is `CollectorAssumption`: the two sets are finite, the bounds
are naturals. TLC evaluates it in the collector run.

`GracefulStop` and the refinement are not inductive, and `OnePlace` alone does
not say *which* events are where: from a state in which the queue holds an event
older than one in hand, `Get` and `Finish` would break the order. The invariant
`IInv` adds to the properties what the code
maintains without saying it: the queue holds exactly the last `Len(queue)`
accepted events, in order (`QueueIsTail`); everything before them is settled or
in one consumer's hand (`HandsHoldTaken`, `HandsDisjoint`, `TakenAreOwned`);
nothing queued is settled (`QueuedUnsettled`). Suspended publishers keep their
share of the bound (`Budget`), and a cancellation is pending, or an event cut off,
only once `stop()` has cancelled the tasks (`CancelIsLate`). The last is why
`GracefulStop` holds: while `join()` waits nothing can be cut off, and when the
unfinished count is zero `JoinCount` leaves queue and hands empty, so by
`TakenAreOwned` every accepted event is settled. The order in `EventDelivery`
comes from the same facts: the older unsettled events are all in other hands, one
each, and so number fewer than the consumers.

Lemmas say how a put, a get and the settling of an event keep `Ownership`; one
theorem each for the publishers, the consumers and `start()`/`stop()` then shows
that their steps keep `IInv`, and `NextIInv` and `IInvHolds` combine them.

Six more modules prove what the runs of single components check, each `Spec => []P`
for every value of the constants, with a strengthening of its own (`LifeSpec` and
`LifeInv` for `Lifecycle`, which shares its proof module with `Routing`):

- `GatewayProofs` (from `GatewayAssumption`: finitely many connections, any number
  of slots): `TypeCorrect`, `CountsExactHolds`, `EventsPairedHolds`. That a slot is
  never given back twice is a fact about cardinalities: `StepCounts` says how the
  size of a set of connections changes when one of them changes its state.
  `Counted` bounds the two counters by such sizes, since a session that is still
  read from may yet be trapped. `EventsPaired` needs `Entered`, which reads the
  connection's state off the tarpit's events, and `CancelledAtEnd`: a connection
  cancelled in the last wait was in it when the loop ended, for on the way there
  it would have been thrown its exception.
- `ProxyRelayProofs` (from `RelayAssumption`: any number of chunks, any
  water marks): `TypeCorrect`, `BackpressureHolds`, `NoneOutlivesHolds`,
  `WholeStreamHolds`. Back
  pressure is not inductive, because `drain()` returns also when the connection is
  gone, and the relay then goes on. `GoneEmpty` closes the gap: a transport that is
  lost without an error has sent all it had. `Room` is the bound with the place for
  the chunk that is being read; `Unstarted` and `FaultLoses` serve the two.
  `WholeStream` looks back from the end of a session to the stream that ended first.
  A second invariant, `WInv`, carries that forward: without a fault no transport
  closes before the relays run (`OpenUntilRelayed`), nothing sent to an open one is
  missing (`ArrivesWhileOpen`), and the first that does close is closed behind a
  stream that was read to its end (`FirstIsWhole`); `WholeStays` says that such a
  stream is then passed on whatever the other relay does.
- `ApplicationProofs`, on `Lifecycle` (from `LifecycleAssumption`: any number of ports,
  children and signals): `LifeTypeCorrect`, `StopClosesHolds`, `SignalsNeverStopHolds`. The last rests on `EventIsLate`: the
  handlers of `run_command()` are in place only when `start()` has failed, and then
  nobody waits for the event they set. `BoundSoFar` and `ClosedOrEarly` say that a gateway
  that is not running has closed its ports, but for those bound after a signal.
- `JSONLStorageProofs` (from `StorageAssumption`: any interval, any number of events,
  failures and days): `TypeCorrect`, `ExactLogHolds`, `LossIsTornHolds`,
  `WriteBoundsWaitHolds`, and `ImplementsStore`: `Spec => StoreSpec`. That losses are
  no more than torn writes does not follow from itself, for a write tears a file
  long before the next one loses an event on it. `TearsPaid` counts both: the files
  that end within a line and the events whose line continued a broken one are
  together no more than the torn writes. `NoneForgotten` keeps an accepted event in
  the buffer until its line, whole or garbled, is in a file, and so leaves only the
  garbled ones to lose. `Waiting` ties the age of the oldest event to the time of
  the last flush, for `write()` looks only at the latter.
- `SQLiteStorageProofs` (any interval, any number of events and faults): `TypeCorrect`,
  `ExactRowsHolds`, `PoisonFreezesHolds`, and `ImplementsStore`. `TxnIsBuffered` says
  that what a failed flush left in the open transaction is also still buffered, so
  that nothing is lost with a transaction that is never committed. `TxnIsBlocked` is
  why nothing is stored twice while the database itself did not fail: such a
  transaction was left by a poison event, which is still in the buffer, and the
  next flush stops at it as well.
- `LogBridgeProofs` (from `BridgeAssumption`: any number of lines and rotations, lines
  in one piece or two): `TypeCorrect`, `InOrderOnceHolds`, `NothingElseLostHolds`.
  Order follows from `ReadBefore`: all that was published or is in hand lies before
  the place the watcher has read to, `Seen`, which a rotation puts back to the
  beginning of the new file, unless it was read in a race and is in `raced`. `OnceMore`
  is why a line comes twice at most: a read that races returns lines that were not
  published before, and a line that comes again lies before `Seen` and is not read any more. `NothingElseLost` is stronger as an
  invariant than as
  a property: `NoneForgotten` includes lines that are only half written, since by
  the time such a line is complete the read that lost it is over.
- `ApplicationProofs`, on `Routing` (from `RoutingAssumption`: any addresses, window,
  threshold and rules with whole numbers for priorities and thresholds): `TypeCorrect`,
  `WindowExactHolds`, `EscalationHolds`. `_cleanup()` only pops from
  the front and the count must still be exact: `Tracks` has the times kept for an
  address never fall (`UpTo`), and maps them one to one to connections of that address
  such that those left out were made before the window (`Follows`). Then `len()` of what is
  kept is the size of the window (`FS_Bijection`).
  Escalation holds for every list of rules of a certain kind, and the kind is the
  hypothesis. `EscalatingRules`: a rule that asks for a score or
  a frequency holds no less firmly than those after it. `MCRouting` assumes it of the
  shipped rules (`Configuration`), so TLC evaluates it. `FirstRule` says that rules that match have a
  first one, `FrequencyRises` that the score does not fall as the count rises, and
  `MoreConnections` combines it with `evaluate_condition()`: whatever matched with fewer
  connections still matches, and what matches in addition asks for a score or a
  frequency. `TypeCorrect` assumes that no score is negative (`NaturalScores`),
  `EscalationHolds` that they are integers: the sums over the signatures are folds over a
  set, which is recursion over data. `WhitelistedAreLogged` needs no assumption
  about the rules.

Several of these need the least element of a set of numbers (`First` in the bridge,
the first fresh time in the window, the first rule that matches). It comes from the
well-foundedness of `<` on the naturals (`SmallestOf`), not from induction.

### The composition

`EventPathProofs` proves what the `path` run checks, from `PathAssumption` (any
number of lines, any queue size, unbounded included, any flush interval, any number of
failed flushes, and at least one process):

- `DrainedHolds`: `Spec => []Drained`;
- `ImplementsPipeline`: `Spec => PathSpec`, so bridge, collector and storage together
  implement `EventPipeline`.

The invariant, `IInv`, reuses those of the components instead of repeating them.
`Parts` is the conjunction of the inductive invariants of `LogBridge`,
`EventCollector` and `JSONLStorage`, each reached by `INSTANCE` of its proof module.
`BridgeSteps`, `CollectorSteps` and `StorageSteps` say that an action of the
composition is, for each component, one of its own steps or a stutter, so each
component's own induction step carries over (`PartsKept`). The one exception is
`Restart`, no step of the collector at all: the new process puts it in its first
state, in which its invariant holds (`RestartedCollector`).

What no component can say alone is the coupling:

- `Whole` and `Passed`: the log of this composition ends with a line, and a line that
  was given up is behind the position of the bridge;
- `Orderly`, `Watched`, `Settling`: the stages of `start()` and `stop()` against the
  phase of the collector, the watcher, a suspended `put()`, and the buffer. The
  collector is stopped only after the watcher, so nothing is accepted after
  `stop()` has begun to wait (`atStop = total`), and it has stopped only when
  its consumer has;
- `Counted`: `Kept` is the number of events of this process that the storage was
  given, namely all but those in the queue and the one in the consumer's hand; the
  one in hand is number `Kept + 1`. The events of earlier processes are the first
  `Older` of the storage;
- `Lined`: the `(Older + e)`-th `write()` stores the `(before + e)`-th published line;
- `Stored`: in a process that runs, none of its events is lost (a failed flush leaves
  them in the buffer), the buffer is in order, and of its events the disk holds the
  first ones.

`Drained` then follows at the end of `stop()`: queue, hand and buffer are empty, so
`Kept = total`, every line of this process was given to the storage, and none of them
is lost or waiting. For the refinement, `PlaceOf` says where a line is before and after
a step and `Placed` that the places exclude each other. A step that writes to the
files, whether the consumer's `write()` or the flush at `stop()`, and whether the flush
succeeds or breaks off after some lines, records the events of this process up to some
number (`RecordsTo`, from `FlushRecords` and `PrefixRecorded`). That is the
pipeline's `Persist`, or nothing if those had been recorded by an earlier flush
that failed (`PersistImplements`). The order of `Accept` comes from the bridge,
whose published lines rise.

### What is only model-checked

All liveness (`StopReturns`, `EventuallySettled`, `EventuallyBridged`,
`SlotsReleased`, `TakesItsCourse`, `BothEnd`), which is out of the prover's reach. The
scores of the signatures, and the examples of `KnownScores`, are evaluated only, for
they are folds over a set. `CowrieReached` is about one list of rules, the shipped one,
and is checked with it. Every other safety property and every refinement that a passing
run checks is also proved.

## What the checks found

- `TarpitEventsPublished`: the application registers a coroutine function as
  event callback and `emit_event()` drops the coroutine: no `tarpit_enter` or
  `tarpit_exit` event, which `src/README.md:212` lists, reaches the collector.
- `WholeLinesBridged`: `_read_new_lines()` moves past a line that is half
  written; neither half is JSON, and the event is dropped silently.
- `TelnetFits`: Telnet connections that `src/README.md:90` sends to Cowrie are
  relayed to its SSH port.
- `CowrieReached` holds, and should not: `src/README.md:43-50` puts Cowrie above the tarpit for floods and
  above the blacklist; the priorities in `src/config/default.yaml` have it below both, so
  a flooding or blacklisted client that scores 30 or more never reaches Cowrie.
  Moreover the rule for floods asks for 15 connections (`src/config/default.yaml:69`)
  and is taken from the analyzer's 10 on, since a high frequency satisfies a
  `frequency_threshold` of any value.
- `InOrderOnce` needs its exception: a rotation between the question for the log's size
  and its opening makes the bridge publish lines of the new log a second time. No
  document promises that this cannot happen, so it is no violation run.
- `SignalsNeverStop` holds, and should not: the gateway's signal handlers replace
  those of `run_command()`, so a signal closes the listeners and the program then
  waits for ever; `app.stop()` is never reached from the command line and what is
  buffered dies with the kill that follows.
- `StopCloses` needs its exception: a signal during the binding of the ports
  leaves those bound afterwards open through `stop()`.
- `PoisonFreezes`: one event that SQLite cannot store stops all storing.
- `NoneOutlives` needs its exception: an error that `relay()` does not catch makes
  `gather()` raise, and the other relay goes on for a session that is no longer
  registered. `BothEnd` shows that it, too, ends.
- `WholeStream` holds only of the stream that ended first: a relay closes the other
  side when its own is done, so a client that merely ends its sending half loses the
  rest of the answer.
- `WriteBoundsWait` is all that `flush_interval` bounds: there is no timer, and the
  last events before a quiet period stay in memory for as long as it lasts.
- `SlotsReleased` and `EventsPaired` need their exceptions: a swallowed
  cancellation starts a tarpit session while the process ends, and a client that
  never lets go of its socket costs the exit event.

Read in the code and not modelled: `max_connections` is used by nothing; the
rate limiter is constructed and never asked; `cleanup_all()` is called by nothing,
so addresses that never come back stay in memory; the whitelist knows no networks, the blacklist
does; only what the first read returns is analysed.

## What is not modelled

- *Rate limiter*: the router constructs it and nothing asks it, so no state of the
  running program depends on it.
- *Regular expressions and bytes*: see `ContentAnalysis`.
- *`health_check()`* of the child processes: a probe that changes nothing.
- *GeoIP*: a look-up with a cache that is filled and read in one step; it catches
  every error and only adds fields to an event, which the modules leave out.
- *Configuration*: read once, before anything runs; its values are the constants.
- *Sessions, reporter, logging, network helpers, the `report` and `gen-key`
  commands, deployment*: records, formatting and set-up without behaviour of their
  own.
- *A clock that steps back*: time only grows in `Routing` and the storages.
- *Logs that are not ASCII*: see `LogBridge`.
- *The sessions table of SQLite*: written in the transaction of the events table.

## Plan

The model is complete up to what the last section leaves out: `EventCollector`,
the storages, `LogBridge`, `Gateway`, `Lifecycle`, `Routing`, then `ProxyRelay`,
`ContentAnalysis`, and `EventPath` over `EventPipeline`. Proved are all safety
properties, of the components and of their composition, and that the collector, both
storages and the composition implement their contracts.
