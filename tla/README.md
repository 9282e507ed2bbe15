# Verification of the Market Data Dissemination Simulator

TLA+ models of the C++ program under `src/src/`, model-checked with TLC. All the
safety properties and refinements checked of it are also proved with TLAPS, for every value of the constants. Paths below are
relative to the repository (`src/...` is its `src/` directory).

## 1. The system

A benchmark process with three worker threads and `main`:

```
 generator thread       queue          disseminator thread      network      receive thread
 BaseGenerator loop --> Spin/Waitable --> IDisseminator loop --> UDP/ZMQ --> feed handler loop
 RandomWalkGenerator    over the ring     UdpDisseminator                    UdpFeedHandler
                                          ZmqDisseminator                    ZmqFeedHandler
                                                                                   | callback
        main: run_benchmark_pipeline starts and stops all of them           LatencyMonitor
```

| component | state | operations | interacts with |
|---|---|---|---|
| `CustomSpscQueue` | atomic `read_`, `write_`, slots `data_` | `push`, `pop`, `empty`, destructor | two threads, through the atomics only |
| `SpinSpscQueue` | the ring | `pop(item, stop_token)` retries until an item or a stop | the stop source of its caller |
| `WaitableSpscQueue` | the ring, atomic `is_sleeping_` | `push` wakes, `pop` sleeps, a stop callback wakes | producer, consumer and the thread that requests the stop |
| `BaseGenerator`, `RandomWalkGenerator` | rate, interval, symbols, thread, `next_time` | `configure`, `start`, `stop`, the paced loop | clock, queue (`push` until it succeeds) |
| `IDisseminator`, `UdpDisseminator`, `ZmqDisseminator` | thread, socket | `start`, `stop`, `run_loop`, `send_impl` | queue (`pop`), network |
| `IFeedHandler`, `UdpFeedHandler` | thread, `command_queue_`, loop-local subscriptions, callbacks | `start`, `stop`, `subscribe`, `unsubscribe`, `set_*_callback`, receive loop | client thread (commands through a ring), socket, callbacks |
| `ZmqFeedHandler` | thread, SUB socket | the same interface; subscriptions are set on the socket | client thread (shares the socket), libzmq, callbacks |
| `LatencyMonitor` | two vectors of records | `on_quote`, `on_trade`, `save_to_csv` in the destructor | receive thread, then main |
| `main.cpp` | order of construction, starts, stops and destruction | `main`, `dispatch_size`, `dispatch_types`, `run_benchmark_pipeline` | everything |

Hard behaviours: two threads on a lock-free ring with acquire and release ordering; a sleep/wake-up
protocol with relaxed accesses; stop requests that race with loops, sleeps and retries;
commands that cross threads next to data; a ZMQ socket used by two threads; restarts and destructors of a worker; an
exception in the middle of the set-up; messages lost on the network; a clock that runs on between any two steps;
full queues; counters and time stamps of fixed width. The `hazards`
of `PROJECT.json` list them line by line with the properties that watch them.

What makes each part correct:

- ring: first in, first out, no slot shared by two threads, nothing left undestroyed while the counters have not wrapped;
- spin and waitable `pop`: every item gets through, a stop ends the consumer, no lost wake-up;
- generator: paced by its schedule, catches up, loses a message only to a stop, stamps in order;
- feed handlers: filter by what the client asked for, deliver whole messages, keep topic and payload together, only an
  endless stream of commands keeps a handler from the network, stop returns, no socket is closed under its loop;
- pipeline: a lossy channel in order, true latencies, no use of a destroyed object on any way out of `main`, nothing left
  behind, the end is reached.

## 2. Modules

| module | models | proofs |
|---|---|---|
| `SpscFifo` | what a bounded SPSC queue promises (abstract specification) | |
| `CustomSpscQueue` | `utils/CustomSpscQueue.h` | `CustomSpscQueueProofs` |
| `SpinSpscQueue` (extends the ring) | `utils/SpinSpscQueue.h` and the consumer loop around it | `SpinSpscQueueProofs` |
| `WaitableSpscQueue` | `utils/WaitableSpscQueue.h` with producer, consumer and stopper | `WaitableSpscQueueProofs` |
| `FeedContract` | what a feed handler promises its client (abstract specification) | |
| `IFeedHandler` | `feedhandler/IFeedHandler.h`: start, stop, callbacks, and the end of the destructors | |
| `SymbolCodec` | `pack_symbol` and the symbol field the generator writes | |
| `Subscriptions` | what a sequence of subscribe and unsubscribe commands asks for (reference definition) | `SubscriptionsProofs` |
| `UdpFeedHandler` (extends base, codec and `Subscriptions`) | `feedhandler/UdpFeedHandler.h` | `UdpFeedHandlerProofs` |
| `ZmqFeedHandler` (extends base, codec and `Subscriptions`) | `feedhandler/ZmqFeedHandler.h`, `send_impl` of `disseminator/ZmqDisseminator.h`, and libzmq between them | `ZmqFeedHandlerProofs` |
| `BaseGenerator` | `generator/BaseGenerator.h`, `RandomWalkGenerator.h` | `BaseGeneratorProofs` |
| `LossyChannel` | what the benchmark relies on from generator to monitor (abstract specification) | |
| `Pipeline` | `main.cpp` from its options to its exit and the path of a message; `IDisseminator.h`, both `send_impl`, `LatencyMonitor.h` | `PipelineProofs` |
| `MC_*` | the constants for TLC | |

Each module groups its actions by thread. A few definitions under the heading "Faults" in a module are
wrong variants of an operation; no action uses them, they exist to show that a property fails
when the code is changed that way (`mutants` of `PROJECT.json`).

**`CustomSpscQueue`.** One action per access to shared memory: `PushCall` (call and own counter),
`PushLoadRead` (acquire load and full test), `PushConstruct`, `PushPublish`, and likewise for `pop`.
An atomic counter is its *modification order*, the sequence of all values ever stored. A thread knows its own
counter exactly; an acquire load of the other's returns any value not older than the last one it saw
(`pushView`, `popView`). So a thread may act on arbitrarily stale values, as the C++ memory model permits.
Plain accesses to `data_` are applied at once, which is justified by `SlotOwnership`: they never
meet on a slot, and whoever sees a released counter value sees what came before it. Counters and their
difference are taken modulo `Modulus` (2^64 in the program). `pushed` and `delivered` are history variables.
`empty` is called by the pushing thread, as the tests do. `Destroy` runs when both threads are outside
push and pop.

**`SpinSpscQueue`.** The ring's own actions, driven by the test of the stop token. `DestroyJoined` replaces
`Destroy`: the owner has joined the consumer.

**`WaitableSpscQueue`.** Here the interesting reordering is store-to-load, so the memory model is x86-TSO, the
machine the repository's measurements were made on: every thread has a store buffer that drains in order. `BufferSize`
bounds the stores that wait while a thread goes on; 0 means sequential consistency. The seq_cst store, the
lock of the stop state and the futex behind `notify` need a drained buffer. `wait` compares and blocks in one step, as
the futex does, without spurious wake-ups (they would only help). The underlying ring is reduced to its counters, which the
ring's theorems justify. The stop callback is registered, run by the stopper, or run at once by the constructor;
its destructor waits for a run under way.

**`FeedContract`.** The symbols wanted, the messages delivered, and a `grace`: withdrawn symbols of which the loop may already
be past its filter. A delivery is of a whole message, of a wanted symbol or of one in grace, and ends every grace, so at
most one late delivery follows an unsubscribe. A restart may forget subscriptions.

**`IFeedHandler`.** The calls both handlers inherit. `stop()` is a request and a join; a destructor is a stop followed by
the closing of the socket, modelled here because both derived classes have to do it in that order.

**`Subscriptions`.** `Outcome` is what a set of subscriptions becomes by a sequence of commands: the last command on a symbol
decides, and a symbol no command is about stays as it was. The commands queued for the UDP loop and the subscription
messages under way to a ZMQ publisher are both judged by it, in `SubscriptionsAddUp`. It is not how the code applies a
command; that is `Apply` and `ControlArrives` of the two handlers.

**`UdpFeedHandler`.** The client calls, the command queue (a bounded FIFO whose failed `push` is ignored), the receive
loop in its steps (token, drain commands, `recvfrom`, filter, deliver), and the socket's receive buffer (external, drops when
full). `local_subscriptions_` is created by each run of the loop, so a restart forgets it while queued
commands survive. The client may call without limit. `accepted` (what all the commands that found room ask for, over the whole
life of the handler), `forgotten` (those of them a restart has dropped and no command was about since), `arrived` and `taken` are
history variables; `commands` counts the calls as far as one more than the queue has slots, which is as far as any property asks.
Callbacks are set before the first subscribe, as `main` and the tests do. Names and fields are short sequences of characters,
because the two conversions of `SymbolCodec` differ in the last character.

**`ZmqFeedHandler`.** `subscribe` and `unsubscribe` set two options each, `"Q:"` and `"T:"` with the symbol, in two steps. libzmq is
modelled from how the two classes use it: a subscription is a prefix, the SUB socket counts subscriptions per prefix, the
publisher learns of a new one and of the end of the last through messages that take time, both sides filter, the PUB
socket drops at its high-water mark, and the parts of a message stay together. The loop is modelled call by call: `recv` of
the topic with its time-out, the question for a second part, `recv` of the payload, the checks, the callback, and the
`ETERM` that ends it once the context is shut down. A client call on the socket of a running loop is a race: the option takes effect or
is lost (`raced`), and the client may go on calling, as `main` does for every symbol. Once the context is gone, `set` throws out of
`subscribe` or `unsubscribe`, at the first option or at the second (`SetThrows`). `asked` counts the calls per symbol; `wanted` is
what the contract is about: the symbols asked for and not withdrawn by a call that counts, which after a race none does, since
the counts of the socket may be off. Messages without a second part are not made by `send_impl`; they stand for another publisher on the port and
exercise the check for one.

**`BaseGenerator`.** `configure` with its partial effect when it throws, `start`, `stop` in two steps, and the
loop in its steps, with a clock that ticks between any of them. A message is its enqueue time stamp; prices, sizes
and the symbol drawn are random and left out. The consumer is one action.

**`Pipeline`.** `main` from its options to its exit: `phase` says what it is doing, `step` where it is in `Plan`, the sequence of
constructors, `configure`, subscriptions, starts and stops that `dispatch_types` and `run_benchmark_pipeline` make. Each of them
but a stop may throw (`Throw`); then, as after a normal return, the objects in `built` are destroyed in reverse order, each
destructor stopping its own thread first. The sleeps may end at any moment relative to the
workers. Generator, disseminator and receive loop are reduced to the steps that hand a message over. The queue is the
FIFO of `SpscFifo` with a `pop` that waits, as `SpinSpscQueue` provides it; with `WaitableSpscQueue` the race of `stop_race` would
end in the join of the disseminator. The network keeps the order of what it delivers and may lose anything: that is what
ZMQ over TCP and multicast looped back on one host do; reordering in a real network, and another sender on the multicast
group, are outside this model. Time stamps have the width of `uint64_t` (`Modulus` values).

## 3. Runs

| run | instance | shows |
|---|---|---|
| `ring` | capacity 2, 4 counter values, 6 pushes, 2 items, spinning consumer, stop, destructor | `FifoOrder`, `SlotOwnership`, `EmptyMeansDrained`, `DestroysUnlessWrapped`, `AtMostOneAfterStop`, refinement of `SpscFifo`, `EveryItemHandedOut` |
| `sleep_tso` | capacity 2, 1 buffered store, 4 pushes | `NoMissedNotify`, `NoFullStall`, refinement of `SpscFifo`, `VisiblePushWakes`, `StopWakesSleeper` |
| `lost_wakeup` | 1 buffered store, 2 pushes | **violation**: an item can stay in the queue of a sleeping consumer |
| `stop_race` | sequentially consistent, 1 push | **violation**: a stop request can be missed by `pop` |
| `udp` | names of 1 and 2 characters in a field of 3, 2 command slots, calls without limit, receive buffer of 1, 2 datagrams, 2 starts, destructor | refinement of `FeedContract`, `SubscriptionsAddUp`, `CallbackNotInUse`, `SubscribedNamePasses`, `DatagramsTaken`, `StopReturns` |
| `udp_wide_symbol` | a name as wide as the field | **violation**: it never passes the filter |
| `udp_dropped_command` | 3 subscribes, 2 slots | **violation**: a subscribe is dropped silently |
| `zmq` | 2 names, neither a prefix of the other, high-water mark 1, 3 calls, 2 messages, whole and one-part, 2 starts, shut-down | refinement of `FeedContract`, `PartsPaired`, `SubscriptionsAddUp`, `ClosedUnused`, `LoopEnds` |
| `zmq_prefix` | names A and AB, 1 call, 1 message | **violation** of the contract: a subscription to A delivers AB |
| `generator` | second of 4 ticks, rates 0, 2, 3, queue of 1, 4 ticks, 2 starts | `NeverAheadOfSchedule`, `LostOnlyByStop`, `TimestampsInOrder`, `CatchesUp`, `StopReturns` |
| `generator_no_symbols` | a symbols file without symbols | **violation**: the loop runs without symbols |
| `pipeline` | queue 2, network 2, 4 messages, 3 clock values, an exception at any step | refinement of `LossyChannel`, `LatenciesAreTrue`, `NothingLostInside`, `UsesAreAlive`, `EndsClean`, `Terminates` |

Every passing run checks its type invariant as well.

**Refinements.** Each abstract specification is implemented by every component that offers the promise, as a PROPERTY of
its run: `SpscFifo` by the ring (its history variables) and by the waiting queue (what memory shows of its counters);
`FeedContract` by the UDP handler (wanted: what the accepted commands ask for and no restart has dropped; grace: symbols withdrawn
that the loop, past its commands, still has in its set) and by the ZMQ handler (wanted: symbols subscribed more often than
unsubscribed, or subscribed at all once a call has raced; no grace, as a withdrawal that counts needs a stopped loop); `LossyChannel` by the pipeline (sent: messages generated; received: messages recorded). The two
handlers differ where the contract allows it: UDP keeps a set that one unsubscribe empties and that a restart
forgets, ZMQ counts subscriptions and keeps them over a restart.

**Why the bounds are enough to be interesting.** In `ring`, six pushes wrap the four counter values once and go
round the two slots three times, so full, empty, stale and wrapped states all occur, also together. The memory of
`sleep_tso` has two slots so that full and empty differ from "one item", and four pushes let the flag go up twice.
With `BufferSize` = 1 and two slots, `NoFullStall` sits at its edge: with as many buffered stores as slots
it does not hold, and the smallest real queue has 128 slots, more than a store buffer of an x86 core. In
`udp` the queue fills and overflows any number of times, the client can keep the inner loop supplied for ever, and a restart can
fall between any of its calls. A receive buffer of one drops what comes while it is full. In `zmq` three calls subscribe a symbol twice and withdraw it once, or withdraw and renew it, while the messages to
the publisher are still under way, and a pipe of one drops the second message. In `generator` rate 3 has a truncated
interval, the queue of one fills with the first message, and the clock allows five messages at most. In `pipeline` four
messages overfill both buffers.

**Deadlock** is not checked in the runs (`CHECK_DEADLOCK FALSE`): every instance can end, when the bounds on pushes, starts,
messages or time are used up, the workers have been joined or the object is gone. That nothing gets stuck before is what the liveness
properties say.

**Fairness.** Weak fairness of the steps of a running thread (the operating system schedules it), of a `join`
whose thread has ended, of the draining of store buffers, of the clock in `generator`, and of main's steps in `pipeline`.
In `zmq` a step of the loop includes the return of `recv` at its time-out, which the constructor sets.
`ring` adds strong fairness of a load that returns the newest `write_`: C++ asks that stores become visible in a
finite time. In `generator` the consumer is fair only until a stop is requested, so `StopReturns` also covers
a queue that nobody empties. `DatagramsTaken` of `udp` holds without any assumption on the client, which is why it excepts one that
puts commands into the queue for ever: without the exception TLC shows the inner loop at `UdpFeedHandler.h:107` taking
commands while a datagram waits. Never assumed: that a client calls anything, that another push follows, that a message arrives, that
something throws.

### Disagreements found

1. `lost_wakeup`: `WaitableSpscQueue::push` loads `is_sleeping_` relaxed after the release store of `write_`. The load
   may be performed while the store still waits in the store buffer; the consumer sets the flag, finds the queue empty
   and sleeps. At the end of a burst the item stays until the next push. `VisiblePushWakes` shows that this is the only gap: a push
   whose store has reached memory when it looks at the flag gets its item and all older ones through. `NoFullStall` shows that the
   producer cannot get stuck behind it.
2. `stop_race`: a stop callback that runs between `pop`'s test of the token and its store of `is_sleeping_ = true` is
   overwritten; `pop` sleeps, and `IDisseminator::stop` does not return from `join`. `StopWakesSleeper` shows that a
   consumer already asleep is always woken.
3. `udp_wide_symbol`: symbols of 8 characters are accepted everywhere, but the generator writes 7 of them and `pack_symbol`
   keeps 8.
4. `udp_dropped_command`: `subscribe_impl` ignores a full `command_queue_` (128 slots), and main reports every call
   as a subscription.
5. `generator_no_symbols`: a `configure` that throws because of its file has already set the rate, so `start()` does not throw.
6. `zmq_prefix`: a ZMQ subscription matches a prefix of the topic, the topic of a subscription has no terminator, and the loop
   does not compare the symbol, so a client of A is also called for AB. The UDP handler compares the whole field.

Not violations of a stated promise, but worth knowing:

- With ZMQ, `main` subscribes after `feedhandler.start()`, on a socket the receive thread is using, which libzmq does not support.
  `zmq` includes such clients: they are called with whole messages of symbols they asked for only, parts stay
  paired and the loop ends; that a subscription takes effect or a withdrawal stops the messages is not promised to them.
- The destructor of the ring leaves the items in it undestroyed when `write_` has wrapped and `read_` has not; `DestroysUnlessWrapped` states
  exactly that. It takes 2^64 pushes (`DestructorIsComplete`), and the message type needs no destructor.
- After a restart a UDP handler has lost the subscriptions its earlier thread had taken from the queue, and only those
  (`SubscriptionsAddUp`); a ZMQ handler keeps all.

## 4. Proofs

Every invariant and every refinement of the passing runs is a theorem of the corresponding specification, for every value of its
constants that satisfies the named assumptions of the module. The bounds (`MaxPushes`, `MaxDatagrams`, `MaxTime`, ...) are constants
too, and any natural number.

| proof module | theorems (property of the run) | assumptions beside the bounds |
|---|---|---|
| `CustomSpscQueueProofs` | `FifoCorrect` (`FifoOrder`), `SlotsOwned` (`SlotOwnership`), `EmptyIsSound` (`EmptyMeansDrained`), `DestructorIsExact` (`DestroysUnlessWrapped`), `DestructorIsComplete`, `RefinesFifo` (`ImplementsFifo`), `TypeCorrect`, `RingInvariant` | `Capacity` > 0; `Modulus` a larger multiple of it (all sizes `main.cpp` instantiates are powers of two); `Raw` is not an item; `DestructorIsComplete` needs `MaxPushes` < `Modulus` |
| `SpinSpscQueueProofs` | `SpinUsesTheRing`, `SpinKeepsOrder`, `StopTakesEffect` (`AtMostOneAfterStop`) | those of the ring |
| `WaitableSpscQueueProofs` | `NotifyFollowsClear` (`NoMissedNotify`), `NeverFullAsleep` (`NoFullStall`), `MissesOnlyBuffered`, `WaitableRefinesFifo` (`ImplementsFifo`), `WaitableTypeCorrect`, `WakeInvariant` | `Capacity` > 0, any `BufferSize`; `NeverFullAsleep` needs `BufferSize` < `Capacity` |
| `BaseGeneratorProofs` | `PacedBySchedule` (`NeverAheadOfSchedule`), `OnlyStopsLose` (`LostOnlyByStop`), `StampsAreOrdered` (`TimestampsInOrder`), `UsableFilesSuffice`, `GeneratorTypeCorrect`, `GeneratorInvariant` | `Second` > 0, rates are naturals; `UsableFilesSuffice` needs a usable symbol in every file |
| `PipelineProofs` | `LatenciesCorrect` (`LatenciesAreTrue`), `QueueIsLossless` (`NothingLostInside`), `NoUseAfterDestroy` (`UsesAreAlive`), `MainCleansUp` (`EndsClean`), `PipelineIsChannel` (`ImplementsChannel`), `PipelineTypeCorrect`, `PipelineInvariant` | both capacities > 0; the time stamps hold the clock (`MaxTime` < `Modulus`) |
| `SubscriptionsProofs` | lemmas on `Outcome`: one command less at the front, one more at the end, none | |
| `UdpFeedHandlerProofs` | `CallbacksSetInPeace` (`CallbackNotInUse`), `CommandsAddUp` (`SubscriptionsAddUp`), `ShortNamesPass` (`SubscribedNamePasses`), `FirstCommandsCount`, `HandlerKeepsContract` (`ImplementsContract`), `HandlerTypeCorrect`, `HandlerInvariant` | capacities and field width > 0; `ShortNamesPass`: names shorter than the field; `FirstCommandsCount` is about as many calls as the queue has slots |
| `ZmqFeedHandlerProofs` | `PartsStayPaired` (`PartsPaired`), `SocketClosedUnused` (`ClosedUnused`), `FilterAddsUp` (`SubscriptionsAddUp`), `SocketKeepsContract` (`ImplementsContract`), `SocketTypeCorrect`, `SocketInvariant` | high-water mark and field width > 0; `SocketKeepsContract`: no name is a prefix of the field of another |

**Findings and their conditions.** Four theorems carry a condition that a violation run shows to be needed: `ShortNamesPass`
(`udp_wide_symbol`), `SocketKeepsContract` (`zmq_prefix`), `UsableFilesSuffice` (`generator_no_symbols`), and `FirstCommandsCount`,
which is `SubscribeCounts` for the first `CmdCapacity` calls (`udp_dropped_command` drops the next one; `main` makes one call per
symbol, so its lists of up to 128 symbols are safe). `MissesOnlyBuffered` measures
the gap of `lost_wakeup`: a sleeping consumer has left behind at most `BufferSize` items, so none without store buffers.

**The inductive invariants.** None of the properties is inductive as it stands. Each proof module defines the conjuncts that make
it so, has one lemma per action, and combines them in a lemma on `Next`; the temporal steps are PTL. The
invariants were checked with TLC on the instances of the runs first.

*Ring.* `FifoOrder` does not say where an item lies or why a stale counter is safe. A *ticket* is the number of an accepted item.
`RingInv` says that each modification order is its positions modulo `Modulus` (`CountersInv`); that the oldest `read_` push may
still act upon is at most `Capacity` tickets behind, and that pop's view of `write_` is never behind its own counter
(`ViewsInv`); that past the full test there is a free slot and past the empty test an item (`PushInv`, `PopInv`); and
that the live tickets are exactly what `data_` holds, each in slot ticket `%` `Capacity` (`DataInv`). The step
that carries the proof is that two live tickets are less than `Capacity` apart, so their slots differ (`SlotsDiffer`),
and that the wrapped difference `w - r` equals the true one because that is at most `Capacity` < `Modulus`
(`MinusTrue`). When `read_` is not above `write_`, the destructor's loop visits the slot of every ticket that is left (`LeftOverIsAll`); when it
is, the loop visits none and the oldest of them is still in its slot (`WrappedLeavesOldest`).

*Spinning pop.* Every step is a step of the ring or leaves it alone (`SpinStepIsRingStep`), so the ring's theorems carry over.
`SpinInv` adds that a stop leaves the number of items of the request, or one more and no attempt under way.

*Waiting queue.* `WakeInv` says what may wait in each store buffer at each place of its thread: consecutive values of `write_` and
then the flag for the producer (`ProducerInv`), at most one `read_` and then the flag for the consumer, nothing before an
attempt or a sleep (`ConsumerInv`), only the flag for the stopper. With that, what a thread sees and what memory holds differ by the known
number of `Unpublished` pushes (`CountInv`), and `MissedInv` follows: a consumer that sleeps, or is about to, with its flag up
has missed no more pushes than fit in the producer's buffer.

*Generator.* `ScheduleInv`: `next_time` is the start and one interval per round that has ended (`Slots`), and a message in hand was
due. `LostInv` counts the losses against the threads started: at most one each, and none by a thread that has not been stopped. `StampsInv`: the history is sorted and not younger than
the message in hand or the clock.

*Pipeline.* `PlaceInv`: main's `step` and `phase` determine which objects are built and which threads can be there. `OrderInv`: the stages
from monitor back to generator hold ever younger messages, each buffer in order, which gives the channel. `GaplessInv`: until the
generator is stopped, the queue holds the youngest messages without a gap. `StampInv`: stamps are taken from one clock in the order of the stages, so the
differences in `Modulus` arithmetic are the true ones. `EndInv`: which sockets are open and that the records are saved once the monitor is gone.

*UDP handler.* `AddUpInv` is `SubscriptionsAddUp` without its condition that the thread runs: the set of a thread that has ended still
counts, which is what makes a start a `Restart` of the contract. `ForgottenInv`: what a restart dropped was accepted and no queued command is about
it, so a later command on the symbol makes it count again (`StandingRestarted`). `BufferInv` keeps what the loop has checked of the datagram it holds. In the refinement
a symbol is in grace while the loop is past its commands; when it has just drained them, `AddUpInv` says that its set is what
stands, so no grace begins there.

*ZMQ handler.* Between its two options a call leaves the counts of trades one step behind those of quotes (`CountInv`). `FilterInv`: the
publisher's filter and the subscription messages under way add up to the topics with a positive count. `PairInv`: the parts
left belong to the topic in hand. `WantedInv`: a topic with a positive count is of a wanted symbol, whether or not calls raced (`CountedIsWanted`).
`HeldInv`: the message in hand matched a subscription to a wanted symbol; the hypothesis on names turns the prefix match into the symbol itself.

**Only model-checked.** The liveness properties: `EveryItemHandedOut`, `VisiblePushWakes`, `StopWakesSleeper`, `DatagramsTaken`, `LoopEnds`,
`CatchesUp`, `Terminates` and `StopReturns` of the UDP handler and the generator. Liveness under fairness and `ENABLED` are out of the
prover's reach. So is induction over data, which is why `Outcome` is stated by the last command on a symbol and not as a fold.


## 5. Not modelled

- libzmq beyond what section 2 says of it: reconnection, messages of more than two parts, errors other than `ETERM` and the time-out;
  a `send` that throws in the disseminator's thread would end the process.
- Socket options, the values of the command line's options, the CSV layout, logging, the Python scripts: input and output without
  protocol state. The outcomes of the parsing (help, an unknown option, an unsupported size) are in `Pipeline`.
- The destructor of a ZMQ handler whose context has been shut down throws in `set(linger)`; the model ends there (`aborted`).
- Another sender on the multicast group in `Pipeline`. `UdpFeedHandler` has datagrams of the wrong type and size.
- Prices and sizes: random, and nothing depends on them. Rates above one message per tick make the interval 0; the proofs cover
  them, but the schedule then promises nothing and the runs leave them out.
- `MarketDataGenerator`: commented out in the repository.
- `boost::lockfree::spsc_queue`: external; used through the interface whose promise is `SpscFifo`.
- Two clients on one handler, `configure` on a running generator, callbacks replaced while data flow: the repository's callers do none of these.

## 6. Plan

The components of the repository that keep state are modelled, and the safety properties are proved. What is left:

1. What the abstract specifications promise, as theorems of their own that every implementation inherits: `SpscFifo` (what is
   handed out is a prefix of what was accepted), `LossyChannel` (records are strictly increasing), `FeedContract` (only whole messages).
2. Action properties: a stopped handler delivers nothing until it is started again; a stop of the generator is never withdrawn by its loop.
3. Safety parts of the liveness properties: where each thread can be when a join waits for it.
