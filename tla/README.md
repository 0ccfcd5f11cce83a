# A TLA+ model of yut and its logging library

This directory holds a formal model of the C++ code under `src/mygame2/src`: the
base library `yut/base` (queues, logging, timers, buffers), the log manager of
`common/log.cc`, and the network layer `yut/net` (the event loop, its channels,
sockets, signals and addresses). The modules are checked by TLC on small instances
and, where marked, proved by TLAPS for every instance. Paths below are relative to
`src/mygame2/src` unless they start with `src/`.

Contents: [the system](#the-system), [the modules](#the-modules),
[the runs](#the-runs), [fairness](#fairness), [the proofs](#the-proofs),
[divergences found](#divergences-found), [what is not modelled](#what-is-not-modelled),
[the plan](#the-plan).

## The system

The built program (`src/mygame2/mak`) is `yut/base` as a library, `common/log.cc`
and a demonstration program, `test/main.cc`, which logs and runs one timer. The
library is multi-threaded only through the asynchronous log sink. `yut/net` is in
no makefile and does not compile at this commit; what had to be read past is listed
under [divergences](#divergences-found).

| Component | State it keeps | Operations | Talks to |
|---|---|---|---|
| `ConcurrentQueue<T>` (`base/concurrent_queue.h`) | a deque, `max_size_`, a mutex and two condition variables | `push`, `pop` (block), `pushIfNotFull`, `popIfNotEmpty`, `peek`, `size`, `empty`, `full` | shared by the threads that use it |
| `ObjectPool<T>` (`base/object_pool.h`) | a list of free objects under a mutex | `getObject`, `returnObject` | `LogAsyncSink` |
| `LogAsyncSink` (`base/log_async_sink.cc`) | a pool of buffers, a bounded queue, the log thread, the sink it adapts | `log`, the log thread's loop, destruction | any sink; called by `LogCore` from any thread |
| `LogFileSink` (`base/log_file_sink.cc`) | path pattern, the path in use, a `FILE *` | `openFile` (daily rotation), `log`, destruction | `Timestamp`, `BaseLogger` for its own errors |
| `LogStderrSink` | none | `log` | stderr |
| `LogCore` (`base/log_core.cc`) | a table of loggers, each with formatter, level filter, buffer size and owned sinks | `setMaxLoggerCount`, `setMaxLogSize`, `registerLogger`, `removeLogger`, `addSink`, `setLevelFilter`, `log`, `plainLog` | sinks |
| `LogManager` and macros (`common/log.{h,cc}`) | the singleton; which loggers are set up | three `init...Logger` functions, `LOG_*`, `PLAIN_LOG_*`, `logNetMessage` | `LogCore`, the sinks, `BaseLogger` |
| `BaseLogger` (`base/base_logger.cc`) | the function that receives the library's own messages | `setLogFunc`, `BASE_DEBUG`... | stderr, or `LogManager::baseLogFunc` |
| `MinHeap`, `BaseHeapValue` (`base/min_heap.h`) | a vector of pointers; each node knows its slot | `insert`, `erase`, `top` | `TimerHeap` |
| `TimerHeap` (`base/timer_heap.cc`) | a map from ids to timers, a `MinHeap` of them, an id counter | `addTimer`, `removeTimer`, `checkTimeout`, `getNextTimeoutMillisecond` | callbacks, which call it again |
| `Timestamp` (`base/timestamp.cc`) | seconds and nanoseconds | `setNow`, `+`, comparisons, distances, `format` | the clock |
| `DynamicBuffer` (`base/dynamic_buffer.cc`) | a byte vector, a read index, a write index | integers and bytes in and out, `reserveWritableBytes`, `swap`, `clear` | `LogAsyncSink` |
| `LoopService` (`net/loop_service.cc`) | an epoll descriptor, the channels removed in this round, a `TimerHeap` | add, remove and update channels, timers, `loop`, `quit` | `IOChannel` callbacks |
| `IOChannel` (`net/io_channel.cc`) | a descriptor, three callbacks, the loop it is attached to | attach, detach, set callbacks, destruction (detaches) | `LoopService`, epoll |
| `SelfPipe`, `SignalQueue` (`net/self_pipe.cc`, `net/signal_queue.cc`) | the two ends of a pipe, a callback | `push` (from a signal handler), `pipeReadCallback` | `LoopService` as an `IOChannel` |
| `TcpSocket` (`net/tcp_socket.cc`) | a descriptor, as an `IOChannel` | open, connect, bind, listen, accept, and `activeOpen`, `passiveOpen`, `acceptNonblock` made of them; close | the kernel, `InetAddress` |
| `InetAddress` (`net/inet_address.cc`) | an address as text and in native form, each a lazily filled cache of the other | getters, setters | `TcpSocket` |

### How they interact

A `LOG_*` macro calls `LogCore::log`, which formats the record into the logger's
buffer and hands it to each sink. The main logger's sinks are a `LogAsyncSink`
around a `LogFileSink`, and optionally a `LogStderrSink`. `LogAsyncSink::log`
takes a buffer from the pool, copies the record and *blocks* in
`ConcurrentQueue::push` while the queue is full; the log thread pops, writes,
empties the buffer and returns it to the pool. The library reports its own errors
through `BaseLogger`, whose function `LogManager` sets to one that logs to the
main logger. So an error of the file sink, which happens *on the log thread*,
enters the queue that only the log thread empties.

A user of `TimerHeap` runs a loop that asks for the next timeout, waits and calls
`checkTimeout(now)`; callbacks run inside it and may add and remove timers.
`LoopService::loop` is such a loop: one thread waits in `epoll_wait` for channels
and the next timer, calls the callbacks of the channels that are ready, then checks
the timers. A callback may add, remove, delete and create channels and timers. What
epoll reports is a pointer to the channel, so the loop keeps the set of addresses
removed since the round began and skips their events. A `SignalQueue` is a pipe
attached to the loop, which a signal handler writes to; sockets and the pipe open
and close their own descriptors, out of one table of the process.

### What is hard here, and what correct means

* **Queue.** The mutex is released in every wait, a notified thread may lose the
  race for the slot it was woken for, and waits return spuriously. Correct: the
  bound holds, and no thread waits for something that is there.
* **Asynchronous sink.** A buffer changes hands five times between threads.
  Correct: one owner at any time, nothing of an old record left in it, no record
  lost at shutdown, shutdown ends.
* **File sink.** The open in the middle of a rotation can fail and the clock can
  go back. Correct: no descriptor leaks, a record goes to the file of its day unless
  an open failed and was reported.
* **Log core and manager.** Ownership of sinks through sequences of calls of which
  some fail half-way; records that do not fit. Correct: each sink is deleted once,
  no record exceeds the buffer that was allocated for it.
* **Timer heap.** Callbacks change the heap in the middle of `checkTimeout`; ids
  wrap; a node's slot must be right for `erase`. Correct: map and heap agree,
  each timer is called as often as asked, periods do not drift, checks return.
* **Timestamps.** Carries, and truncation to milliseconds. Correct: what the time
  line says.
* **Dynamic buffer.** Unsigned arithmetic that wraps when room is computed.
  Correct: a byte queue.
* **Event loop.** Events of one round outlive the channels they were reported for,
  addresses are used again, waits are interrupted, event slots are few. Correct: no
  callback for an event of a registration that is gone, epoll polls what callbacks
  there are, waits end when a timer is due, nobody is starved.
* **Sockets and signals.** Sequences of system calls each of which can fail; a
  signal at any moment. Correct: an open gives everything or nothing, each
  descriptor has one owner and is not registered once closed, signals are taken.
* **Addresses.** Two caches under two flags. Correct: no trace of an older address.

`PROJECT.json` lists each hazard at its source line with the properties that
would catch it.

## The modules

| Module | Models | Depends on |
|---|---|---|
| `ConcurrentQueue` | the queue, one action per critical section | |
| `LogChannel` | *abstract*: what an asynchronous sink promises | |
| `LogAsyncSink` | sink, pool, log thread, destructor | instantiates `ConcurrentQueue`; implements `LogChannel` |
| `LogFileSink` | rotation, failed opens, restarts | |
| `MinHeap` | insert and erase, one action per loop iteration | |
| `TimerService` | *abstract*: what a timer heap promises | |
| `TimerHeap` | timers, ids, `checkTimeout` with re-entrant callbacks, destruction | extends `MinHeap`; implements `TimerService` |
| `Timestamp` | operators: sums, comparisons, distances, `getNextTimeoutMillisecond` | |
| `ByteFifo` | *abstract*: queues of bytes | |
| `DynamicBuffer` | indices, growth, integer encodings | implements `ByteFifo` |
| `LogCore` | the table of loggers, ownership, formatting by length | |
| `LogManager` | the init functions, macros, `BaseLogger`, program exit | extends `LogCore` |
| `IOChannel` | channels over an epoll instance | |
| `LoopService` | the event loop | extends `IOChannel`, `Timestamp`; instantiates `TimerService` |
| `Descriptors` | the process's table of descriptors | extends `IOChannel` |
| `InetAddress` | the two forms of an address | |
| `TcpSocket` | sockets, one system call per step | extends `Descriptors`, `InetAddress` |
| `SignalQueue` | the queue over its pipe | extends `Descriptors` |
| `ChannelOwners` | sockets and a signal queue in one process | composes `TcpSocket`, `SignalQueue` |
| `ConcurrentQueueProofs`, `LogAsyncSinkProofs`, `LogFileSinkProofs`, `DynamicBufferProofs`, `LogCoreProofs`, `ChannelOwnersProofs` | theorems | extend the module of that name |
| `TimerHeapProofs` | theorems, about `MinHeap` on its own and about `TimerHeap` | extends `TimerHeap` |
| `LoopServiceProofs` | theorems, about `Timestamp`'s operators and about `LoopService` | extends `LoopService` |
| `MC...` | constants for TLC | the module of that name |

Operators whose names start with `Mut` are plausible bugs. No definition uses
them; substituting one for the definition it stands before must make TLC report
the property it is listed with in `PROJECT.json`, which shows that the property
depends on that piece of code.

### State and actions, module by module

**ConcurrentQueue.** `queue` is `queue_`. Each method runs under `data_mutex_`, so
the code between two releases of the mutex is one action: `Push`/`Pop` up to the
wait or the return, `ResumePush`/`ResumePop` for one more evaluation of the
`while` after a wait, `PushIfNotFull`, `PopIfNotEmpty`. A condition variable is a
pair of sets: the threads that wait, and those that were woken and have not got
the mutex back. `notify_one` moves any one thread from the first to the second,
a spurious wakeup likewise. Which thread gets the mutex next is open.

**LogAsyncSink.** `pc` says where each producer, the log thread and the
destructor are; `held` and `current` are the local `queue_buffer`s, `content` the
records in each buffer, `pool` the free list. `GetBuffer`, `Fill`, `PushBuffer`
are `log()`; `PopBuffer`, `WriteRecord`, `Recycle` the loop of `logThreadFunc`;
`BeginDestroy`, `PushBuffer` (of nullptr), `FinishDestroy` the destructor.
`WriteRecord` may fail, and then the log thread itself goes through `log()`, as
it does when the adapted sink is the main logger's `LogFileSink`. A producer
makes no call once the destructor has begun: that is the caller's duty.

**LogFileSink.** A path is the day it names. `openFile()` has three outcomes
(`AlreadyOpen`, `OpenFails`, `Opens`); `Log` takes one of them and then writes or
reports. `openCount` counts open `FILE *`s, so that a leak shows.

**MinHeap, TimerHeap.** A node is its address, since `MinHeap` compares the
pointers it stores. The loops of `insert` and `erase` are steps (`SiftUp`,
`SiftDown`), so that invariants are also checked in the middle. `mode` is where
`checkTimeout` is; while it is `inCallback`, `AddTimer` and `RemoveTimer` are
enabled again, which is how callbacks re-enter. `NextIds` has two outcomes at
the largest id, since the overflow of a signed counter is undefined. New timers
get any free address. The mapping to `TimerService` forgets addresses and heap: a
timer is its id, deadline, timeout and the calls it has left, and the steps of the
heap's loops are stutters.

**TimerService.** A check may call any timer that is due and may end while one is
due if another is not: no more is true of a heap that is not ordered by deadline.

**Timestamp.** Operators on records of seconds and nanoseconds; divisions truncate
as in C++.

**DynamicBuffer.** A buffer is a record of its vector and indices and each
operation an operator on it; `SizeT` is the arithmetic of `size_t`, modulo
`2^SizeBits`. Overloads that differ in the width of the result are one operator.

**LogCore, LogManager.** A message is its length, and a record is who formatted
it, its byte count, its last byte, and whether all the message is in it.
`LogCore` calls are sequential actions. The client's pointers are `callers`, and
`inner` is what a `LogAsyncSink` owns. `LogManager`'s init functions are one
action each, with the failing outcomes of `registerLogger` and `openFile` as
alternatives; `LogNetMessage` is a prefix and the message, cut at the size of a
local buffer; `Exit` is the end of `main`.

**IOChannel.** A channel is its address, which a later one can get. `interest` is
the epoll instance: for each registered descriptor the pointer and the events it
was given, which `RegistrationsMatch` compares with what the channels have.
`reported` notes, for the property `NoStaleCall` alone, that the last wait
reported this registration. The client gives each channel a descriptor of its own,
and changes it only while the channel is detached.

**LoopService.** `mode` says where `loop()` is. `WaitBegins` computes the timeout
from any pending timer, since any may be at the top of the heap; the wait ends in
`WaitReports` (all that is ready, or as many as there are slots, in any order),
`WaitTimesOut`, `WaitInterrupted` or `WaitFails`. `EventEnds` and `CallbackBegins`
take the batch one callback at a time, and while a callback runs (`mode` is
"callback", or `phase` is, for a timer's) every call of the client is enabled.
A callback that was cleared since throws and ends the loop, as an empty
`std::function` does. `RoundEnds` clears `removed` and doubles the slots. Readiness
of descriptors changes as it likes, but matters only during a wait. Time
stands still while there is no timer, as nothing reads it then.

**InetAddress.** A text stands for text and port; `inet_pton` and `inet_ntop` are
inverse to each other where the text is one the first accepts. `said` is the
history that `CacheCoherent` compares the getters with.

**TcpSocket.** A call is the list of the steps still to do (`Steps`), so that
signals and failures come between any two. A socket is a file with a family, a
state and options. Destroying a socket is closing it, and a closed one is as good
as new. `overwritten` notes that `accept()` was given a peer with a descriptor;
nothing is done with sockets after that.

**SignalQueue.** The pipe is a sequence of bounded length; `Push` drops a signal
that does not fit. `CreateQueue` is a constructor that succeeds, which with the
inverted test of line 38 (see divergences) needs a `fcntl` that fails.

**ChannelOwners.** One thread runs sockets and queue, so the queue's steps wait for
a call to return, but `Push` does not.

## The runs

| Run | Question | Bounds |
|---|---|---|
| `queue` | Is the bound kept, and is any wakeup lost? | 4 threads that each push and pop, 2 slots, 2 items |
| `log_async` | Who owns each buffer; does the sink implement `LogChannel`; do calls and shutdown end unless a write fails? | 2 producers, 2 records each, 2 slots, 1 failing write |
| `log_async_sink_error` | *Violated*: does shutdown end when a write fails? | 2 producers, 2 records each, 1 slot, 1 failing write |
| `log_file` | Do rotation and failures leak or misfile? | 3 days, 4 records |
| `timer_heap` | Do map, heap and slots agree, is it a `TimerService`, does a check return, does a finite timer end while none is endless? | 3 timers, 3 addresses, 4 ids that wrap, clock to 2 |
| `timer_heap_order` | *Violated*: is the first timer to expire at the top? | 2 timers |
| `dynamic_buffer` | Is it a byte queue, does room arrive, is growth bounded? | 2 buffers, 3 bytes, 2 values per byte, 5-bit `size_t` |
| `dynamic_buffer_little` | *Violated*: does a read in little-endian order answer the bytes it removes? | the same |
| `log_core` | One owner per sink; do records fit? | 2 sinks, 2 loggers, 2 levels, sizes 1 and 4 around header 2 |
| `log_manager` | What do repeated and failing inits leave? | 3 loggers, 7 sinks, messages of 0 to 4 bytes |
| `loop_service` | Are stale events skipped, timers and ready channels served, waits as long as they should be? | 2 channels, 2 descriptors, 2 timers (2 objects at a time), 4 clock readings, 1 slot at first |
| `channel_owners` | One owner per descriptor, opens all or nothing, addresses coherent, signals taken? | 2 sockets and a queue on 3 descriptors, a pipe of 1 signal |

Why these bounds suffice for what is asked:

* *queue*: stranding needs two waiters on one side and two threads on the other;
  four interchangeable threads that all do both give every split. TLAPS proves
  the same properties for every number.
* *log_async*: with two slots and four records the producers, the log thread and
  the destructor all meet a full queue, and the report of a failed write can queue
  behind the destructor's nullptr; with one slot it cannot, and the property that
  its buffer is freed would say nothing. Two records per producer let a buffer go
  through the pool and be used again.
* *log_file*: three days and a clock that moves both ways give every pattern of
  same day, next day, back, around a failure.
* *timer_heap*: with three nodes an insert moves a node up and an erase takes the
  last, the first and one in between. An erase leaves two at most, so that no node has
  two children to choose from: the right one (`Child`) is left to the theorems, which
  hold for any number of nodes. The ids range over -2..1, so that two timers are
  enough to make the counter collide. The requests are one of two calls, an endless
  one (`call_times` -1, the default) and one of two calls with a negative timeout
  (clamped); each heap holds any mixture of them, so that finite timers are checked
  alone, under an endless one, and after it was removed. No timer is added after the
  first reading, or callbacks could keep a check busy for ever with new ones. The
  clock goes forward; that it may also be set back under `TimerServiceSpec` and
  the invariants is in the theorems (any `ClockSteps`). Timeouts are below
  `IntLimit`: see divergences.
* *dynamic_buffer*: three bytes let `reserveWritableBytes` reach each branch,
  with the subtraction wrapping (two discarded bytes, one asked for). Bytes have
  two values, which is enough to see an order changed. Integers are read in both
  orders. `ByteFifoSpec` leaves out one thing, what `readInt16/32/64(v, true)` answer,
  and checks the bytes they remove; `dynamic_buffer_little` checks the answer too.
* *log_core*: with header 2, size 4 and text 0 to 4 a record ends before, at and
  after the end of the buffer; size 1 has no room for the header.
* *log_manager*: 7 sinks are all that three init functions can construct.
* *loop_service*: a callback of one channel against the other's event in the same
  batch is what the removed set is for; two addresses let a channel be deleted and
  another take its place. The readings 0, 0.999999, 2 and 4 ms lie around the
  truncation to milliseconds and, with timeouts of 1 and 3 ms and a longest wait of
  2 ms, on both sides of the cut: a wait can be of 0 or 1 ms for a timer, or the longest. No timer and no channel is started after the first
  reading. One slot at first is fewer than the ready channels. The callbacks are
  "read" and "error"; "write" is treated like "read" and comes before it.
* *channel_owners*: three descriptors are one fewer than two sockets and a pipe need,
  so that opens fail for want of one, and the lowest free one is used again at
  once. One text that `inet_pton` takes and one that it does not; the proofs cover
  IPv6 and the texts with both a dot and colons.

## Fairness

`LogAsyncSink` assumes weak fairness of each thread's internal steps: a thread
that can run runs and gets the mutex in the end. Nothing makes a producer log or
the owner destroy the sink. `PushBuffer` is weakly fair per thread, which
suffices for `LogCallReturns` only because the number of records is finite: with
endless traffic `notify_one` and the mutex promise no order. Both liveness
properties leave out the executions in which a write has failed, which
`log_async_sink_error` shows to hang.

`TimerHeap` assumes that heap loops and `checkTimeout` run on, that time passes,
that the program calls `checkTimeout` again and again (the `for` of
`test/main.cc:39-51`), and that a callback returns. The last two are strong
fairness, since other legal steps, of the caller or of the callback, can come
between for a while. Both liveness properties carry their condition. A check
returns unless an endless timer has period 0, which is due again as soon as it was
called. A finite timer ends or there is an endless one (`TimersDrain`): the
leads-to starts anew at each moment, so that it is a promise again from the moment
the last endless timer is removed.

`LoopService` assumes that `loop()` runs on (weak fairness of its own steps), that
callbacks make finitely many calls and return (strong fairness, since their calls
come between), and that time passes. Nothing makes the program call `loop()`, and no
interruption of a wait is ruled out, however often: `TimersServed` holds because
the timeout is computed again each time. `ReadyServed` has one condition, that
channels are not removed for ever: a channel that is removed and attached again in
every round is skipped in every round. The kernel's choice of which events it
reports needs no fairness beyond the growth of `events_`, which ends with as many
slots as channels. What `TimersServed` promises is weak, that not *all* timers stay
due for ever, since one that is not due at the top of the heap hides the others.

`ChannelOwners` assumes that a call of a socket returns (each step ends) and that the
loop calls a queue that is attached and readable and its callback reads on, strong
since socket calls and signals come between. That the loop does so is what
`ReadyServed` states of `LoopService`.

## The proofs

All theorems hold for every value of the constants that satisfies the named
`ASSUME`s of the modules; TLC evaluates those on every run.

**ConcurrentQueueProofs.** `TypeCorrect`, `CapacityCorrect`, `NoPusherStranded`
and `NoPopperStranded`, for any finite set of threads and any capacity,
0 (unbounded) included. "No stranded waiter" is not inductive: that all slots are
taken says nothing after the next pop. The invariant `IInv` counts: while anybody
waits in `push()`, the woken pushers and the queued items together are at least
`max_size_` (`WokenCoverFreeSlots`); while anybody waits in `pop()` there are at
least as many woken poppers as items (`WokenCoverItems`). Each dequeue takes one
item and wakes one pusher, each enqueue the reverse; a woken thread that goes
back to waiting does so only when the queue is full (or empty), when the count
holds by itself. With no woken thread the count says "full" (or "empty").
The lemmas are about cardinalities of sets that gain or lose one thread.

**LogAsyncSinkProofs.** `TypeCorrect`, `OwnershipCorrect`, `NothingLeaks` and
`DrainCorrect`, for any finite set of threads, any queue size and any number of
records, written or failed. `OwnedOnce` is not inductive: that a push queues a
buffer which is nowhere else needs to know what each thread holds at each place of
its code (`Control`, `Holding`), and that what the queue has noted as the item of a
waiting thread is the buffer that thread holds (`Waits`). `SinkInv` adds that no
buffer is in two of pool, queue and hands (`Exclusive`) or in none (`Covered`), and
that nothing is freed before the end. `DrainedAtShutdown` needs more, `DrainInv`:
the record of each call that returned is in exactly one place, a queued or held
buffer, what was written or what was lost (`Contents`, `OnePlace`), and whatever is
queued behind the destructor's nullptr the log thread put there itself
(`NullLast`). `QueueIsUsedWell` is a refinement: every step of the sink is a step
of `ConcurrentQueue` or leaves it alone. So the theorems of `ConcurrentQueueProofs`
hold inside the sink without being proved again (`NobodyStranded`).

**LogFileSinkProofs.** `TypeCorrect` (a sink in use has a file to write to),
`FilesNeverLeak` and `MisfiledAfterFailure`, for any number of days and records.
The last is inductive only with `StalePathReported`: whenever the path noted is
not that of the open file, a failure on that path's day has been reported.

**LogCoreProofs.** `OwnershipCorrect`, for any finite set of sinks
(`SinksAssumption`: a program makes finitely many) and any number of loggers. The
property counts owners; the invariant `CoreInv` says the same without counting,
kind by kind: two entries of the table never hold the same sink, what an entry
holds the client does not, nor does an asynchronous sink around it, two
asynchronous sinks never share one, and a sink is alive exactly if some owner has
it (`EntriesDiffer`, `OwnersDiffer`, `AliveAreOwned`). `WrapsOnce` is needed since
deleting a sink deletes the one inside it and no further. `CountsByKind` turns
this into the count. `TypeCorrect` is a part of it. `BytesCorrect` and `LinesCorrect`
follow, as `LogInv`, from the arithmetic of the three `snprintf` calls, in every
order of their reaching the end of the buffer.

**TimerHeapProofs.** First `MinHeap` alone. `PositionsCorrect`: in every state, in
the middle of loops too, `heapPos[heap[i]] = i`. It is inductive together with the
types, since it makes the slots distinct. `MembersCorrect` follows: a call changes
the set of nodes by its own node and the loops not at all. (Order is *not* an
invariant, see below.) Then `TimerHeap`: `TimerTypeCorrect`, `HeapMapCorrect` and
`HeapPositionsCorrect`, for any addresses, requests, clock and width of the ids.
None of the three is inductive without the others (`TimerInv`): an erase removes the
right timer because its slot is right, and map and heap stay the same timers because
the right one is removed; in between, `TypeOK` says which timer is out of the heap.
`TimerServiceCorrect` is the refinement: each step of the heap is the step of
`TimerService` of the same name, or a stutter for a loop iteration. Its hypothesis
`PeriodsFit`, that each timeout asked for is below `IntLimit`, is needed, not a
convenience: a timeout that `getTimeout` truncates changes its period
(`base/timer_heap.cc:47`, see divergences).

**LoopServiceProofs.** First the operators of `Timestamp`: `PlusExact`,
`ComparisonsMeanTime`, `DistanceExact` and `WakesWhenDue`, for all normalised
timestamps and non-negative delays: a thread that sleeps for the timeout it was given
finds its timer due, to the millisecond.

Then `LoopService`: `RegistrationsCorrect` and `NeverStale`, for any channels,
descriptors, timers and clock readings. The invariant `IInv` has two parts.
`ChannelInv` (types, and epoll agrees with the channels) is inductive by itself,
since descriptors are distinct among the channels; each operation of `IOChannel` has a
lemma that says what it leaves alone (`Kept`: the other channels stay attached,
with the report of their registration). `BatchCurrent` is why no event is stale: each
event still to come is of a channel that is in `removed`, or that is attached
and has had its registration since the round began. An operation that takes a
registration away puts the channel among the removed, and no operation takes it off again
before the round ends, when the batch is empty. The theorem needs the client's
duties named under IOChannel: a descriptor that is closed before its channel is
detached would make `EPOLL_CTL_DEL` fail and leave no trace in `removed`.

`TypeCorrect` adds `LoopTypes`: the timers have deadlines that are normalised sums of
readings and timeouts, and the sleep is -1 or at most `MaxEpollTimeout`.
`SleepsCorrect` says that a wait which times out early finds a timer due. Its
invariant `SleepInv` says that a sleep shorter than the longest one is the timeout
computed for a timer that is still there (nobody can stop it while the loop sleeps),
and that no deadline is further off than its timeout, so that the distance is an
int; `WakesWhenDue` does the rest. It has two hypotheses: `ClockForward`, since a
real-time clock that is set back makes the sleep longer or shorter than meant, and
`PeriodsFit`, since the timeout becomes an int before it is cut
(`net/loop_service.cc:153`). The run `loop_service` satisfies both.

**ChannelOwnersProofs.** `CachesAgree`, for any texts, sockets and interleaving of
calls that convert the address on the way. Its invariant `FlagsTrue` says what
each flag stands for: a text under its flag is the one said last, and a sockaddr
beside it is what that text converts to, or the other way round.

`DescriptorsCorrect`, for any sockets, any finite table of descriptors
(`NumbersAssumption`: they are natural numbers, of which an open takes the lowest that
is free) and any capacity of the pipe. `OwnersInv` says of the objects that what they
hold between them is what is open, each descriptor once (`HeldOnce`), that what is
attached holds a descriptor (`AttachedHold`) and is registered for it with the
callbacks it has (`RegistrationsMatch`, as in `LoopService`), and that the queue has both
ends of its pipe or neither (`QueueHolds`). All of it is claimed only while
`overwritten` is empty, that is until `accept()` is given a peer that is open, and a
call in progress has sockets of the process to work on (`CallOfSockets`).

`OpensCorrect` is about how a call *ends*, so that its invariant `CallInv` has to say
how far one has come: a call at the k-th step of its list, k > 1, has an open socket
whose family, state and options are those that the first k - 1 steps make
(`Progress`, `AsFarAs`). The step that fails closes that socket; the last one to
succeed completes what was promised.

**DynamicBufferProofs.** `TypeCorrect` (the indices never pass each other or the
end, the vector holds bytes), `ReserveAlwaysDelivers` and `ReserveAlwaysBounded`,
for any buffers, expansion steps, widths and any `size_t` that is larger than the
capacity, the largest request and two expansion steps together
(`SizeAssumption`). The heart is `GrownSizeBounds`: whichever branch
`reserveWritableBytes` takes, and also when `size - free_bytes` wraps and the
expansion step does not divide 2^64, the new size is at least what is needed and
less than two steps above it. The run has steps 1 and 2 only, which divide; the
theorem is what covers the others. `ReservedCorrect` adds that the readable bytes
are kept, and with one lemma per operation every call keeps `IInv`. That powers
of `ByteBase` are positive is an assumption (`PowerAssumption`), since its proof
needs induction; TLC evaluates it.

**Only model-checked**: every liveness property (`LogCallReturns`,
`ShutdownUnlessError`, `CheckTimeoutReturns`, `TimersDrain`, `TimersServed`,
`ReadyServed`, `SignalsTaken`), since TLAPS does not do fairness; the refinement
`LogChannelSpec`, whose mapping concatenates the contents of the queued buffers
(`FlattenSeq`, `SelectSeq`: recursive, and `DrainCorrect` proves of it what matters at
shutdown); the refinement `ByteFifoSpec`, for the integer encodings, which need
induction over the width; and the properties of `LogManager`.

## Divergences found

Three are runs of this project:

* `log_async_sink_error`. A failed open in `LogFileSink::log` is logged with
  `BASE_ERROR` (`base/log_file_sink.cc:76`) on the log thread, reaches
  `LogAsyncSink::log` of the same sink (`base/log_async_sink.cc:59`) and, with a
  full queue, waits for a pop that only the log thread makes.
* `timer_heap_order`. `base/min_heap.h:40` compares the stored pointers, not the
  values they point to, so that the comment "smaller up and bigger down" (line 39)
  does not hold: a due timer can wait below one that is not due.
* `dynamic_buffer_little`. `readInt16/32/64(v, littleEndian)`, which
  `base/dynamic_buffer.h:51-58` declares with a byte order, pass it as the *offset* of
  `peekInt` (`base/dynamic_buffer.cc:304` and five more, `ReadOffset`): with `true` they
  return other bytes than they remove, high byte first.

Seen while modelling, and modelled as the code has them:

* `erase` compares slot `cur_index + 1` where the right child is
  `2 * cur_index + 1` (`base/min_heap.h:72`) and never moves a node up, so that
  even the order of addresses is lost (`Child`, `SiftDown`).
* After a failed open `actual_file_path_` already has the new day's path
  (`base/log_file_sink.cc:57`), the open is not tried again that day and the
  records go to the old file. `MisfiledOnlyAfterFailure` states the part that
  does hold.
* An endless timer can starve a finite one. At a lower address it is back at the
  top after each call (`base/min_heap.h:40`), and `checkTimeout` returns at it when it
  is not due (`base/timer_heap.cc:177-179`), whatever is due below. Endless is the
  default: `call_times` is -1 (`base/timer_heap.h:23`). `TimersDrain` is stated for
  the times without an endless timer; without that condition TLC finds it violated.
* A message longer than the buffer is cut (`base/log_core.cc:101`), where
  `base/log_core.h:23` speaks of a further buffer.
* `LogCore::log` formats once, with the formatter of the first sink the message
  reaches (`base/log_core.cc:84`), although `addSink` takes one per sink.
* Until the main logger is up, `BaseLogger` prints a warning as `[INFO]` and an
  error as `[WARNING]` (`base/base_logger.cc:19` has a name too many).
* `getTimeout` returns an `int` (`base/timer_heap.cc:47`): periods of 2^31 ms and
  more change when the timer is put back (`AsInt`).
* A timer with timeout 0 (or less) that repeats for ever keeps its first
  `checkTimeout` from returning, and with it `LoopService::loop`.
* A logger whose file cannot be opened stays registered, and a second call of its
  init function returns false (`FirstInitDecides` states it as it is).
* `loop()` stores the next timeout in an `int` (`net/loop_service.cc:153`) before it
  takes the smaller of it and the longest wait: a timer due in 2^31 ms or more can
  make it negative, and the wait endless (`AsInt`, `WaitFor`; the requests of
  the run stay below).
* `loop()` sets `quit_` to false (`net/loop_service.cc:148`): a `quit()` before it is
  lost.
* A channel at a removed address gets no event until the round is over
  (`net/loop_service.cc:141`), even one that is attached again. One that is attached
  again in every round gets none at all.
* A callback that was cleared by an earlier one for the same event is called all the
  same (`net/loop_service.cc:184`) and throws out of `loop()`.
* `accept(peer)` (`net/tcp_socket.cc:103`) overwrites the descriptor of a peer that is
  open or attached.
* An `InetAddress` constructed from text and port has `has_addr_` false
  (`net/inet_address.cc:56`), so that its native form is never made: connecting to
  it fails with EAFNOSUPPORT. After `setAddress` the same text works.
* An IPv6 text with dots (`::ffff:1.2.3.4`) is taken for IPv4
  (`net/inet_address.cc:180`) and not converted (`TextsDotted6`).
* The constructor of `SignalQueue` throws when `setCloseOnExec()` *succeeds*
  (`net/signal_queue.cc:38`).

`yut/net` does not compile. The models read it as it is meant, as far as this is
beyond doubt: `std::exception` with a text as an exception; `addIOChannel` without a
return type as `bool`; the missing return of `removeIOChannel` as true (nobody looks);
`pipe_.setRecvSignalCallback(std::bind(...))` in `SignalQueue`, of a `SelfPipe` that has
no such function, as `setReadCallback`; `new Impl()` as `new Impl(loop_service)`;
parentheses, semicolons and names that do not match in `net/inet_address.cc:56, 162`,
`net/tcp_socket.cc:68`, `net/self_pipe.cc:41, 43` and `net/signal_queue.cc:36, 70`.

## What is not modelled

* `LogStderrSink`: one `fwrite`. `class_util.h`: macros. `test/main.cc`: a
  demonstration, on whose calls the fairness of `TimerHeap` is modelled.
* `Timestamp::format` and the layout of a log line: wording; the date in a file
  name is modelled as the day.
* `TcpSocket`'s `send`, `recv`, `shutdown...`, `readableBytes`, `getSocketError`, and
  `read` and `write` of an `IOChannel`: one system call each, without state of the object.
* The static functions of `InetAddress` and its outer class: declared, never
  defined.
* Sockets whose peer is given to `accept()` while open: `overwritten` ends the
  behaviour, since what follows is a leak that nothing can mend.
* `removeLogger` while the log thread reports an error to the logger that is
  being deleted (`base/log_core.cc:230`): undefined behaviour, listed as a hazard.
* Memory: `new` does not fail. Races that the code leaves to its users (logging
  while loggers are registered, logging to a sink that is being destroyed, a
  `LoopService` used by two threads) are excluded by guards named above.

## The plan

Modelled and checked, most important first: `ConcurrentQueue`, `LogAsyncSink` over it
against `LogChannel`, `LogFileSink`, `MinHeap` and `TimerHeap` against `TimerService`,
`Timestamp`, `DynamicBuffer` against `ByteFifo`, `LogCore` and `LogManager`,
`IOChannel` and `LoopService` over `TimerService`, and `TcpSocket`, `SignalQueue` and
`InetAddress` composed in `ChannelOwners`. Every modelled component but `LogManager` has
theorems, and every safety property of the runs outside `LogManager` that is not a
refinement is proved.

What remains is proofs, in this order:

1. `ByteFifoSpec` of `DynamicBuffer`, for the operations on bytes first. The integer
   encodings need induction over the width; the well-founded minimum of the library
   (`WFMin`, as `LeastExists` of `ChannelOwnersProofs` uses it) may serve where the
   induction theorems cannot be instantiated, and would prove `PowerAssumption` too.
2. `FirstInitDecides` of `LogManager`, in `LogCoreProofs`, with the ownership of
   sinks across the init functions and at the end of the program.
3. The order of records in `LogAsyncSink`, the part of `LogChannelSpec` that
   `DrainCorrect` leaves open.
