# TLA+ models of tdk

tdk is a C++ library for event-driven network programs on Linux (epoll) and
Windows (completion ports).  This directory holds TLA+ models of its core, the
TLC configurations that check them on small instances, and proofs, checked by
TLAPS, that hold for every value of the constants.  Source paths below are
relative to `src/src/tdk/`.

## 1. The system

| component | state | operations | interacts with |
|---|---|---|---|
| `event_loop/event_loop` | `_active_handles`, `_tasks` under `_lock`, `_thread_id`, the scheduler, the io back end | `execute`, `schedule`, `cancel`, `add_active`, `remove_active`, `run` | every other component hands it tasks, timers, activity references |
| `event_loop/scheduler` | the sorted list of timers, without a lock | `schedule(tt)`, `cancel`, `schedule()`, `schedule_after` | the loop's thread only |
| `io/epoll`, `io/iocp` | descriptor of the poller, the wake-up eventfd or the flag `_posted` | `register_handle`, `wake_up`, `wait` | waits inside `run`, calls io tasks |
| `task/queue` | `_running`, `_op_queue` under `_lock` | `execute`, `fetch` | any thread; handlers dispatch again |
| `io/ip/tcp/channel_epoll` | state bits, reference count, send queue, registered events, socket | `close`, `write`, `error_propagation`, `pending_read`, `continue_read`, event and job handlers | queues jobs in the loop, called by epoll, calls filters |
| `io/ip/tcp/channel_iocp` | the same, with overlapped operations that hold references | the same | the same |
| `io/ip/tcp/pipeline`, `filters` | chain of filters, the receive timer | `on_*` callbacks, `do_write` | called by the channel, call it back |
| `io/ip/tcp/channel_acceptor` | listening socket, accept task | `open`, `close`, accept handler | creates channels in its own or in other loops |
| `io/ip/tcp/channel_connector` | address list and index, connect task, timer | `connect`, `reconnect`, connect and timer handlers | creates a channel |
| `io/ip/tcp/socket/*` | per-operation request and response objects | `read`, `write`, `connect`, `accept`, `close` | an earlier interface on the same loop |
| `io/ip/udp` | the channel's bits and jobs without a send queue | `open`, `write`, `close` | the loop, filters |
| `buffer` | counted byte buffers, read and write positions | copy on write, markers | messages of the channels |
| `util` | intrusive lists, counted pointers, singleton | | used everywhere |
| `log` | map of loggers, writers, current file | `write`, `add_writer`, rotation | any thread |
| `ssl` | handshake state, two memory BIOs | a filter | the channel, OpenSSL |
| `time`, `crypto`, `error`, `device`, `alloc` | none or tables | pure functions and wrappers | |

Beside `tdk` the repository has `tdk.task` (an older generation of the same
loop for Windows, whose `network/tcp/stream` is modelled), `tdk.ssl`, `tdk.clr`,
`tdk.adodb`, `tdk.net` (wrappers and tools), the tests, and vendored gtest and
OpenSSL.

### What is hard

* **Threads against the loop.**  `execute` counts, links, and signals in three
  steps, while the loop drains the signal, takes the list and counts what it
  ran.  The list of timers has no lock and is protected by `in_loop()` alone.
* **One counter decides when `run` returns.**  Ten places add to it or
  subtract from it.
* **Jobs that are members of objects.**  `_on_send`, `_do_close` and
  `_do_error_proagation` are linked into an intrusive list: twice is a corrupt
  list, once without a reference is a use after free.
* **Three ways to fail.**  A channel's error is found in the loop, in another
  thread or by the receive timer, and told to the filters now or by a later
  job; closing races with all of them.
* **Operations that hold the channel.**  On Windows each overlapped operation
  owns a reference and an activity, which its completion gives back in a channel
  that may have been closed, failed or paused meanwhile; an operation that fails
  at once queues the same handler.
* **Shared bytes.**  Copies of a block share a buffer in several threads until
  one of them writes; whether it may write in place is read from a count that
  another thread is changing.
* **Cached state.**  `_reg_events` must follow the send queue and the pause
  bit through every handler that returns early.

The full list is under "hazards" in `PROJECT.json`, each with its line and the
properties that would catch it.

### What makes each part correct

* **Event loop.**  `_active_handles` counts exactly what `run` has to wait for;
  `run` neither returns early nor hangs; no queued job is slept on; tasks run in
  the order of their hand-over; timers fire in the order of their expiry and not
  before it; the unlocked scheduler is used by one thread.
* **Wake-up on Windows.**  The flag that merges posts is set only while somebody
  answers for it.
* **Task queue.**  One drainer at a time, nothing stranded, order of dispatch.
* **Channels.**  References, activity and jobs balance, and on Windows those of
  the overlapped operations; each member job and each member operation is under
  way once; `on_connected` comes first, `on_error` and `on_closed` once each and
  before the deletion, input and output before both; a live channel waits for
  what it needs.
* **Output of a channel.**  Bytes reach the socket in order, once, as long as
  one `writev` per call suffices; `on_write` always tells of as many as were sent.
* **Connector.**  One answer to each request, `on_connect_fail` only when every
  address has failed, a channel only for a connected socket, and no descriptor
  closed that is not the connector's.
* **Buffers.**  Blocks that share bytes are values: the count of holders is
  exact, and a write through one block shows in no other.
* **Stream of tdk.task.**  One send at a time and none left behind; `on_close()`
  once, when no operation or packet of the stream is left.
* **Acceptor.**  An open acceptor keeps the loop running; every connection is
  refused or announced; the activity of the outstanding request is balanced.

## 2. The modules

| module | models | composed with |
|---|---|---|
| `TaskExecutor` | what an executor promises: jobs one at a time, in order, all of them while it serves | abstract; implemented by two modules |
| `EventLoop` | `event_loop.cpp`, `scheduler.cpp`, the wake-up and wait of `epoll.cpp` | `MCExecutors` maps it to `TaskExecutor` |
| `IocpWakeUp` | `iocp::wake_up` and `wait` under `event_loop::execute` | the Windows counterpart of the wake-up in `EventLoop` |
| `TaskQueue` | `task/queue.cpp` | maps itself to `TaskExecutor` |
| `MCExecutors` | either of `EventLoop` and `TaskQueue`, each with its own specification | instantiates both |
| `ChannelContract` | what a channel promises its filters, whatever its protocol and platform | abstract; implemented by three modules |
| `Counting` | how often jobs, steps or packets occur in a list | used by the channels and their proofs |
| `TcpChannel` | tcp `channel_epoll.cpp` with the loop's thread, the filters, the kernel's socket, other threads | maps itself to `ChannelContract`; uses the loop as three phases |
| `ChannelCore` | what the channels on completion ports and the datagram channels have in common: state word, references, jobs, calls of filters and threads | extended by the next two |
| `TcpChannelIocp` | tcp `channel_iocp.cpp`: overlapped operations, packets, failed sends | implements `ChannelContract` |
| `UdpChannel` | udp `channel_epoll.cpp` and `channel_iocp.cpp` | implements `ChannelContract` |
| `MCChannels` | one channel, whose kind is chosen in the first state | instantiates the two above |
| `SendRemains` | `do_write` and `_send_remains` byte by byte, `buffer_adapter` | has the bytes behind the number `sendq` of `TcpChannel` |
| `BlockValues` | blocks as values: a text and a read position | abstract |
| `MemoryBlock` | `memory_block.cpp` over `buffer_base.cpp`: shared buffers, copy on write, one thread per block | maps itself to `BlockValues` |
| `MCBuffers` | either of `SendRemains` and `MemoryBlock` | instantiates both |
| `ChannelConnector` | `channel_connector.cpp`, both platforms | has its own copy of `run`'s accounting |
| `ChannelAcceptor` | `channel_acceptor.cpp`, both platforms | the same |
| `Stream` | `tdk.task`'s `network/tcp/stream.cpp` with its engine's operations and posts | |
| `MCIocp` | either of `IocpWakeUp` and `Stream` | instantiates both |
| `ExecutorProofs` | theorems about `EventLoop` and `TaskQueue`, as `MCExecutors` maps them to `TaskExecutor` | section 5 |
| `TcpChannelProofs`, `ChannelConnectorProofs`, `ChannelAcceptorProofs` | theorems about the module of that name | section 5 |
| `ChannelsProofs` | theorems about `TcpChannelIocp` and `UdpChannel`, as `MCChannels` instantiates them | section 5 |
| `BuffersProofs` | theorems about `SendRemains` and `MemoryBlock`, as `MCBuffers` instantiates them | section 5 |
| `IocpProofs` | theorems about `IocpWakeUp` and `Stream`, as `MCIocp` instantiates them | section 5 |
| `CountingTheorems` | lemmas on `Counting` and on one unit more or less (`One`) | cited by the proofs of the channels and the buffers |

Operators that model code keep the source's names where TLA+ allows it
(`execute`, `schedule_after`, `_register_handle` is `RegisterHandle`); `map` in
`PROJECT.json` gives the lines of each.  Beside some definitions stands a
mutated form of it (`executeUncounted`, `closeUntested`, ...), preceded by the
word *Mutant*: it is used by no specification, only put in the definition's
place to see that a property notices the bug.

**EventLoop.**  A call of the API is as many steps as it has atomic operations:
`execute` counts (`execute`), links under `_lock` (`Enqueue`) and writes the
eventfd (`WakeUp`); `schedule` and `cancel` work in place in the loop's thread
(`Insert`, `Count`, `Erase`, `Uncount`) and are one-shot tasks elsewhere.
`pc[t]` is the step each thread is at.  `run` is `Check`, the wait
(`WokenUp`, `TimedOut`, `Interrupted`, `IoReady`), the handlers of its events,
`FireTimer`, `Splice`, `RunTask` and `Account`; `running` is the callback it is
in, during which the loop's thread may call the API too.  The clock is `now`,
and `deadline` is the instant up to which the wait was computed.  Three duties
of the application are built in: a task or timer is not handed over while the
loop has it, an expiry is set on an unlinked timer only, and the thread that
constructed the loop has finished its own `schedule` and `cancel` when another
thread enters `run`.

**The channels.**  The loop's thread is sequential, so what is left of the
current handler is the sequence `todo`; the name of a callback at its head means
that the filter is in that callback and may call the channel.  `bits` is
`_state`, `ref` is `_ref_count`; `tasks` and `batch` are the channel's jobs in
the loop, and the loop itself is three phases.  Another thread gets a reference
in `on_connected` and gives it back; `close()` and `error_propagation()` from
there are two steps, the bit and the job.  Whole messages are counted.  Filters
close the channel at the end of `on_error`, as those of the repository do.
In `TcpChannel` `reg` is `_reg_events` and the socket is polled.  In
`TcpChannelIocp` an operation is first the kernel's (`recvs`, `sends`), then a
packet in `port`, then the steps of its handler, the last of which (`give_back`)
returns its reference and activity; a `WSASend()` that fails at once is the job
`"send"`.  `HandleSend` decides before `on_write` whether what is left will be
sent after it, as the code does.
`UdpChannel` has no queue: a write is sent in place, and one that fails delivers
`on_error` in the middle of whatever callback it was made in.
`continue_read()` flips the error and close bits (section 4); what happens after
its first call is modelled, and most properties of the channels are claimed
until then (`resumed`).

**ChannelContract.**  `callback` is the callback in progress and `begun` those of
the ones that come once which have begun.  The order of `on_error` and
`on_closed` is not promised: on every platform the error bit may be set by
another thread while the job of `close()` is ahead of that of the error.

**SendRemains.**  A byte is a pair of message and place; `buf` is the array of
`buffer_adapter`, `wire` what the socket took, `pushed` what the filters wrote.
After a second `writev()` in one call the array may hold buffers that were sent:
the model lets the socket take their bytes again, and `pc` is `"undefined"` where
the code then reads the front of an empty list.

**MemoryBlock.**  `heap` is the buffers with their counts, `base`, `rd` and `wr`
the blocks.  An operation that writes looks at the count and the room first
(`Reserve`), takes a buffer of its own if it must (`Replace`), gives the old one
up (`Drop`) and acts (`Act`); blocks of other threads step in between.
`reserve()` for less than there is cuts a shared block short and leaves one that
is not shared as it is.  A byte
is named after the block that wrote it, so that a write into somebody else's
bytes shows.

**ChannelConnector.**  `fd` says what the descriptor number in `_fd` stands for,
including a channel's descriptor and a number left by a closed channel; `evt` is
the mask that stays in the task.  `UnderWay` and `NoneLeft` are the two outcomes
of the loop over addresses that `connect`, `reconnect` and both handlers share.

**ChannelAcceptor.**  `request` is the one `AcceptEx`, or the handler queued as
a task when it could not be posted; `starved` counts how often `socket()` failed
in `do_accept`.  On Linux one event accepts until `accept` fails.

In these two, and in `UdpChannel`, `platform` is chosen in `Init` and never
changes: one run covers both builds.

**Stream.**  `errpost` and `closepost` are the two post states, `ref` is
`_ref_count` and `active` the stream's part of the loop's.  What the code does
under `_lock` is one step, and a send or receive that fails to start is posted
as the packet of its completion.

The `MC` modules that hold two or three systems choose one of them in the first
state, in `kind`; the variables of the others keep their initial values.  They
do not compose: one run asks its questions of each system.

## 3. The runs

| run | question | bounds |
|---|---|---|
| `loop` | is the activity count exact, is no wake-up lost, are timers in order and settled, does `run` return exactly when drained, is `TaskExecutor` implemented | one thread beside the loop's, two tasks, two timers, expiries 0 and 1, three API calls, one activity reference |
| `queue` | one drainer, nothing stranded, order | three threads, three operations, six dispatches |
| `channel` | tcp on Linux: references, jobs, the contract, the event mask, deletion | one other thread, three calls, pauses, errors of other origin, two messages in, room for two out |
| `channels` | tcp on Windows, udp on both: references and activity of operations, the contract, one operation of a kind, deletion | one other thread, three calls, pauses, two messages in |
| `channel_resume` | *violated:* does `continue_read` only resume | no other thread, two calls, one message in |
| `iocp` | is a task always taken although one post serves several callers and may fail; does a stream close once and alone, and send one thing at a time | two threads and the loop's, four calls, posts that fail, two messages in |
| `connector` | activity, timer, one answer, honest failure, and which step may close a descriptor that is a channel's or was | three addresses, four requests, made again in `on_connect_fail` and `on_closed`, registrations that fail, both platforms |
| `connector_stale` | *violated:* is a channel made only of a connected socket | two requests on Linux |
| `acceptor` | every connection answered; the activity on Windows, before and after `close` and a missing socket | three connections, three failures, sockets that run out, five activities of the application, both platforms |
| `acceptor_returns` | *violated:* does an open acceptor keep `run` going | one connection on Linux |
| `buffers` | are bytes conserved and sent, and which step can break their order; are blocks values and holders counted | three messages of one to three bytes, four bytes of room that may come at any time, an array of two; three blocks, six buffers of one or two bytes, five operations |
| `send_repeats` | *violated:* the order when the peer reads meanwhile | two messages, two bytes of room |

Why the bounds are enough.  Two callers and the loop's steps give every order of
count, link, signal, drain and take; a third caller adds nothing that the
theorems do not cover for any number.  Two timers are needed for an order and
two tasks for a queue; three calls allow a timer to be scheduled, cancelled and
raced by a task.  In a channel three calls put a close, an error and a write
into one life, together with the kernel's own failures, which are not counted;
two messages each way make a queue that is emptied in part, and a receive that
completes while the last one is in its handler.  Four requests of the connector
let a handler that was queued by one request be followed by another, and a
channel be closed and replaced twice; three addresses are a first, a next and a
last.  Messages of three bytes in four bytes of room make a short write end in
the first, the second or the third message, and an array of two slots is shorter
than the queue.  Three blocks are a writer, a holder of the same buffer and one
that copies or leaves between the writer's steps; five operations create, fill,
copy, cut or write one; each block can be in the middle of replacing a buffer,
so that six buffers never run out.  Five activities of the application outlive
what the accept events of Linux and the missing sockets of Windows take away, so
that `Answered` is asked of a loop that runs.  `MaxNow`,
`MaxCalls`, `MaxDispatch`, `MaxIn`, `MaxRoom`, `MaxRequests`, `MaxArrivals`,
`MaxFailures`, `MaxMessages`, `MaxHeld`, `MaxSize` and `MaxWrite` bound what the
environment does, never what the code does.  Deadlock is not checked where the
system may really stop (the channel is deleted, calls are used up).

### Fairness

* `loop`: a thread that is inside a call finishes it, the loop takes its next
  step, the clock advances.  The operating system's scheduler gives as much.
  Nobody has to call anything, no descriptor has to become ready, and the wait
  is never interrupted by luck (`Interrupted` and `IoReady` are not fair).
* `queue`: a thread in `execute` goes on, and handlers return.
* `iocp`: the same for callers and loop.  A timeout of the wait is *not* fair:
  a wake-up lost for 100 seconds would be a failure.  For the stream the engine
  delivers packets, and the kernel completes the operations of a closed socket.
* `channel`, `channels`: the loop runs, callbacks return, and a thread that was
  given a reference finishes its call and releases.  The peer does nothing for
  sure.  On Windows the kernel completes, with an error, the operations of a
  socket that was closed, which `closesocket()` guarantees.
* `connector`: the loop and the clock; the peer may stay silent, which is what
  the timer is for.  On Windows no timer is started, and `Answered` is claimed
  only where there is one.
* `acceptor`: the loop, and the kernel's completion of a request for which a
  connection waits.
* `buffers`: the loop enters and goes on with `_send_remains`, and the peer
  reads.  Nothing is fair in `MemoryBlock`.  Messages of the run are not empty:
  an empty one never leaves the queue.

## 4. What the checks found

| finding | where |
|---|---|
| `continue_read()` uses an exclusive or with the complement of its bit: the pause stays and the error and close bits are flipped | `io/ip/tcp/channel_epoll.cpp:71` |
| a request whose addresses all fail at once runs its handler with the event mask of the request before, and `on_connected` is called without a connection | `io/ip/tcp/channel_connector.cpp:168` |
| on Linux every accept event removes an activity that was added once, so that a server's `run` ends | `io/ip/tcp/channel_acceptor.cpp:225` |
| `_send_remains` fills its array again after a short write without emptying it, and repeats bytes | `io/ip/tcp/channel_epoll.cpp:240` |

Other instances, or the properties without the condition they carry, show more,
and the conditions name it: a reconnect in `on_closed` closes the number of a
descriptor its channel has closed (the exception in `ClosesOnlyItsOwn`); with
`RegisterFails` even a first request meets the stale mask; with `"on_write"` in
`DirectWrites` a write in `on_write` links `_on_send` twice (`LinkedOnce`); a
queue longer than the array repeats bytes without any help of the peer, and when
the bytes sent again are more than the queue holds, `_send_remains` reads the
front of an empty list (`channel_epoll.cpp:261`); on Windows a request for which
there is no socket (`starved`) takes an activity that nobody added, and closes
again the descriptor of the request before, which a channel may own
(`channel_acceptor.cpp:104`, not modelled), and `close` takes an activity that
`open` did not add.  An empty message keeps `_send_remains` in its loop.

In `tdk.task` a send that succeeds after `on_error()` gives back the last
reference and leaves without `_post_close()`, so that the stream is never closed
(`overtaken`, without which `Closes` is violated); a `close()` by another thread
after `on_error()` lets `on_close()` come while a send is outstanding (`late`,
without which `ClosesAlone` is violated); and `_ref_count` is not initialised:
with `Leftover = {1}` no stream closes.

## 5. The proofs

All theorems hold for every value of the constants that satisfies the named
assumptions of the modules (`ThreadAssumption`, `BoundAssumption`,
`NoneAssumption`, `QueueAssumption`, `WakeUpAssumption`, `LeftoverAssumption`,
`ChannelAssumption`, `CoreAssumption`, `ConnectorAssumption`,
`AcceptorAssumption`, `SendAssumption`, `BlockAssumption`): sets of threads are
finite, bounds are numbers, "none" is none of the others.  `BlockAssumption`
says besides that there are two buffers for each block, so that `malloc()`
always finds one: `buffer_base` does not look whether it does.  TLC evaluates
all of them in the runs.  The types that each component keeps are conjuncts of its
inductive invariant.  Each strengthened invariant was checked by TLC on the
instance of the component's run before it was proved.

**EventLoop.**  `Shape` is the conjunction of the types (`StateOK`), of what a
caller's step says of its call (`CallOK`), of who may be inside the scheduler
(`Confined`) and of when the loop's thread may be in a call (`Nested`).  None of
these is inductive alone: that `Count` is a step of the owner needs `Confined`,
which needs `Nested` when a one-shot task enters `schedule` inside `RunTask`.
From `Shape` follows `SchedulerConfined`.  `NoLostWakeup` alone is not inductive
either, since it speaks of the wait only: `AwakeInv` carries the promise from
the wait back over `Check`, `Account`, the timers and the draining of the
eventfd, to the point where the list is taken.  `HandleBalance` is inductive
relative to `Shape`: each action moves one unit from one summand of `Counted` to
another, or adds or removes it on both sides (the lemmas `BalanceSame`,
`BalanceEnter`, `BalanceLeave`, `BalanceMove`).  `TypeOK`, whose conjunct
`active \in Nat` is the claim that the counter never underflows, and
`ReturnsOnlyDrained` are corollaries.  `SleepTheorem` needs only that the list
changes in three steps (`TimersChange`) and that none of them is taken by
another thread during the wait; `FiresEarliestTheorem` that the list is `Sorted`,
which `UpperBound` keeps because it counts the timers that are due before the
new one.  `ExecutorTheorem` shows that every step of the loop is a step of
`TaskExecutor` or a stutter; that `run` may retire needs `HandleBalance`.

**TaskQueue.**  `DrainInv` joins mutual exclusion, "busy exactly while somebody
drains" and the types; `NothingStranded` follows.  `QueueExecutorTheorem` shows that
each step of the queue is a step of `TaskExecutor` or a stutter, which needs
`DrainInv` to know that an idle queue holds nothing.

**IocpWakeUp.**  `NoLostWakeup` needs to know who answers for the flag that
makes other callers skip their post: `IInv` is the type, `PostedHasPoster` and
the wake-up promise at every step of the loop (`Answered`).

**Stream.**  `todo` is always the rest of one of the handlers (`Rests`), a finite
set of sequences over which the cases of the proofs range.  `Sends` says where
the one send is: in the kernel, in a packet, or in the rest of a handler that
will start the next; `OneSend` follows.  For `ClosesAlone`, `Held` counts who
holds a reference, from the value that `_ref_count` happened to have: the
constructor does not set it, and the theorem's hypothesis
`Leftover \subseteq Nat` excludes those below zero, with which `on_close()` would
come too early.  `Closing` says that once the packet of `on_close()` is posted
nothing is outstanding and that packet is the last.

**TcpChannel.**  `RefBalance` is `Balanced` in other words, and inductive with
the types: the lemmas of `CountingTheorems` say what appending a job, taking the
head of a list, splicing, and moving one thread do to the counts.
`NoUseAfterFree` needs more.  The channel deletes itself when `ref` reaches
zero, so that it is enough that a handler in progress holds a reference, which
is `HandlerHolds`; that the open channel's own reference is given up once is
`ClosedOnce`, which counts the close bit against the places where a `close()` may
be; that nothing happens before the announcement is `Untouched`.  `ClosedOnce`
is what `continue_read()` breaks, hence `~resumed`.

The other theorems about the channel need the order in which a handler does its
work, which the counts do not show.  `Follows(todo)` says of each step which ones
may come behind it; with it, what is at the head of `todo` says where the handler
is.  `WatchedForWork` is claimed between handlers; `Watching` is the same promise
inside them, weakened by "unless `_register_handle()` is still to come".
`KeepsContract` is a step simulation: `OnceEach` finds each failure and each
`close()` in exactly one place from the call to the callback (a thread, a job, a
step, or told), so that neither callback can come twice, and its last conjunct
says that a closed channel whose `closing` step is past has its error bit set,
which is why no input and no output follow `on_error` and `on_closed` both.
`Fresh` is what holds before `on_connected`.  One lemma per kind of step maps it
to a step of the contract; those of `Silent` steps are stutters.

`LinkedOnce` says when the node of `_send_task` may be linked again.  `Sends`
bounds the places of the send job: there is one job or one registration for
output, and while output is being handled there is no job.  `Places` says where in
an iteration the handlers run, since a job that is linked during the events of an
iteration is only taken after all of them.  The theorem has the hypothesis that
`on_write` handlers do not write in place (`"on_write" \notin DirectWrites`): with
such a handler the code links the node a second time, and TLC shows how
(section 4).

**The channels of MCChannels.**  Both kinds share their variables, and one
invariant `Inv` serves both; `InvariantTheorem` goes through the steps of each.
How an action changes the counts of steps, jobs, threads and packets is stated
once per kind of change (`StepsMove`, `JobsMove`, ...), and every part of `Inv` is
kept by lemmas on such moves, so that an action is proved by naming its move.
The parts are:

* `Counted`: a reference and an activity belong to each operation, wherever its
  packet is, and a reference to the open channel, to each job that holds one, to a
  handler and to a thread.  `Balance` follows; it needs no condition, not even
  `~resumed`, and is what keeps `ref` above zero for everyone else.
* `HandlerHolds`: a handler in progress has a reference or the channel its own,
  without which a release inside a callback could delete the channel under it;
  `Shape` says that what gives the reference back is the last step.
* `Untouched`: nothing happens before the announcement, which has no reference.
* `OnceEach`: an error and a `close()` are told, being told, or wait in one place;
  and the channel's own reference is given up once.  This is what
  `continue_read()` breaks, hence `~resumed`.
* `Gone`, with the others: `NoUseAfterFree`.
* `Reads` and `Writes`: who will start the next receive and the next send, through
  the port, the steps of a handler and the queued jobs.  `ServedOnce` is what is
  left of them between the handlers.

`KeepsContract` is a step simulation as for `TcpChannel`.  With respect to what
the filters see, every action is one of six: it shows them nothing (`Quiet`), the
step at the head ends (`Ceases`), it calls a filter (`Calling`), a handler begins
(`Begins`), the channel is announced (`Announces`), or it is deleted
(`Deletes`); each of these is mapped once.  The deletion may only come after both
`on_error` and `on_closed`, for which the counts do not suffice: `Ended` adds
that `on_closed` is never told, or about to be, before the error bit is set.

**ChannelConnector.**  `HandleBalance` and `OneAnswer` are inductive together
with the types and `UnderWayIsOwn` (a watched descriptor is the connector's).
`FailsOnlyAfterAll` needs `FailuresAreCounted`, which relates the failures so far
to the index in the list at every point of the two handlers.
`ClosesOnlyItsOwn` needs both: while a channel has the descriptor nothing of an
attempt is left, so that neither timer, event nor task can close it, and in
`on_connect_fail` it is not a channel's; `on_closed` remains, and only for the
number of a channel that is closed.  `Retry` may be any set of callbacks.

**ChannelAcceptor.**  `HandleBalance` is inductive with the shape of the state:
each handler gives back what `do_accept` adds, whether the socket is open, shut,
or missing, and whether the handler came as a completion or as a task.
`OpenKeepsLoop` holds on Windows while no more requests than `Kept` were left
without a socket, because `run` returns at zero (`Returned`) and an open acceptor
always has a request.

**SendRemains.**  The theorems have no condition on the peer, the queue or the
array.  `Conserved` speaks of the moments between two calls; `SendInv` extends it
to every step: the queue gives up a byte for each that the socket took, whichever
byte that was.  The order is not an invariant, as `send_repeats` shows, so that
`KeepsOrder` says which steps keep it: inside a call the bytes of the last
`writev()` are on their way and still in the queue until `rd_ptr()` has moved
over them, `Unsent` is the queue without them, and wire and `Unsent` together
stay what the filters wrote, and the wire a prefix of it, in every step but a
`writev()` that follows another of its call and takes bytes.  For the first of a
call `SendInv` says that the array holds what the queue begins with.
The bytes of a queue are `FlattenSeq`, a recursive function; the library's
induction theorems cannot be used, so that what one more message at either end adds (`FlattenAppend`, `FlattenCons`) is shown by looking
at the least place where it would be otherwise (`SmallestIn`).

**MemoryBlock.**  `CountsHolders` is not inductive: that a write changes no other
block, and that `malloc()` finds a free buffer, need more.  `BlockInv` adds what
every block may do next (`BlockOK`).  A block that has got its buffer from
`reserve()` and has not written (`Writing`) has a buffer with the count one and
room for the bytes: as the count is the number of holders, nobody else can copy
it meanwhile, for the only one to copy from is at work.  An old buffer is kept
only while it is given up; a block in use has its positions inside of its
buffer, unless a `reserve()` for less is about to bring them there (`Short`).  In each lemma `Keeps...` the step of one block is accounted for
(`CountsFollow`: one holder more or less on both sides), the others stay as they
are (`OthersStay`), and the values of all blocks change as `BlockValues` allows
(`Shows`).  `ValuesTheorem` is this simulation, step by step; `Replace`, `Drop`
and the look at the count are stutters.  `RunTheorem` carries both over to the
specification that TLC checks.

Model-checked only: everything temporal under fairness (`TimerIsSettled`,
`RunReturns`, `TasksAreTaken`, `Deleted`, `Sent`, `Answered`, `Closes`, and the
liveness in `ImplementsExecutor` and `QueueImplementsExecutor`), which is out of
the prover's reach.  Of the last two the safety part is proved (`ExecutorTheorem`,
`QueueExecutorTheorem`).  Every safety invariant and every action property of a
passing run is the property of a theorem, with the conditions named above where
it has any.

## 6. What is not modelled

* *The older socket interface* (`io/ip/tcp/socket/*`).  Nothing in the repository
  uses it; the channels replaced it.  Its write handler looks at the front of an
  empty list after a completed write (`socket.cpp:368`), a second queued write is
  not counted (`socket.cpp:312`), and the test for a next address is inverted
  (`connect_task.cpp:43`).
* *The TLS filter*: what it does next is what OpenSSL says.
* *The engine of `tdk.task`*: its loop, timers and list of failed posts, its
  acceptor and connector, an earlier version of what `EventLoop` models.
* *Singletons, intrusive lists, the logger.*  Lists are sequences here;
  `LinkedOnce` is what makes them so.  The map of loggers has no lock.
* *Addresses, wrappers of system calls, string and error tables, time, device
  and database wrappers, digests and ciphers* have no protocol, or a state too
  large to enumerate.
* gtest and OpenSSL's headers, which are most of the lines of the tree, are
  vendored; `tdk` itself is some 18,500 lines, half of them declarations.

Within the modelled parts these are left out: `connect` and `close` of connector
and acceptor from another thread, channels in a loop other than their
acceptor's, more than 256 events in one wait, the width of the epoll timeout,
allocation of one-shot tasks, `scheduler::schedule(expireds)`, which nothing
calls, the race on `_thread_id` between a constructing thread that still calls
and `run`, a `register_handle()` that fails on a completion port, the failures of
the datagram `bootstrap`, which make no channel, blocks over memory of the
caller, and markers, and what stands in the acceptor's task as descriptor.

## 7. Plan

The modules were written from the centre outwards: the loop and its abstract
executor, the task queue, the tcp channel on Linux, the wake-up on Windows,
connector, acceptor, output buffers; then the channels on completion ports and
for datagrams under the common contract, shared buffers, the stream of
`tdk.task`.  What would come next:

1. `connect()` and `close()` of connector and acceptor from another thread, with
   the hand-over of the timer.
2. The receive timer with its clock; the TLS handshake as a filter.
3. Markers of a block at its end; the epoll timeout and `time_span` with their
   widths.
4. The engine of `tdk.task` with its list of failed posts.

Theorems: the safety properties of the runs are all proved; what is left are
those of the modules above, and a refinement that shows `sendq` of `TcpChannel`
to be the length of the queue in `SendRemains`.
