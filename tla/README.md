# libyb in TLA+

libyb is a C++ library of cooperative tasks for talking to devices: a `task<T>` is polled by a
runner, waits for file descriptors, and is composed from smaller tasks (sequence, parallel, loop,
cancellation). On top of the tasks it has channels, promises, streams, a packet protocol for
Shupito devices, tunnels inside that protocol, USB transfers and the FLIP2 boot loader protocol.

This directory holds TLA+ modules of the parts whose behaviour depends on order or on state that
outlives a call, the TLC runs that check them on small instances, and proofs, checked by TLAPS, of
what holds for every instance.
Paths below are relative to `src/libyb`.

## 1. The system

### Components, their state and what makes them correct

| component | state | operations | hard behaviour | what makes it correct |
|---|---|---|---|---|
| async_runner (`async/async_runner.hpp`, `async/detail/linux_async_runner.cpp`) | lists of promises, mutex, eventfd, stop flag; per promise: reference count, finished flag, requested and applied cancel level, task | post, cancel, wait, detach, destroy a future; the dispatch round; destroy the runner | client threads against one dispatch thread, lock-free reads, wakeups, last reference dropped by either side | no use after free, no leak, no lost wakeup, a killed task that does not wait anew ends its client's wait, what a future promises |
| cancel_level | - | order, maximum | - | - |
| circular_buffer, channel (`async/channel.hpp`, `async/detail/channel_detail.hpp`) | ring, reference count; per blocked operation: buffer pointer, value or result | send, receive, copy, destroy, cancel; prepare_wait, finish_wait | values move in one half of a round, operations complete in the other, cancellation in between | values neither lost nor doubled, first in first out, no sleep over a possible transfer, the buffer outlives its users |
| task, task_result, wait contexts, compositions, loop, sync_runner | tree of tasks, memento ranges per composition | prepare_wait, finish_wait, cancel, cancel_and_wait | mementos used after the tree has changed; exceptions in one branch | finish_wait reaches exactly the tasks selected |
| cancellation tokens, level upgrades, `finish_on`, `abort_on` | level per scope, token core shared by count | cancel, upgrade, fire a token | a level raised before or after the next task of a sequence starts | a level requested reaches every task started later |
| promise, double_buffer | shared core, result, waiting flag | set_value, wait_for; produce/consume | completion before the wait, cancellation of the waiter | a value set is seen |
| async_channel | eventfd, queue | send, receive | threads, empty lock on Linux | a value sent wakes a receiver |
| stream, stream_device, device | read buffer, write buffer and backlog, start token | read_all, write_all, run, write_packet | the write loop stopped and started again, a failed write, calls from another thread | packets leave in order, none stays behind |
| stream_parser | position, partial packet | parse | packets cut anywhere by reads | the packets parsed do not depend on the cuts |
| descriptor_reader, tunnel | registered receivers, queued opens and reads | register, open, read, write, handle_packet | answers matched to requests by order only; a failed or cancelled request stays queued | an answer reaches the request that caused it |
| usb_context, usb_device | devices, interfaces, pending URBs | enumerate, monitor, submit, reap, cancel | completion against cancellation against removal; events older than what is there | every transfer ends once; no context is freed while its URB is pending; the client knows what is plugged in |
| interface_guard, bulk_stream | claimed interface | claim, release, open, close | - | claims and releases pair up |
| flip2, escape_sequence | cached memory space and page | read, write, blank check, erase | cache against a failed selection | an access goes to the memory asked for |
| sparse_buffer, ihex_file, svf_file | sorted regions; defaults that stay from one statement to the next | write_region, parse, lower | overlapping and adjacent records; vectors joined across bytes; ways between controller states | the image is the file's; the controller is where the lowering takes it to be |
| win32 counterparts | as on Linux | as on Linux | as on Linux | as on Linux |

`PROJECT.json` lists every component with its sources, and every hazard at its line.

### How they interact

A client thread posts a task to the `async_runner` and gets an `async_future`; promise and runner
share the task by reference count. The dispatch thread runs rounds: apply pending cancels, call
`prepare_wait` of every task, then `finish_wait` of those that called `set_finished`, or else poll.
All the other components are tasks inside that tree: their state changes only in `prepare_wait`,
`finish_wait` and in continuations that `finish_wait` calls, all on the one thread. Channels and
promises connect tasks of the same runner without a lock.

## 2. The modules

| module | what it is |
|---|---|
| `CancelLevel` | the four levels and `std::max` on them |
| `AsyncFuture` | abstract: what the holder of an `async_future` is promised |
| `AsyncRunner` | the runner, its promises, its clients, its destruction |
| `AsyncRunnerInv` | the inductive invariant of `AsyncRunner`, in named parts |
| `AsyncRunnerProofs` | its proofs, and the refinement of `AsyncFuture` |
| `BoundedFifo` | abstract: a queue of at most `Capacity` values |
| `RingBuffer` | `circular_buffer` |
| `Channel` | `channel`, its blocked operations, and the round that drives them; extends `RingBuffer` |
| `ChannelProofs` | the ring's invariant and its refinement of `BoundedFifo`; what of `Channel` is proved |
| `TaskTree` | `task<T>` and its compositions: what each virtual function of `task_base` does to a tree |
| `TaskSet` | abstract: tasks that wait and finish, each on its own |
| `SyncRunner` | `sync_runner`: posted tasks in one tree, rounds, futures; implements `TaskSet` |
| `Streams` | `read_all`, `write_all`, `copy`, `discard`, as tasks of a `SyncRunner`, which it extends |
| `StreamDevice` | `stream_device`: the write loop, its buffers and its token |
| `StreamDeviceProofs` | its invariant, and that packets are kept, in order and started |
| `UsbDevice` | bulk transfers: URBs, their promises, the dispatch loop, the kernel |
| `DoubleBuffer` | `double_buffer` over the transfers of a `UsbDevice`, which it extends |
| `DoubleBufferProofs` | that contexts outlive their URBs, and results come in order |
| `UsbContext` | enumeration and the monitor's events |
| `UsbContextProofs` | that the context settles on what is there |
| `StreamParser` | frames and `stream_parser` |
| `Descriptor` | `device_descriptor::parse` |
| `Tunnel` | what the clients of a device keep: receivers, requests, answers; extends the two above |
| `Device` | a device at the end of a stream and its clients at the other; extends `Tunnel` |
| `IntegerWidths` | the widths of bytes, addresses and a `size_t`, from that of a nibble |
| `SparseBuffer` | `sparse_buffer` |
| `IhexFile` | `parse_ihex`, into a `SparseBuffer` |
| `IhexProofs` | lemmas about the maps of a `SparseBuffer`, and the invariant of `IhexFile` |
| `Flip2` | `flip2`, and the chip |
| `Programming` | a chip is programmed with a file; extends `IhexFile` and `Flip2` |
| `ProgrammingProofs` | that accesses of `Flip2` are what was asked for, whatever its client does; that the buffer is the file, and the chip the buffer |
| `SvfTap`, `SvfVector` | the ways between states of a TAP controller, and the controller; vectors of bits |
| `SvfFile` | `svf_parse` and `svf_lower` |
| `SvfProofs` | where the controller is, what is kept of each register, and what each shift is made of |
| `MCAsyncRunner`, `MCChannel`, `MCSyncRunner`, `MCStreamDevice`, `MCDoubleBuffer`, `MCUsbContext`, `MCDevice`, `MCProgramming`, `MCSvf` | small instances for TLC |

### AsyncRunner

One client per promise posts the task and owns its future. The mutex is a variable that names its
owner, so a step "holds the lock" by an action that takes it and a later one that frees it; actions
that lock, do one thing and unlock are one action. The interleavings that matter are all there:

* `SubmitContext`, `Submit`, `FutureAddref`, `SubmitUnlock` are `post()`. The promise is in the
  list before its future is counted, under the mutex. `PostResult` is the branch for a task that
  already has its result and `PostThrows` the `catch`.
* `CancelRequest` then `CancelSignal` are `cancel()`: the level is raised and the event written
  under the runner's mutex, but `perform_pending_cancels` reads the level without it, so these are
  two steps for the dispatch thread. `ComparePending`, `DoCancel`, `MarkApplied` are its three
  reads.
* `WaitFinished`, `SpuriousWakeup`, `FutureRelease` are `wait()` and the destructor;
  `MarkFinished` wakes the client, `Erase` releases the list's reference afterwards.
* `CheckStopped`, `Prepare`, `ReadControlEvent`, `Splice`, `PollReady`, `FinishTask`, `FinishDone`
  are the round. `RunThrows` is an exception that leaves `impl::run`, which `dispatch_thread`
  swallows.
* `Stop`, `StopSignal`, `Join`, `DestroyLists` are the destructor of the runner. A program must
  not destroy the runner under its futures, since they call into it; the guard of `Stop` says so.

The eventfd is a Boolean: its count is only ever tested for zero and read whole. The two lists are
sets, and the order a round visits them in is open. A promise's task is what the runner sees of it:
waiting for a descriptor, ready (it will call `set_finished`), cancelled, or a result; a finished
step is followed by a result or by a continuation of the same task. A task gives up at one level,
`StopLevel`, and what follows may then be its cancellation, a value, or a continuation that waits anew
(`sequential_composition_task.hpp:78-96`). That wait knows nothing of the level, which `m_applied_cl` keeps from
being delivered again; `stubborn` are the promises with such a task. `DestroyLists` runs the destructors of detached tasks on the destroying thread.

### RingBuffer and Channel

`RingBuffer` keeps the two indices and the count of the code; a slot without an object holds `Raw`.
The one-object specialisation is the instance with `Capacity = 1`.

In `Channel` a value stands for the `send()` that carries it. A blocked operation is `waiting`,
then `moved` once `prepare_wait` has moved its value, or `cut` when cancellation has taken its buffer
pointer away, or `moved_cut` when both happened. `Cancel` is `cancel()` at `cl_abort` or above (it
does nothing below), `CancelAndWait` the destruction of a task in flight. `StartRound`,
`EndPrepare`, `PollReturns` and `EndFinish` are the skeleton of a runner's round
(`sync_runner::poll_one`; `async_runner::impl::run` has the same one). Calls on the channel come
from continuations, so they are possible between rounds and between two `finish_wait`s and not
between two `prepare_wait`s.

### StreamDevice

The write loop's places: `waiting` for the token, `woken` with it, `cut` when the wait was cancelled,
`writing`, and `body` on the way into the loop's next iteration, which is never left to anyone else.
`WritePacket` is `write_packet`, called by a continuation between two steps of the loop; when its
`fire()` does not complete it goes on as a program without assertions does. `Sleep`, `Proceed`,
`Wake` and `Woken` are the wait for `m_start_write` with `finish_on(cl_quit)`; `WriteSome`, `WriteRest`
and `WriteFails` the steps of `write_all` with the swap that follows it; `CancelRun` walks the levels
down the tree of tasks as `loop_task::cancel` and `cancel_level_upgrade_task::cancel` do, so a task
that starts later does not know of them; `DropRun` is `cancel_and_wait`. Packets are whole and
unframed. `given` and `wire` are history, and so is `broken`: a run has failed, or was destroyed over
a buffer that was not empty. The read loop is only something a run has to wait for before the next.

### TaskTree, TaskSet, SyncRunner and Streams

A task is a tree of records. `Cancel`, `CancelAndWait`, `Prepare` and `Finish` are the four virtual
functions, by recursion on the tree; the one-line definitions next to them (`LoopCancel`,
`ParPrepare`, `Collapse`, `SeqFinish` ...) are the overrides of the classes. A task is written down as a tree, with
`Seq2`, `Par`, `Loop`, `AbortOn`, `FinishOn` and `Token`, and `Built` is what the functions of the library (`Follow`, `Join`, `LoopOn`) make of
it: they go straight on with what has its result. A result is an exception, of which its kind is
kept, or a value, which is a count of bytes. Continuations and loop bodies are closures, to which the constants `Then`
and `Body` give a meaning: they are the program, not the library. `Seq2` with `Always` is `continue_with`, with `OnValue` it is `then`.
A descriptor task is a leaf; it is `on` until its canceller has given up, at `GiveUp`, and its wait brings the value `Moves`. A parallel composition keeps the mementos of its
branches between prepare and finish, as the code's list does.

`SyncRunner` puts each posted task behind a promise into one tree. `Poll` prepares it and picks the
items that have `revents`; `FinishItem` is one iteration of the loop over them, all with the mementos of the one
`prepare_wait`; `FinishDone` is the round in which something is done already. Between two items a
continuation may cancel a future or fire a token. `DropFuture` is the destructor, `DetachFuture`,
`DestroyRunner`, `TryRun` and `Return` the rest of what a client can do. `view` is what is to be seen of
each task, without mementos: under it `SyncRunner` implements `TaskSet`, where there is neither a
tree that holds the tasks together nor a round, and leaves change only by having their results.

`Streams` writes the operations of `stream.cpp` with these functions and gives their closures in `StreamThen` and
`StreamBody`. `ReadIsWritten` is about `copy`: a quit aborts a read that waits, but once something was
read the copy ends only when the sink has all of it: the loop that writes may vanish only when the descriptor
of its last write was finished by a poll while it was still on. The mutant puts the `abort_on` behind the `then`.

### UsbDevice, DoubleBuffer and UsbContext

A URB is `unused`, `refused`, with the `kernel`, `completed` there, or `reaped`. `Complete` and `Unplug`
are the kernel's and happen at any time. `Reap` and `HangUp` are the two ends of an iteration of the dispatch
loop; `CancelTransfers` and `EndTransfers` are the canceller and `cancel_and_wait` of a promise task
under it. When a context is used that was freed, the dispatch loop is `undefined` and says nothing further.
`DoubleBuffer` makes each iteration of its loops a step, so that the kernel acts between them: filling the
slots (`CreateFirst`), taking the results of the transfers whose promises are set (`FinishWait`),
collecting from the head on (`Collect`, with a value, an error or an exception of `collect_fn`), and
`cancel_and_wait`, slot by slot (`DropBuffer`, `DropSlot`, `DropEnds`).

`UsbContext` is one port with a device of one interface. The bus moves on by itself and puts events in
the monitor's queue; `Run`, `EnumerateAll` and `PostLoop` are `run()`, `HandleMonitor` an event. Paths
name the port: an event, a look at sysfs and the entries in the maps may each be about a different
device that was in it. Cores are numbered, each with the device it was opened for.

### StreamParser, Descriptor, Tunnel and Device

`Parse` takes a buffer apart byte by byte and keeps place and partial packet for the next; a nibble is
`MaxSize` values wide. `Tunnel` holds the state of all the clients in one record; its operators are
the calls, and `HandlePacket` is the walk over the list of receivers, which change that list on the way.
`Device` composes them: requests go out in order, the device answers them in order and sends data when
it likes, and `ReadStream` is the read loop's body with any number of the bytes there are, the first of
which may be noise. A write that fails (`Open`'s second disjunct) leaves the request queued, `FastClose`
leaves the reads. A wait that is cancelled changes nothing, since its request stays where it is and the
answer goes nowhere. The device gives a pipe that was closed to the next tunnel.

### IhexFile, Flip2 and Programming

`IhexFile` reads one line per step; the address arithmetic keeps its widths (`U16`, `U32`, `U64`), with
the nibble as the parameter, so that the sign of the `int` at `ihex_file.cpp:99` is where it is in the
code. `WriteRegion` is one expression for both branches of `write_region` and the loop that follows them. `Flip2` runs one operation at a time as a chain of control transfers (`pc` is where in the chain),
each of which succeeds, fails, or fails after it reached the chip. `Cancel` sets what a loop remembers.
`Programming` is the client in `test/shupito_flash.cpp`: the part of it in comments
(lines 167-186) programs a chip with a file. What it does when a step fails is not there; the model does any of
three things, the step again, all of it again, or all of it after opening the chip anew. A step is a word, or the address of the region
that is written; `Following` gives the next one in the order of the map. An address becomes the `uint32_t` that
`write_memory` takes.

### SvfTap, SvfVector and SvfFile

A command is a sequence of tokens with a number of comments, each of which is a statement of its own before the command's; the
parser is on tokens, and where the code loops for ever the result is `Hung`. The options of `RUNTEST` are found by where one begins
(`OptionLength`), so that the last of the places reached is the semicolon or the error. The lowering takes a statement per step, and
what comes out is kept with where the controller may be then. `chip` is a TAP controller as IEEE 1149.1 has it, started in
every state it may be in; it follows the ways that come out (`Visited` is where it is after each of their bits, `Place` what the
lowering calls it). A `vector<uint8_t>` is the sequence of its bits, a
multiple of `Width`.

## 3. The runs

| run | instance | states | checks |
|---|---|---|---|
| `runner_safety` | 2 promises, client levels 1 and 3, task stops at 2, exceptions on, symmetry | 541,283 | `TypeOK`, `NoUseAfterFree`, `EveryPromiseReleased`, `NoLostWakeup`, `ImplementsFuture` |
| `runner_liveness` | 2 promises, level 3 only, exceptions off | 215,005 | `AppliedIsDelivered`, `KillEndsWait`, `SubmissionTakenOver`, `StopEnds` |
| `channel` | 3 sends, 2 receives, capacity 2, 2 channel objects | 31,986 | `ChannelTypeOK`, `SlotsAgree`, `Conserved`, `ReceiveTellsTruth`, `BufferOutlivesUsers`, `NoMissedRendezvous`, `ImplementsFifo`, `NoStandoff` |
| `stream_device` | 3 packets, 3 runs, levels 1 and 2 | 39,307 | `DeviceTypeOK`, `InOrder`, `NothingLost`, `WorkIsStarted`, `GivenIsWritten`, `QuitEnds` |
| `stream_device_token` | the same | violated | `FireCompletes`, the assertion in `write_packet` |
| `sync_runner` | a copy with two writes for each read; a discard after three parallel waits, one under `finish_on`, one under a token; 6 descriptors, levels 1 and 2 | 20,573 | `ItemsReachTheirWaits`, `ImplementsTaskSet`, `AbortEndsTask`, `ReadIsWritten` |
| `double_buffer` | 5 transfers, 3 slots, levels 1 and 2 | 169,225 | `ContextOutlivesUrb`, `CollectedInOrder`, `CancelledBufferEnds` |
| `double_buffer_drop` | 2 transfers, 2 slots | violated | `CancelWaits`, the comment on `cancel_and_wait` |
| `usb_context` | 3 devices in turn, 2 calls of `run()` | 10,295 | `SettlesOnWhatIsThere`, `InterfaceHasItsDevice` |
| `device` | 2 opens, 2 reads, 2 descriptor readers, 2 pipes, 2 data packets, 2 descriptors, symmetry | 39,417 | `PacketsArriveAsSent`, `AnswersMatch`, `DescriptorIntact` |
| `programming` | files of 3 lines out of 18, nibbles of one bit, 2 retries | 1,097,990 | `HexImage`, `AccessIsAsked`, `FlashedIsFile` |
| `svf` | files of 4 commands out of 24, some with a comment, bytes of four bits | 418,842 | `TapAgrees`, `ShiftsAreMeant` |

Why these bounds. The clients of a runner meet only in its mutex, its lists and its event; a second
client is what makes the mutex contended, one promise be finished while the other is submitted,
and one cancel signal be swallowed by the read meant for the other. Two levels, one below and one
above `StopLevel`, are what separates a request that is applied without effect from one that stops
the task. The ring has two slots so that the indices wrap around and full, partly full and empty all
occur; three sends are one more than fit, two receives are enough for one to overtake another.
`MaxHandles` bounds the copies of a channel object. The proofs remove all of these bounds for the
safety properties. Three packets are one in flight and two behind it, or one each in buffer, backlog
and a later run; three runs (`MaxRuns`) are one that leaves something behind, one that meets it and
one that meets what that one left. Levels 1 and 2 are a quit and an abort; a kill does what an abort
does here.

The tasks of `sync_runner` are the smallest that have each kind of node, with a composition of two waits inside one of three,
below the one the runner makes of its tasks, so that an item's memento is found through three
levels, tasks are replaced and compositions collapse between two items of one poll. Level 1 reaches a wait through
`abort_on` and `finish_on` only, level 2 by itself. Two writes for each read let a quit arrive before, between and after them.

Three slots (`double_buffer`) are the fewest where the head, the slot a failure leaves out and one in between
differ; five transfers let two slots be filled again. A kill does what an abort does. `double_buffer_drop`
needs one transfer that is pending when the task is dropped. In `usb_context` three plugs
are an old device whose events are still queued, one that was enumerated in its place, and one
after that; two runs leave a queue from before the second. In `device` two of each is what can be mixed up.
`MaxCalls` counts the requests about tunnels, three of which are two opens and a close, or an open between
them; with a descriptor there are `MaxMixed` requests in all, so that two readers, or one and an open,
share the stream. `MaxCuts` buffers end before what is there does; one of them may cut a packet in its head and the
other in its data. `MaxSize` 8 makes the longer descriptor take three packets and the shorter one end on a
full packet with an empty one behind it. A descriptor's data and the noise include a start byte, and what looks
like a head. In `programming` a page has 16 bytes, a chunk 2, and the lines hold records that touch, overlap, lie apart,
cross a page, move the base by either kind of record, reach the sign, and end at or behind the last address; three are a base with two records
it acts on. With two retries a failure can follow what was done about the one before it. In `svf` four commands are a header, a trailer, a body and a second body to take over what the first
left, with vectors that end inside bytes and at their ends.

`runner_safety` does not look for deadlocks: after `RunThrows` the dispatch thread is gone and
clients wait for ever, which is what the code does. Neither do the runs of the modules in which everything
may be over: all packets written and the last run ended, all tasks finished and dropped, the double buffer ended, the
bus and its events used up, all requests made, the chip programmed, the file lowered or
refused. `runner_liveness` and `channel` do.

### Fairness

`FairSpec`: a thread that is inside a call, and the dispatch thread, keep running (weak fairness,
which the scheduler gives every runnable thread); the dispatch thread gets the mutex if it is free
again and again (strong fairness of `Splice`: clients hold it for a few instructions). Nothing is
assumed about clients using or dropping their futures, nor about descriptors becoming ready.
`KillEndsWait` therefore leaves out `stubborn` tasks, which were told to give up and went on with a new wait:
`stream_device::run`, killed while its write loop waits for its token, starts a `write_all` that is not told
of the kill, and the destructor of its future then waits for as long as the stream takes. Of every other task it
says that a kill ends the wait, without a device that answers. The run lets a finished step continue only
with a wait for a descriptor: a task that is ready in every round keeps the thread from ever
polling, and nothing that is submitted later would be taken over.

`FairChannelSpec`: the runner goes on with its round. Nothing makes a poll return.

`FairSpec` of `StreamDevice`: the runner goes on with its rounds, and a stream that is being written
to takes something or fails. The second is an assumption about the stream, and `QuitEnds` needs it:
a run that is killed while its wait for the token is cut starts a write that knows nothing of it.
Nothing is assumed of reads.

`FairSpec` of `SyncRunner`: a client that drives the runner goes on, and a poll returns with some of what it
polls. `Progress` is weak fairness of `Round` with the states that enable it written out, which `TLC` finds by
far faster than `ENABLED` of a recursive operator. The task that goes on after a cancellation (`Stubborn`) is
left out of `AbortEndsTask`: it waits anew.

`FairSpec` of `DoubleBuffer`: the runner's thread goes on, with the dispatch loop, with a task whose promise was set and
with the loops inside the task. Nothing is assumed of the kernel: a URB may take for ever. It ends by
`USBDEVFS_DISCARDURB`, which returns with the URB complete, or by the device going away.

The other modules state no liveness: they are about what is computed, or have nobody who must go on.

## 4. The proofs

TLAPS proves, for every value of the constants:

| theorem | says |
|---|---|
| `TypeCorrect`, `Memory`, `NoLeak`, `Wakeup` (`AsyncRunnerProofs`) | `TypeOK`, `NoUseAfterFree`, `EveryPromiseReleased`, `NoLostWakeup` always hold |
| `Refinement` | `AsyncRunner` implements `AsyncFuture` |
| `Delivery` | `AppliedIsDelivered`, if clients cancel with `cl_kill` only; like the property it excepts tasks that began a new wait after they were told |
| `SlotsCorrect`, `RingIsFifo` (`ChannelProofs`) | the ring's indices, count and slots agree; it implements `BoundedFifo` |
| `ChannelIsFifo`, `ReceiveTruth`, `Rendezvous` (`ChannelProofs`) | the channel uses the ring as a queue; receives tell the truth; no poll over a possible transfer |
| `ChannelTyped`, `BufferLives`, `ValuesConserved` | `ChannelTypeOK`, `BufferOutlivesUsers`, `Conserved` |
| `DeviceTyped`, `PacketsInOrder`, `PacketsKept`, `TokenForWork` (`StreamDeviceProofs`) | `DeviceTypeOK`, `InOrder`, `NothingLost`, `WorkIsStarted`, for any number of packets and runs |
| `ContextsOutliveUrbs`, `ResultsInOrder` (`DoubleBufferProofs`) | `ContextOutlivesUrb`, `CollectedInOrder`, for any number of slots and transfers |
| `Settles`, `InterfacesHaveDevices` (`UsbContextProofs`) | `SettlesOnWhatIsThere`, `InterfaceHasItsDevice`, for any number of devices in turn |
| `AccessesAsked` (`ProgrammingProofs`) | `AccessIsAsked`, for any memories, any sizes of page and of a chunk in it, and any client |
| `FileIsImage` (`ProgrammingProofs`) | `HexImage`, for files of any length, records in any order, any width of a nibble that has a half |
| `ProgrammingAsksRight`, `ChipHoldsFile` (`ProgrammingProofs`) | `AccessIsAsked`, `FlashedIsFile` of `Programming`, for any such file and any number of failures and of steps done again; the second leaves out, as `FlashedIsFile` does, files with a region over the end of a page (`Within`) or data up to the last address (`Wraps`), and chips with a late selection |
| `TapFollowed`, `ShiftsMeant` (`SvfProofs`) | `TapAgrees`, `ShiftsAreMeant`, for files with any commands, vectors of any length and blocks of any width |

Assumptions: those named in the modules. They say that levels are levels, that the tasks' behaviour
is one of those listed, that the capacity is positive (a `static_assert`-like precondition of the
buffer: with none, `next` has no index), and that the model values that mean "nobody" and "raw" are
not promises or values; that the commands of a file are sequences of tokens (`CommandsAssumption`), that a
digit of a vector has a bit at least and a block two digits, and that a chunk is no longer than a page.

The invariant of the runner. None of its properties is inductive as it stands: that a promise is not
used after it was deleted depends on how many owners it has, and that depends on where every thread
is. `IInv` in `AsyncRunnerInv` is the conjunction of

* `LockInv`: the owner of the mutex is exactly the client in a critical section;
* `ListInv`: a promise is in at most one list, and where its client and the dispatch thread can be
  when it is in one;
* `TaskInv`: in which states a task can be at each point of the round, and that it is finished
  exactly when it has a result that was published;
* `RefInv`: `refs[p] = Owners(p)`, and `p` is freed exactly when it was posted and that is 0; this
  gives `Memory` and `NoLeak`;
* `WakeInv`: whatever the dispatch thread has not looked at yet is ahead of it in its round, or the
  event is set, or the thread that caused it is about to set it; this gives `Wakeup`;
* `MainInv`: what the destroying thread may rely on at each of its steps;
* `DeliverInv`: levels and delivery, from which `Delivery` follows when only `cl_kill` is used.

TLC checked each part before it was proved. The proof that a step keeps the invariant has a step per
action; the refinement maps each action to the one of `AsyncFuture` it implements or to a stutter.

For the ring, `RingTypeOK` and `SlotsAgree` together are inductive. The channel's invariant is in three
layers, each proved with the help of the one before. `GotInv` and `AskedInv`: which operations are in the loop of the round
and in which states. `RefInv`: `refs` is the number of channel objects and of operations that hold a
reference; that those are finitely many is part of it, since a cardinality means nothing otherwise.
`PlaceInv` and `CountInv`: a value is in one slot or was received once, and which of the two goes with the state
of its send.

`DeviceInv` adds to the properties of `StreamDevice` where the write loop can be with which buffers (`PosInv`),
that the part of the buffer that was written is on the wire (`WrittenInv`: a run that fails writes it again), and
that the token is there also while the loop is in its body (`TokenInv`): a token that was taken, and the buffer
it was for, are gone together.

`BufferInv` relates the slots, counted from the head, to the transfers. `OrderInv` says that their numbers rise
from what was collected through the slots; it holds whatever is dropped. `UsbInv` and `SlotInv` hold as long as nothing is:
a pending transfer has its context and is in a slot that waits; a slot that waits has a context of its own; and what
ended well is in a slot or was collected, the last with the order of the collecting. `PhaseInv` is what
lets a slot be left out: then the task was cancelled.

`ContextInv` is about what is still in the queue. What the context knows and is no longer there will be removed
by an event in the queue; what is there and not known will arrive by one, or is in the list of
the enumeration; and after each removal of something that is there its arrival follows. An empty queue then leaves
only `SettlesOnWhatIsThere`.

`FlipInv` relates the chip's selection, that of the members and that of the operation. `Selected` (members and
operation) always holds; `Agrees` (members and chip) until a selection took place that was reported to have
failed. That the bytes of a range are then those that were asked for is arithmetic on pages and offsets
(`SamePage`). The theorem is about a client that may ask for anything (`FlipNext`); every step of `Programming` is one of
that client's, or leaves the chip alone, so that `FlipInv` is kept there too.

`HexInv` (`IhexProofs`) has three layers. `HexOK`, of any file: the regions are a map from addresses to bytes, and
addresses are below the middle of 32 bits or as far below the end of 64, where the sign takes
them. `Fits`, of a file whose data ends before the last address does (`Wraps`), or that has no signed base: no region ends at
2^64, so that the sums of addresses and sizes, which wrap, are what they seem (`PlusIsSum`), and none reaches
over another (`Apart`). `intersects` looks at two regions only; that these stand for all (`ClearOfAll`), that `write_region` then has nothing to
swallow or to cut off and keeps the regions apart (`ExtendedIsMap`), and that the image grows by
exactly the new bytes (`ImageExtended`) follow from `Apart`. `HexRead`, of a file whose addresses do not reach
the sign: the base is the last one a line sets, the image is the bytes of the records taken, whose addresses are
disjoint, and a region is refused only for a record in its place. `HexImage` also reads the buffer back with `read_region`
(`ReadsBack`).

`ClientInv` ties a file to a chip. `StepOK`: the operation that runs is that of the client's step, with its arguments.
`ErasureOK`: an erasure that is still to take place, which would wipe what is written after it, belongs to a step before the
blank check; one that was seen to have ended left nothing. `CellsOK`: while the region at an address is written, the chip has all
regions below it, that much of this one as the operation has sent, and no bytes besides. The weaker
"the regions below it are there" is not inductive: a failure leaves a part of the region behind, of which the next attempt must
know that it is the file's. It also needs that no two bytes of a file meet at one offset (`CellsAreOne`), which is
why the two halves of the address space, which become one by `% 2^32`, have to stay apart in `HexOK`. It is claimed of files `Within` only, which have no data at the last address, so that
`Fits` holds of them. TLC checked
the invariant on the instance of the run `programming` before it was proved.

`SvfInv` is proved in three layers, each of which needs the one before. `TapInv`: the locals of the lowering are typed, and the
controller is in the one state that the parser knows, or, before the first reset, it knows none and any of the sixteen is possible
(`Sound`); every statement put out was met in the right state, the last `RUNTEST` of them in the one that it or the last before it to name a
state asks for, and `low.run` is what the `RUNTEST`s so far make of it. A path given in a
file is followed along `Edges`, whatever its length (`ExplicitWay`); the default ones are gone through bit by bit.
`AllKept`: the length of each register is the one that stands, and its vectors
are, bit by bit, the last that were given for that length (`Holds`), and zero from there to the end of the block: a join would take
those bits for ones of the next vector. That is why `ShiftsAreMeant` leaves out registers that are `Overlong`, whose unused bits need not
be zero. `merge_xxr` keeps a mask when it gets a statement without a TDO, so what is kept of these two is said only of a register
that is not `Mixed`. `MeantSo`: the last shift is made of its three registers. `join_bitset` puts one vector behind another that may end
inside a block; that the result is the bits of the one and then of the other (`JoinedBits`, `ThreeJoined`) is shown for every length and every
width, with the arithmetic of rounding to blocks (`RoundedUp`) below it. What the statements so far mean for a register is defined by the last of them that
have a value (`Having`), and a further statement adds one place to those sets or begins them anew (`SeriesOn`, `HavingOn`).
TLC checked `SvfInv` on files of three commands (24,038 states), and its first layer on files of four, before it was proved.

What the proofs changed. `AccessIsAsked` was not inductive because it was false: an access to the wrong page after a
selection nobody knew of stayed the last one when the chip was opened anew, which ends the excuse. No access has been made
through the new handle, so `last` is now reset with it; TLC had not seen it with one retry, and the run has two since.
`Open` left the result of the operation before it, so that a client could go on, or try again, with a
failure that was no longer one; it has a result of its own now. `Programming` kept a queue of steps, with the regions of the file in
it, which the invariant would have had to relate to what is written already: a step is now found from the one before. Regions
without bytes are written like the others, as in the code, and addresses become offsets.
`cancel_and_wait` of the double buffer, which was one step, became the loop it is: the kernel acts between two slots.
`SvfTap` and `SvfFile` were folds and recursive operators: what a path does is a recursive function now (`Visited`), as the
options of `RUNTEST` are, and a name is looked up by `Place`, where it was put together from two strings, of which no prover knows anything. A comment
stood anywhere among the tokens, and was filtered out; a command has a number of them instead.

Only model-checked: `KillEndsWait`, `SubmissionTakenOver`, `StopEnds`, `NoStandoff`, `GivenIsWritten`, `QuitEnds`, `AbortEndsTask`
and `CancelledBufferEnds`, which are liveness or need `ENABLED`, out of this prover's reach; and everything about
the tree of tasks (`ItemsReachTheirWaits`, `ImplementsTaskSet`, `ReadIsWritten`), the stream's parser and its clients (`PacketsArriveAsSent`,
`AnswersMatch`, `DescriptorIntact`).
`TaskTree`, `TaskSet`, `SyncRunner`, `Streams`, `Descriptor`, `Tunnel` and `Device` are, or rest on,
recursive operators, and `StreamParser` on folds over what it is given: what those compute for every
input needs induction over data, and its theorems have a parameter that is an operator. The others are written without recursion, or
with a recursive function. Where a proof needs a least number, it
comes from the well-founded order of the numbers (`MinIsLeast` in `IhexProofs`, `LeastExists` in `SvfProofs`), whose theorem has a relation for
its parameter; a claim about every place of a path or of a file is then refuted at its first counterexample.
What the parser makes of a file (`ParseCommand`) is in `TapInv` only as the types of the statements; that it is what the text means is
not stated, since there is no other meaning of the text to compare it with.

## 5. What the models show about the code

Things met while modelling that hold of the code and are worth knowing:

* *A lost cancel.* With two levels `AppliedIsDelivered` fails. `perform_pending_cancels`
  (`linux_async_runner.cpp:85-88`) delivers the level it reads and then remembers the level it
  reads again. When a client raises the request from `cl_quit` to `cl_kill` in between, `cl_kill`
  is remembered and never delivered, and a client that waits for the kill may wait until the
  descriptor becomes ready by itself. The Windows runner copies the level once. Clients that use
  one level, as the destructor of the future does, are not affected: that is `Delivery`.
* *A leak.* A promise is created with the reference that belongs to the list it will be in. A task
  that already has its result is never put in a list (`async_runner.hpp:220-225`), so its promise
  is never deleted. `EveryPromiseReleased` names that exception.
* *A failed send that was delivered.* A blocked send that is cancelled between its `prepare_wait` and
  its `finish_wait` reports a cancellation although its value is in the buffer, and
  `cancel_and_wait` of a send reports success in any case. A receive keeps its result and tells the
  truth. `Conserved` and `ReceiveTellsTruth` say exactly what does hold.
* *A token left behind.* `write_packet` asserts that `m_start_write.fire()` completes
  (`stream_device.cpp:63-64`). When a run is told to quit after a packet has fired and before the loop
  has taken the token, the packet is written because `finish_on` lets the loop go on, but the token
  stays; the next packet finds an empty buffer and a full channel. The run `stream_device_token` shows
  it. `f.wait(cl_quit)` right after the last write is what `test/shupito_flash.cpp` does; a
  program that then writes another packet to the same device meets the assertion. Without assertions the packet is written all the same.
* *A failed run keeps its packets.* After a failed or aborted write the buffer stays, without a token:
  the next run does not write it until it is told to quit, and then writes all of it again
  (`NothingLost` holds; `InOrder` and `WorkIsStarted` are claimed until then).
* *Packets from another thread.* The tests call `write_packet` on their own thread while the device
  runs on the dispatch thread. That is a data race on two vectors; and the token does not wake a
  runner that is in poll. No model gives it a meaning.
* *A silent end.* An exception out of `prepare_wait` ends the dispatch thread; its clients are never
  told.
* *A cancellation that is swallowed.* A parallel composition drops the results of its branches
  (`parallel_composition_task.cpp:44`), a cancellation or an exception with them, and is a success. What follows in a
  sequence goes on as if nothing had been cancelled, waits for something new, and the level is not
  applied to it. `AbortEndsTask` leaves such tasks out. With `operator|` it depends on the order whether an exception is
  kept: a branch that has its result is dropped before there is a composition.
* *A future dropped in a round.* Its `promise_task` stays in the tree with the promise already finished. Outside of a
  round that is harmless. Between two `finish_wait`s of one poll an item may still lead to it
  (`sync_runner.hpp:102`), which an assertion forbids; the model drops futures outside of rounds only.
* *A transfer that is destroyed while it is pending.* `cancel_and_wait` discards the URB but does not wait for it to be
  reaped; the context is freed and the dispatch loop writes to it. The run `double_buffer_drop` shows it, and
  `ContextOutlivesUrb` holds as long as nothing is dropped.
* *Ends of a double buffer.* When `collect_fn` throws, the count is lowered before the rest is cancelled, which spares
  the last slot (`double_buffer_task.hpp:103`): the task ends when that transfer does. When every call of
  `create_fn` fails, the constructor collects them all and leaves a task with nothing to wait for, which never
  ends (18-21). When `collect_fn` throws in `cancel_and_wait`, a value is asked for its exception. The properties leave out
  the first two, and the model takes `collect_fn` not to throw there.
* *A core that is lost.* When a new device is enumerated, with its interface, before the removal of the one before it at the same path is
  handled, the removal takes the new device's core; the interface keeps it (`crossed` in `UsbContext`).
* *Answers go by order.* An open whose write fails stays queued, and every later open gets the pipe of the one
  before it (`tunnel.cpp:106`). A tunnel that is closed with `fast_close` leaves its reads, which take the data of the next tunnel
  of that number. `AnswersMatch` says when the answers do match.
* *The tail of a descriptor.* A reader that registers while an answer to another one is under way takes the rest of it
  for a descriptor; usually that fails, but it may parse.
* *One byte short.* `descriptor.cpp:26` checks for 19 bytes and reads 20.
* *A handler that throws* leaves `m_packet_pos` behind the packet (`stream_parser.cpp:53`); the only one is that of a
  malformed tunnel list. A run that ends inside a packet leaves the part in `m_parser`, to be continued with the
  first bytes of the next run.
* *Hex files.* The upper half of an address is shifted into the sign of an `int` (`ihex_file.cpp:99`): data above 2 GiB land
  elsewhere. Data up to the last of these addresses ends at 2^64, which is 0 as a `size_t` (`sparse_buffer.cpp:23`, 60, 75): two
  records over the same bytes, after a record of type 4 with FFFF, are then both accepted, and `read_region` does not find
  the one that ends there. A record that is too short is read beyond its end, which is a crash on the first line. One without data is
  refused on top of another's address. Checksums are not verified.
* *Streams.* A `copy` that is told to quit ends with a value when the quit finds it writing, and with `task_cancelled` when
  it finds it reading (`stream.cpp:31`, 42). `write_all` that is aborted after its last byte was taken reports a
  cancellation (`stream.cpp:21` comes before 23).
* *FLIP2.* A range over the end of a page is accessed with the page of its first byte selected (`flip2.cpp:171`). A selection that took
  place although its transfer failed is not known to the members, which then trust the one before it;
  opening the chip anew helps.
* *SVF files.* `STATE` or `RUNTEST` without its semicolon at the end of the file is parsed for ever (`svf_file.cpp:448`, 314). Names
  with a digit (`DREXIT1`, `IREXIT2`) are never recognised, since a word ends at a digit, but `IREXIT` is. A word that is no option of `RUNTEST` is
  passed over. `merge_xxr` asserts (491) what it then handles, a missing TDI. Bits beyond a vector's length are kept when the length does not
  change, and a mask outlives the TDO it came with; `ShiftsAreMeant` leaves both out.
* *Read, not modelled.* `interface_guard::claim` of the interface it holds releases it; `bulk_stream::close` reads
  `m_claimed_intf`, which nothing has initialised; the write task of the Linux serial port waits for `POLLOUT` and looks
  for `POLLIN` (`linux_serial_port.cpp:64`).

## 6. Not modelled, and what is next

Not modelled:

* `async_channel`: on Linux its lock locks nothing, so that each call from a second thread is a data race, with no
  defined outcome. From one thread it is the `Channel`.
* `escape_sequence`: a search for bytes in answers, which shares no state with anything.
* timers, serial ports and bulk streams: thin wrappers of descriptors, termios and ioctls. What a stream above
  them goes through is in `StreamDevice`.
* interfaces, string descriptors and synchronous ioctls of `usb_device`: data that is only read, or one call of the kernel.
* the Windows counterparts. The USB and file operations are the driver's behaviour; the runner is a second implementation of
  `AsyncFuture`, see below.
* of `tunnel`, the tunnel lists and their signal, and `write`; of `flip2`, `clear_errors` and `close`, and two operations at a time, which the class does not guard against.
* RAII helpers, views, conversions, the mock stream and the test programs.

Next:

1. Proofs: `AnswersMatch`, for which `Tunnel` has to be written without recursion.
2. `Win32AsyncRunner` against `AsyncFuture`: it holds its mutex for a whole round, delivers cancels through a queue, and overwrites a requested level
   where the Linux runner takes the maximum.
3. Two ports, or a device with two interfaces, in `UsbContext`.
