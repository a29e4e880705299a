# uvcc: verification of lifetimes, read control and requests

uvcc is a header-only C++ binding of libuv. Its own logic is not in the event
loop, which libuv provides, but in the bookkeeping around it: who owns the
instance behind a variable, which libuv operation keeps which instance alive,
what `start`/`stop` pairs do to that, and what the callbacks may assume. Errors
there are use-after-free, leaks and callbacks that come when they should not,
and they depend on orders of events that unit tests hardly produce. This
project models that bookkeeping in TLA+, checks it with TLC on small instances,
and proves with TLAPS, for every size, every invariant and both refinements that TLC
checks; only the liveness properties rest on TLC alone.

Source paths below are relative to `src/include/uvcc/`.

## Inventory

| Component | State | Operations | Interacts with | What makes it correct |
|---|---|---|---|---|
| `ref_count`, `handle::instance`, handle variables (`utility.hpp`, `handle-base.hpp`) | an atomic counter per instance, a pointer per variable | `inc`, `dec`, create, copy, copy from a bare pointer, move, swap, drop | everything else: each component counts through `ref()`/`unref()`, from any thread | the counter is the number of references; no dangling variable; destroyed once, and eventually |
| read control of I/O endpoints (`handle-io.hpp`, the interfaces in `handle-stream.hpp`, `handle-udp.hpp`, `handle-fs.hpp`) | `rdcmd_state`, `rdoffset`, the spinlock `rdstate_switch`, for a file the `uv_fs_t` of its read chain | `read_start`, `read_stop`, `read_pause`, `read_resume`, the read callback | commands from any thread and from the callback, against the loop thread, which takes no lock | references balanced in every order of commands; right offsets; one chain per file, never lost; nothing asked for after a stop; the callback path does not outlive the instance |
| watchers: timer, idle, prepare, check, poll, signal (`handle-misc.hpp`), fs_event (`handle-fs.hpp`) | `opcmd_state` or `has_extra_ref`, the repeat interval | `start`, `start_oneshot`, `stop`, `repeat_interval`, the callback | callbacks issue the same operations | one reference per start, released once; the instance exists as long as it is watched, and goes after the last expiry |
| loop (`loop.hpp`) | counter, the libuv loop | copy, drop, `run`, `stop`, `walk`, the destructor with its premortal run | handles book it; requests on it do not | no open handle at destruction; freed only when nothing is left; eventually freed |
| requests on streams, UDP, the thread pool and DNS (`request-*.hpp`) | properties: handle, buffer | `run`, callback | reference handle, buffer and themselves while libuv has them | the handle and the loop exist as long as libuv has the request |
| files and filesystem requests (`handle-fs.hpp`, `request-fs.hpp`) | descriptor, `is_closing`, `write_queue_size`; per request the file and the pending size | three constructors, `open_cb`, twenty request classes with `run` and callback | thread pool completes in any order; `fs::close` stops reading | references balanced; queue size exact; no descriptor but the file's own closed |
| async handle (`handle-misc.hpp`) | libuv's pending flag, the callback | `send` with and without a callback, from any thread; the callback | variables on several threads; the loop thread delivers | references of sends and callbacks accounted for, coalesced ones included; a wake-up finds the handle; every send is followed by a callback |
| buffer (`buffer.hpp`) | counter, array of chunks in one allocation, sink callback | create, copy, move, swap, drop; the sink, which may revive the instance | lent to libuv by `io_alloc_cb()`, found again by `io_read_cb()`, kept by output requests | layout and the way back from a chunk to its instance; no buffer deleted in use, none leaked but by a refused read |
| output request (`request-io.hpp`) | the type in its `uv_req_t`, endpoint, buffer | `run`, `try_output` on any endpoint, the callback, running again in it | becomes a `write`, `udp_send` or `fs::write` | endpoint, buffer and request referenced exactly while libuv has them |
| sockets and servers (`handle-stream.hpp`, `handle-udp.hpp`) | `uv_status`, booking of the loop | constructors, bind, options, `listen`, the connection callback, `accept`, `accept_pending_handle` | accepted handles are handles like others | references and bookings balanced when an initialisation or accept fails; what is not booked reports an error |
| process (`handle-misc.hpp`) | containers, endpoints, options for `uv_spawn()` | `inherit_stdio`, `create_stdio_pipe`, `stdio`, `spawn`, exit callback | keeps the endpoints passed to the child | the array libuv reads is current, its streams exist |
| utilities | | | | see "Not modelled" |

The hard behaviours are: several threads in `ref_count` and in the read
control; callbacks that issue commands on the object whose callback is running;
state read before a user callback and used after it; libuv operations that
cannot be cancelled and complete later; failing libuv calls half way through an
operation; destruction while operations are in flight. `PROJECT.json` lists
them one by one under `hazards`.

## Modules

`SharedObject` is the abstract specification of an instance: it lives exactly
as long as a reference to it exists; making, releasing and reclaiming are one
step each.

`RefCount` is the counter as written. A *slot* is a variable; each atomic access
in `inc()` and `dec()` is a step, so that operations of different threads
interleave between the load and the compare-exchange, between the increment and
the store of the pointer, between the decrement and the delete. `CopyFromRaw` is
the construction from a bare `uv_handle_t*`, as in `loop::walk()`, where nothing
keeps the instance meanwhile; there the code throws or, after the delete, has
undefined behaviour, which is the program counter value `undefined`. Two
operations on one variable do not overlap and nothing changes a variable that is
being copied from: those are data races of the caller. Accesses are sequentially
consistent; the memory orders are out of scope.

`ReadControl` is the abstract specification of read control: an endpoint is stopped,
paused or reading, every command is one step of the table in the documentation of
`io::read_resume()`, a stop cancels the reads that libuv has been asked for, except
those of a file, and the instance lives as long as it is reading, its callback runs or
a variable refers to it.

`IoRead` is one endpoint of any kind. A command is split where another thread can
get in between: taking `rdstate_switch` and switching the state; the stop of a
restart; the call of the endpoint's interface, on which the lock is released.
The loop thread's side is split at the user callback, at the update of
`rdoffset` after it and, for a file, at the decision to issue the next
`uv_fs_read()`. `position`, `trueoff` and `fault` are history: where the data
really is, and whether a freed instance has been used. Commands that the code
makes no-ops (pause when not reading, resume when not paused, start without
callbacks) change nothing and are not actions.

`Watcher` is one handle of any of the seven classes. All six classes with an
`opcmd_state` share the code of `start()` and `stop()` literally, and the module
shares `Start` and `Stop`; the timer is apart. What libuv does (an active handle
that it stops when a start fails, a timer that is inactive by the time of its
last callback) is taken from how the callbacks use it.

`LoopLifetime` composes a loop, handles, requests of eight classes and a buffer
on one thread. User code runs outside of `run()` and in callbacks; a handle whose
last reference goes is closed and deleted at once, while libuv finishes closing
it in a later iteration; the last reference to the loop starts its destructor,
which runs the loop until nothing is left. A request may be run again in its own
callback: `cb` holds what the guards of that callback own. A run may return between
any two callbacks, which covers `stop()` and the modes of `run()`; `walk()` gives the
user a variable of a handle that only requests keep.

`FileRequests` composes files and the twenty filesystem request classes. `fd` says
what the descriptor is: `zero` is the result field of an open that libuv refused,
`foreign` a close of a number that is not the file's any more.

`Async` is one async handle used by several threads. `send()` is split between
its reference and `uv_async_send()`, since the callback may run in between.
libuv has one flag per handle; a send that finds it raised is coalesced, and
because each callback adopts the reference of one send, the reference of a
coalesced one is never released: `merged` counts them, and the accounting
includes them. `unseen` is history: the threads whose send no callback has
followed yet. The bound `MaxMerged` limits sends in progress and coalesced ones.

`Buffer` has the layout of the one allocation as functions (`AlignmentPadding`,
`AllocationSize`, `Base`, `UvBufFrom`) and the life of instances as a state
machine. `frames` is the stack of running callbacks: a sink is called from under
whatever released the last reference, with a variable that revives the instance.

`BufferFlow` extends it with an endpoint that is read and an output request that is run
on endpoints of any kind. A read takes a buffer from the alloc callback, new or kept
from earlier, lends it, and hands it to the read callback or, at the end of a file,
releases it first. libuv asks for the memory of a stream or a datagram socket when it
needs it (`Allocate`); for a file `file_read()` takes it before it calls `uv_fs_read()`,
in `read_start()` (`FileStart`) and after each read callback (`ReadNext`, from under the
frame "next"). When `uv_fs_read()` refuses, the reference is lost: `leaked` counts
those. What a refused `run()` and a `try_output()` leave is a status and a type, which
are data, and so they are not actions. `guard` is the endpoint that the guard of the
running output callback releases, which is not the one of a run in that callback.

`Streams` is the handles of sockets, pipes and terminals: an instance is a record of
what the code and libuv know of it. `Recount` is every change of counters: what gains
references gains them first, and what has lost the last one is deleted and unbooks the
loop. `uv_accept()` may fail whether something waits or not. `Process` extends it with a
process handle, its containers and its endpoints; `options.current` says whether
`spawn_options.stdio` is the address of the vector as it is now.

The proofs are in modules of their own: `RefCount_proofs`, `IoRead_proofs`,
`Watcher_proofs`, `LoopLifetime_proofs`, `FileRequests_proofs`, `Async_proofs`,
`BufferFlow_proofs` (which is about `Buffer` too) and `Process_proofs` (about `Streams`
too). The `MC*` modules give the constants values that a configuration file cannot.

## Runs

| Run | Result | Bounds |
|---|---|---|
| `refcount` | passes | 3 variables, 2 instances: two threads contend for one instance while a third reference comes or goes; the second instance is the other side of an assignment |
| `io_control` | passes | loop thread and one other, all commands everywhere, failures, 2 data units, 2 reads in flight |
| `io_chain` | passes | one thread, stop and pause in the callback, start and resume outside, explicit offsets, 4 data units |
| `watcher` | passes | every class, 2 variables, repeat 0 and 1, failures; expired timers are not reused |
| `loop` | passes | 2 handles (so that one can be sent over the other), 2 requests of any two classes, 2 loop variables |
| `file` | passes | 2 files (so that sendfile has both ends), 2 requests in twelve pairs that cover every class and put each one that changes a file next to a write |
| `async` | passes | the loop thread and two others, 2 variables each, at most 4 sends in progress or coalesced: enough for two sends to meet one pending wake-up while a third is delivered |
| `buffer` | passes | 2 buffers, 2 variables; buffers of no chunk, one, or two of which the first is empty, with the sizes of a 32-bit build, where the padding is not zero and depends on the number of chunks; a file or a datagram socket is read (a stream behaves as the latter), and output goes to endpoints of every kind; one reference to each buffer can be lost (`MaxLeaked`), enough for a buffer with a lost reference to be kept, lent, sent and revived |
| `process` | passes | 2 handles (a server and its client, or two endpoints of a child), 2 variables, every class, 2 descriptors of the child |
| `io_stop_in_callback` | violation | see findings |
| `timer_reuse` | violation | see findings |
| `loop_in_callback` | violation | see findings |

Deadlock is not checked: a program that has dropped its variables and has
nothing in flight is done.

### Properties

* `refcount`: `CountMatchesReferences`, `NoDanglingReference`, `DestroyedOnce`,
  `NoUseAfterFree` (a copy from a variable is safe even while others copy from
  bare pointers), `NoResurrection` (zero is final), `EventuallyDestroyed`, and
  the refinement `AbstractSpec`.
* `io_control`: `ReferencesAccounted`, `NoReadAfterStop` and the refinement
  `ControlSpec`: in every order of commands from every thread the accounting holds,
  and what a command does cannot be told from one step of `ReadControl`. After a stop
  libuv is asked for nothing more, on any endpoint; a stream or a datagram socket is
  not read at all then, while the `uv_fs_read()` of a file that was under way runs on
  and calls back (`handle-fs.hpp:88`, `:239`).
* `io_chain`: `OffsetExact`, `SingleChain`, `NoUseAfterFree`, `KeepsReading`:
  what the read callback and a file's chain promise, under the discipline that
  makes them true (no concurrent resume, no restart while a
  read is in flight, a variable kept).
* `watcher`: `ReferencesAccounted`, `WatchedHandleExists` (a watched handle is not
  deleted, and none stays behind unwatched), `ExpiredTimerGoes` (a non-repeating timer
  without variables is deleted after it has expired).
* `loop`: `ReferencesAccounted`, `NoOpenHandleAtDestroy` (the `logic_error` of
  the destructor is never thrown), `HandleRequestsKeepLoop`,
  `NothingLeftAtFree`, `LoopReclaimed`.
* `file`: `ReferencesAccounted`, `WriteQueueExact`, `FileValidWhileUsed`,
  `OwnDescriptor` (what is closed is the file's own descriptor, apart from a second
  close after `fs::close` and the zero of a refused asynchronous open).
* `async`: `ReferencesAccounted`, `WakeupKeepsHandle` (whoever drops the last
  variable, and in whichever order with a send), `SendAnswered`.
* `buffer`: `ReferencesAccounted` for buffers, endpoints and the request, where the
  references that a refused `uv_fs_read()` loses are counted apart,
  `NoUseAfterFree` with sinks that keep, copy or drop what they get,
  `LayoutSound` for the arithmetic of the allocation and its inverse.
* `process`: `ReferencesAccounted` for handles, endpoints and the process (with the
  bookings of the loop, and an error reported by every handle that has none),
  `StdioAlive` (what `uv_spawn()` would read).

Each has a mutant, an operator next to the definition it replaces (`Dec_TestsOne`
for `Dec`), that breaks it the way a slip in the code would.

### Fairness

`RefCount`: a thread inside `unref()` goes on. `IoRead`: the loop thread runs and
user callbacks return; a thread inside a command finishes it. `Watcher`: a started
timer expires and its callback returns. `LoopLifetime`:
while the loop is being run, libuv completes requests and closings, callbacks
return and the destructor goes on; nothing makes the user code call `run()`.
`Async`: a thread inside `send()` goes on and callbacks return (weak fairness); the
loop thread keeps coming back to `uv_run()`, although its own code runs in between
(strong fairness of `Dispatch`).
Each is a scheduler's or libuv's promise, apart from this: callbacks return, and the
program of an async handle keeps running its loop, without which no wake-up could be
answered.

## Findings

1. `io_stop_in_callback`: `file::read_cb()` uses the instance after the user
   callback, whose `read_stop()` may have released its last reference.
2. `timer_reuse`: a non-repeating timer that has expired still has
   `has_extra_ref`; the next `stop()` releases a reference it does not own, the
   next `start()` takes none.
3. `loop_in_callback`: work and DNS requests do not keep their loop, although
   `loop()` promises it in the callback.

### Conditions of use

The passing runs rest on conditions that the code does not enforce and its
documentation does not, or not clearly, state. Without them the properties fail:

* `read_resume()` on another thread is not concurrent with the read callback: it
  would read `rdoffset` before its update (`handle-io.hpp:366`).
* A file is not started again while its `uv_fs_read()` is in flight: the second
  read would use the same `uv_fs_t` (`handle-fs.hpp:88`).
* A request is not run on a file whose asynchronous open is still pending
  (`handle-fs.hpp:142-170`): its descriptor is not known yet, and the request would
  outlive a failed open.
* An output request is run on endpoints of one class: the properties of the classes
  share their storage (`request-io.hpp:78`), and with a file after a stream or a datagram
  socket `~properties()` takes the address of a buffer for a `uv_fs_t`
  (`request-fs.hpp:76-80`).
* `signal::start_oneshot()` ends in `uv_signal_start()` (`handle-misc.hpp:1111`);
  with libuv 1.12 or later it relies on no second signal.
* An alloc callback returns a buffer of one chunk that is not empty:
  `uv_buf::from()` finds the instance of no other (`buffer.hpp:148`).
* A sink moves, copies or drops its parameter, and does not give up the last other
  reference to it nor swap it with another buffer (`buffer.hpp:119-126`).
* The callback of an async handle is not assigned while it may be running
  (`handle-misc.hpp:127`), and a request is not run while libuv has it.
* `accept()` of a terminal and `accept_pending_handle()` with nothing pending set the
  status of a variable without an instance (`handle-stream.hpp:533`).
* `loop::walk()` is not called while libuv is still closing a handle, whose instance is
  deleted already (`loop.hpp:323`, `handle-base.hpp:418`).
* `inherit_stdio()` gets an endpoint that has an instance (`handle-misc.hpp:1383`).

Met while modelling: `file_read()` takes a buffer from the alloc callback, with a
reference, before it calls `uv_fs_read()` (`handle-fs.hpp:183-191`). If that is refused,
neither `read_start()` (`handle-io.hpp:221-227`) nor `file::read_cb()`
(`handle-fs.hpp:253-254`) releases the reference, and the buffer is never deleted. The
model has this (`leaked`), and `LostForever` proves that nothing makes up for it.

Met while reading, outside of the models: `tcp::getsockname()` and `getpeername()`
(`handle-stream.hpp:245`, `:258`) test the status itself, which is zero on success,
where `udp::getsockname()` (`handle-udp.hpp:183`) tests that it is not negative; and
`spawn()` adds its flags to those of earlier calls (`handle-misc.hpp:1491`).

## Proofs

`RefCount_proofs` proves, for any finite set of variables and any set of
instances (`RefCountAssumption`), every safety property of the `refcount` run and
that `RefCount` implements `SharedObject` under the mapping of `refs[o]` to the
number of references that exist. `CountMatchesReferences` alone is not inductive:
a `dec()` needs to know that what it discounts was counted, a copy that its
source still holds the instance, a delete that nobody else deletes. The
inductive invariant `Inv` adds

* `CountOnlyAlive`: only live instances have a counter other than zero;
* `OperationInv`: what an operation in progress knows about its instance;
* `SourceInv`: a variable being copied from stays as it is, and the counter the
  copy has read was not zero;
* `DestroyerUnique`: two operations never destroy the same instance.

Preservation is proved conjunct by conjunct, action by action. The counter is a
sum of two cardinalities, so the lemmas `CardAdd`, `CardRemove` and
`CardReplace` say what adding, removing and replacing one element does, and
`HeldToTransit`, `TransitToHeld` and `CountByMoves` say that a step which only
moves references about keeps the sum. `NoneAbandoned` adds that an instance whose
counter is zero has a destroyer (`DestroyerStays`: nothing takes that away from it).

`IoRead_proofs` has two parts. The first is for any finite set of threads, any kinds of
endpoint, every command from everywhere, restarts and failures (`IoReadAssumption`
only). `ReferencesAccounted` speaks of states in which no command is in progress, and
`NoReadAfterStop` of every step after the switch of the state; to get there, `Inv` says
what holds inside one: `LockInv` (a thread is inside a command exactly while it has
`rdstate_switch`), `OwnerInv` (which state the owner has switched to, and whether libuv
can be reading meanwhile) and `Accounted`, where the reading state has two, one or no
references depending on how far the owner has got. It also gives `InstanceKept`: the
instance exists exactly while a variable, a running callback or the reading state keeps
it, for a file too, whose `uv_fs_read()` may still be under way when it goes.
`StopIsSilent` is proved action by action: what can ask libuv for a read after the
switch to a stop is a start or a resume that has switched back (`SilentStep`). The
second part is about what needs something of the user. `KeptInstanceIsSafe` proves
`NoUseAfterFree` if one thread keeps its variable (`Threads \ Droppers # {}`), whatever
else happens; finding 1 is what remains without that. `OffsetsCorrect` and
`ChainIsSingle` prove `OffsetExact` and `SingleChain` under `Discipline`: one thread, no
start in a callback, and for files only stop and pause in the callback, only start and
resume outside, no restart of a read in flight. `io_chain` is an instance of it.
Offsets, data, failures and dropped variables are arbitrary. `ChainInv` says where the
data that the next callback gets is relative to `rdoffset`, and that a file has one
`uv_fs_read()` or one callback, not both.

`Implements` proves that `IoRead` implements `ReadControl`, again for any threads and
every command from everywhere. The mapping has to say which of the steps of a command is
the one that counts: `Mode` reads `rdcmd_state`, except that a stop or a pause has
happened only when its owner has called the interface and given up the reference, so
that at `stopUnref` the endpoint is still reading; `Asked` is the reads that libuv has to
answer. `ReachInv` says that whoever is inside a command has a variable or the
callback's parameter, and with `AliveWhileReferenced` (the counter is above zero exactly
while something of the view refers to the instance) every command finds it alive. Then
each action is shown to be a command of `ReadControl`, an answer, a drop, or invisible
(`CommandSimulates`, `LoopSimulates`). The callback path, which takes no lock, is covered:
its late use of the instance changes nothing that `ReadControl` speaks of, and is what
`NoUseAfterFree` and finding 1 are about. `ChainNeverBreaks` says that a file being read
always has a read, a callback or a start under way, if libuv refuses none
(`Failures = FALSE`).

`Watcher_proofs` proves the three invariants of `watcher` for any number of variables
and any repeat intervals, under its `Discipline`: if there are timers, an expired one is
not reused, which finding 2 shows to be needed. The other classes need nothing.
`NothingAfterClose` says that nothing can happen to a handle whose last reference has
gone. Its invariant adds to `ReferencesAccounted` what `opcmd_state` and `has_extra_ref`
say about `active` and the guard.

`LoopLifetime_proofs` proves the five invariants of `loop` for any finite sets of
handles and requests and any number of loop variables. Besides the counters (`Counts`),
`Inv` has `HandleInv` (a handle that a request or the guards of a callback have is
open), `LoopInv` (the loop is alive while referenced; callbacks run in `run()`, which
needs a variable, or in the destructor; a freed loop has nothing unfinished) and
`RequestInv` (only a pending request has handles, without which a handle could be
counted for a request that is gone). `HandleCallbackHasLoop` says of requests on
handles what finding 3 refutes for work and DNS requests: in their callbacks the
loop is alive. `DestructionOnlyShrinks` says that the destructor's run of the loop cannot
get more to do: without references to the loop there is no open handle (`NothingToUse`),
so neither a callback nor what it releases can start anything.

`FileRequests_proofs` proves the five invariants of `file` for any finite sets of
files and requests, any of the twenty classes and any sizes. `FileInv` adds to the
counter of a file that one which is still being opened is used by nobody: its
descriptor is not known yet, and a request that had it would outlive a failed open.
`WriteQueueExact` compares a counter with a sum over the requests in flight. Sums are
folds, which the provers cannot reason about, so the property counts bytes instead: it
is the cardinality of the set of pairs of a request and one of its bytes, and the
lemmas about `Rows` say what adding or removing a request does to it.
`DescriptorsAreOwn` delimits the two ways in which a number that is not the file's can be
closed: until `fs::close` has marked it an opened file has its own descriptor, until its
last reference goes, and only a marked file, or one that may be opened asynchronously, and
so be refused by libuv, ever closes a foreign one.

`Async_proofs` proves `TypeOK`, `ReferencesAccounted` and `WakeupKeepsHandle` for any
finite sets of threads and variables and any `MaxMerged`. `Inv` adds `FailedIdle` (a
handle that libuv has not initialised is never woken, so a refused send releases its
own reference and nothing else), `UnseenPending` (a send not yet answered has left
the flag raised, so that its reference is there to keep the handle) and
`SendsBounded`, without which `merged` could leave its range. `WakeupKeepsHandle`
follows from the accounting: what it names is a term of the sum. From it follow that no
wake-up is lost (`WakeupNotLost`), that nothing comes after the close
(`NothingAfterClose`), and the price of coalescing: after one coalesced send the handle is
never closed (`CoalescedIsForever`).

`BufferFlow_proofs` proves `ReferencesAccounted` and `NoUseAfterFree` of `buffer` for
any finite sets of buffers, variables and endpoints and any number of refused reads
(any `MaxLeaked`). A sink may run inside a sink, to
any depth, so `Inv` needs to know the stack: `StackInv` says that only sinks are
called inside another callback, that a sink has its own buffer or none as its
parameter, and that no sink is called inside itself. `LifeInv` says that a buffer is
alive exactly while it is counted, and counted while its sink runs. `UnrefStep` is
the core: an `unref()` takes one reference away, or replaces it by the one of the
sink's parameter, and every action that releases a buffer is balanced through it.
`AllocCbStep` says the same of `io_alloc_cb()`, and `LendStep` that its reference goes to
libuv or is lost. `ChainInv` (no chunk is lent while a read is delivered) is what the next
read of a file needs: it would forget the chunk of another one. `LostForever` says that a
buffer to which a reference is lost is never deleted.
`DeletionIsFinal` says that a sink revives a buffer only before it is deleted.
The layout is proved too (`LayoutCorrect`), for any initializer lists, sizes and alignment.
`PaddingCorrect` is the arithmetic: the padding aligns the end of the array of `uv_buf_t`.
The offset of a chunk is a sum over the list, which would take induction; as with the
write queue the module counts bytes instead (`Bytes`, the pairs of a chunk and one of its
bytes), and `OneMoreChunk` says that each chunk adds its length. `ShapeInv` says that the
shape of a buffer is a list of lengths.

`Process_proofs` proves the two invariants of `process`, which are about `Streams` too,
for any finite sets of handles, variables and descriptors. `Inv` adds types,
`Consistent` (only an instance that exists is booked, only a booked one listens, and one
that exists without a booking reports an error), `StdioInv` (containers, endpoints and
options agree) and the counters. `RecountSound` says that any change of counters through
`Recount` keeps this if nothing is released more often than referenced.
`DeletionIsFinal` says that a handle or a process that has been deleted is not named by
anything again.

The assumptions are those of the modules (`...Assumption`: finite sets, a null value
that is not an element, types of the bounds) and, where a theorem says so, a hypothesis
on the user code or on libuv: the two `Discipline`s, the kept variable of
`KeptInstanceIsSafe`, and `Failures = FALSE` for `ChainNeverBreaks`.

Only model-checked: the liveness properties `EventuallyDestroyed`, `KeepsReading`,
`ExpiredTimerGoes`, `LoopReclaimed` and `SendAnswered`, since liveness under fairness is
out of the prover's reach. The safety half of each is proved: that what has to happen is
still on its way in every state (`NoneAbandoned`, `ChainNeverBreaks`, `WakeupNotLost`;
for a timer `WatchedExists`, which leaves nothing but libuv to keep it), or that nothing is added
to what is left (`DestructionOnlyShrinks`). What remains for TLC is that the fair steps
are enabled until they are taken.

## Plan

Done: all modules above and their proofs. Next, in this order:

1. An explicit offset given to `read_start()` in the read callback.
2. The memory of a handle that libuv is still closing.

## Not modelled

The queries and options of a loop; the results of requests, such as the `addrinfo` of
`getaddrinfo`; user, environment and arguments of a process, and `kill()`, which are
data or a single libuv call. Type traits, storages, byte order, socket addresses and
debug output are compile-time or pure data code. libuv is external: the models contain
what uvcc relies on (when it calls back, what it stops, that it finishes closing and
completing) and no more. Results and error codes of operations are abstracted to
success, failure and, for reads, data or none. Memory orders are not modelled, and data
races of the caller (two threads on one variable or one `std::function`) are excluded.
