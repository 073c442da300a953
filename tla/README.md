# TLA+ models of the Rylogic native runtime and applications

The repository is the Rylogic code monorepo: a C++ header library (`src/include/pr`), the
`view3d-12` renderer (`src/projects/rylogic/view3d-12`), the C# `Rylogic.*` libraries, a dozen
applications and vendored SDKs. Most of it is mathematics, geometry, user interface and file
formats. An interleaving or an ordering decides whether the program is right in two places, and
both are modelled here. One is the native runtime: the threads of the task graph and of the log, and the
life of GPU memory between a CPU that records and a GPU that executes later. The other is those
applications that keep a picture of something that changes without them: CoinFlip, of its orders
and of an exchange's order book, and RyLogViewer, of a log file that another program writes.

## Inventory

### Modelled

| Component | Source | State | Operations | Hard because |
|---|---|---|---|---|
| Coroutine task graph | `include/pr/common/task_graph.h` | pool queue, waiter lists and flags of signals, coroutine frames, `m_pending`, `m_exceptions` | `Add`, `Run`, `Reset`, destructor; per worker: dequeue, `Wait`, `Signal`, throw, raise, completion callback | any number of workers; the flag of a signal is stored outside the mutex of its waiter list; completion is counted outside the mutex of the condition it announces |
| Asynchronous log | `include/pr/common/log.h` | `m_queue`, `m_fence`, `s_fence`, `m_mode`, the consumer's batch | `Enqueue`, `Flush`, `WriteMode`, the consumer loop, destructor | producers and the fence publisher never take the mutex of the waits; fence numbers are drawn before they are pushed |
| Command allocator pool | `include/pr/view3d-12/utility/cmd_alloc.h`, `cmd_list.h` | `m_pool`, the allocator of each list and its sync point | `Get`, `Return`, `Reset`, `Close`, `SyncPoint`, the frame, flush and ray-cast clients | reuse is decided by a number of a fence that must be *the right* fence |
| GPU transfer buffer | `include/pr/view3d-12/resource/gpu_transfer_*.h` | `m_used`, `m_free`, `m_lookup`, reference counts, stamps | `Alloc`, `Add`, sync-point handler, `PurgeCompleted`, destructor | memory is recycled on the strength of one stamp per block |
| GPU descriptor heap | `include/pr/view3d-12/resource/gpu_descriptor_heap.h` | ring, `m_head`, `m_sync`, `m_lookup` | `Add` (tables and views), sync-point handler, `PurgeCompleted`, overflow | modular positions; a tail that must lag the GPU by one mark |
| Deferred release | `keep_alive.h`, `gpu_sync.h`, `renderer.h/.cpp`, `window.cpp`, `resource_factory.cpp` | `m_objects`, `m_sync`, `m_notified`, the fence | `DeferRelease`, `AddDeferredSyncPoint`, `Poll`, `Sweep`, the submissions of frames, factories and ray casts | objects are destroyed long after the last reference goes, by a timer, while the fence moves |
| Exchange orders | `apps/CoinFlip/CoinFlip.Model`: `Exchange.cs`, `Exchange_Binance.cs`, `MonitoredOrders.cs`, `FundHoldContainer.cs`; `ExchApi.Binance/src/WebSocket/UserDataCache.cs` | `Orders`, `History`, the `LiveOrders` table, the holds and balances of each fund, the watched orders, the posted updates; the stream's caches of open orders and of fills | `CreateOrder`, `CancelOrder`, the update thread's round, the stream's messages, `IntegrateDataUpdates`, `CheckForCompletedOrders`, a restart | the exchange fills orders at any time and says so in messages handled in any order; a round reads two caches, one after the other, and its answer is applied later; a reply may be lost after the exchange accepted |
| Order book stream | `apps/CoinFlip/ExchApi.Binance/src/WebSocket/MarketDataCache.cs`, `Rylogic.Net/src/Net/WebSocket.cs` | `m_pending`, `MarketDepth` with its `SequenceNo`, the socket, `Streams` | access, snapshot, message handlers, the loop of `ApplyUpdate`, the end of a socket, `Forget` | a snapshot and a stream of changes meet at a time nobody chooses; messages are posted to a thread pool one by one |
| Line index | `apps/RyLogViewer/src/Model/LineIndex.cs`, `Main.cs` | `m_line_index`, `m_issue`, `m_reload_in_progress`, `m_last_known_file_length`, the dispatcher's queue | tail tick, file change, rebuild, the worker's scan, the merge, the end of a build | builds cancel each other and report late; an incremental build extends what another one left |

How they interact: `GpuSync` is the clock of everything on the GPU side. Its
`AddSyncPoint` raises `SyncPointAdded` (the transfer buffer and the descriptor heap stamp what was
used since the last one), its `Poll`, called by a timer message on the main thread, raises
`SyncPointCompleted` (`KeepAlive` sweeps; the ray cast delivers). `Window::Present` and
`ResourceFactory::FlushToGpu` execute lists and then add a sync point, so the signal is always behind
the work. The task graph's client is `projects/apps/lost_at_sea/src/main.cpp` (SimStep, DoRender): one
graph per phase, reset and refilled every frame. The log is used by every application and shares
nothing with the others. In CoinFlip the update threads and the main thread meet in
`Model.DataUpdates`, a queue of closures that the main thread runs in each tick; bots talk to the exchange
through `CreateOrder`, `CancelOrder` and `MonitoredOrders`, on the main thread. The streams of user data and
of the order books live below that, on the thread pool, under a lock for each cache or book. RyLogViewer's timer, file watcher
and views are on the UI thread; a build is a work item of the thread pool that posts back to it.

What makes each component correct:

* task graph: every scheduled task is resumed exactly as often as it suspends; no task passes a
  `Wait` before the signal; `Run` returns when all is done, with an exception if there was one; the
  destructor joins.
* log: the callback sees what was written, in order, once; `Flush` is a barrier and returns; the
  destructor drains.
* allocator pool: an allocator has one holder and is not reset while the GPU reads it.
* transfer buffer and descriptor heap: nothing the GPU or a reference holder may read is
  overwritten; the space comes back.
* deferred release: nothing a list uses is destroyed; what is deferred is destroyed in the end.
* exchange orders: one hold per known order and none without; no fund pays for another's order; the
  cache of open orders settles on those that are open; a closed order is dropped and its bot told.
* order book stream: the mirror is the book the exchange had at `SequenceNo`, as deep as it was asked
  for, or the stream has said that it is not.
* line index: the lines are consecutive and end where the known file ends; the whole file is known
  once nobody has more to report; a reload, and with it the refusal of the tail, ends unless a later one takes its place.

### Not modelled

| Part | Why |
|---|---|
| `RenderRayCast` results, `ThreadPool` and `DirScanner`, `ConcurrentQueue`, `SpinLock`, `PauseThread`, `WaitState`, `CancelToken`, the scheduler of `coroutine.h`, `Renderer::RunOnMainThread/RunTasks` | planned, see below |
| descriptor store, resource states and barriers, resource store | planned |
| models, scenes, shaders, LDraw | sequential data transformation; what they own over time is in the components above |
| maths, geometry, collision, physics | floating-point algorithms, out of TLC's reach |
| containers, strings, script, storage, networking headers | sequential library code with unit tests per operation |
| audio, input, Win32, GUI wrappers | pure I/O |
| the other C# libraries | a second code base; FileWatch, ShutdownAsync and Log.cs are its asynchronous parts |
| `Exchange_Bittrex.cs`, `Exchange_Poloniex.cs` | wholly inside `#if false`, and `CreateExchanges` (`Model.cs:557-568`) makes only Binance |
| bots and charts of CoinFlip; balances and transfers; back-testing | balances are a second, independent table of the same updates; back-testing replaces the exchange by a simulation |
| the buffer limits, filters and views of RyLogViewer | `CalcBufferRange` bounds one scan; a filter changes which lines there are, not the protocol |
| `sdk/`, generated shaders, build scripts | third-party or generated |

## Modules

| Module | Role |
|---|---|
| `TaskGraph` | threads, queue, signals and coroutines of the graph |
| `TaskOrder` | the abstract promise: no threads, tasks advance one await at a time |
| `TaskGraphInvariant`, `TaskGraphProofs` | the inductive invariant, and the theorems |
| `AsyncLog`, `LogProofs` | writers, consumer thread, fences |
| `CmdAllocPool`, `CmdAllocPoolProofs` | two pools and three fences on one queue, with their clients |
| `GpuTransferBuffer`, `GpuTransferBufferProofs` | blocks, allocations, stamps |
| `GpuDescriptorHeap`, `GpuDescriptorHeapProofs` | the ring of descriptors |
| `DeferredRelease`, `DeferredReleaseProofs` | keep-alive, fence, poll and submissions of one window |
| `ExchangeOrders`, `ExchangeOrdersProofs` | server, user-data stream, update thread and main thread of the Binance exchange |
| `OrderBookStream`, `OrderBookStreamProofs` | the exchange's book, its broadcasts and the mirror |
| `LineIndex`, `LogProofs` | the UI thread, the builds and the growing file |
| `MC*` | small instances for TLC |

The definitions with a suffix such as `RunOffByOne` or `SweepBefore` are variants of the action that
follows them. No specification uses them; they show that a property notices the change.

### TaskGraph

A coroutine is its *script*: the sequence of its `co_await ctx.Wait`, `co_await ctx.Signal` and
throws. `ip[t]` is the resume point, `frame[t]` where the handle is. One action is one access to
shared state, or one critical section in which nothing blocks:

* the pool loop (`task_graph.h:68-90`): `TakeJob`, `Sleep`, `Exit`, `SpuriousWake`;
* `Wait` (330-349) is `WaitReady` when the flag is up at `await_ready`, and otherwise
  `AddWaiter`, which looks at the flag again under the mutex (187-200);
* `Signal` (351-369) stores the flag first; `StealWaiters` takes the list under the mutex, then
  `WakeWaiter`/`Poke` enqueue one handle at a time, because `Enqueue` pushes under its mutex and
  notifies outside it; last the signaller re-enqueues itself (`RequeueSelf`, `PokeSelf`). From
  then on another worker may run it, so the model lets go of the job at that step;
* the end of a task raises its own id, then `DecrementPending` and, at zero, `NotifyDone` under
  `m_mutex`, `LeaveCallback`;
* `Run` stores `m_pending`, enqueues (`RunEnqueue`, `RunPoke`), waits (`RunCheck`, `RunSleep`) and
  rethrows the first exception (`RunFinish`);
* the destructor is `Destroy`, `Shutdown`, `WakeOne`/`WakeAll`, `Join`.

`TaskOrder` is what the usage comment of the header promises. The refinement maps a task in a waiter
list, or taken off one and not re-enqueued, to the abstract task *before* its wait; `AddWaiter`
stutters, and the step that puts the handle back in the queue is the abstract `PassWait`.

### AsyncLog

`Enqueue` is push (`Write`) and then `notify_all` (`WriteNotify`): nothing is held in
between. A wait with a predicate is two steps, the test, which leaves the mutex held, and the
sleep, because the things the predicate reads change without the mutex. The consumer's step
for an event is one of `JoinBatch`, `StartBatch`, `LogEvent`, `ReachFence`, `ReachSentinel`, from
the branches of `log.h:296-350`. `history` and `due` record what was pushed and what a `Flush` must
wait for. The write mode can be toggled at any time, as `WriteMode` can be called.

### CmdAllocPool

The queue holds lists and signals, executed in order by `GpuStep`. `ResetList` is
`CmdList::Reset(pool.Get())`: take an allocator whose stamp the pool's fence has reached, whichever
`std::partition` left at the back (or create one), and then give back the one the list had. The order matters: the new one is taken
while the old one is still held. Clients: `NewFrame` / `RecordList` / `Present` / `PresentSignal` (a
window, with the wait for the back buffer), `FlushWindow` (the wait in a resize), the
factory's `FlushToGpu`, and the ray cast, whose list draws on the window's pool and is stamped
with a number of another fence. A list is
`"signalled"` once it is executed and stamped, and may then be recorded again.

### GpuTransferBuffer

A block is `[id, cap, size, stamp]`. `Alloc` is purge, `EnsureCapacity`, consume; `Add` puts a shared
item in the lookup. `AddSyncPoint` is `GpuSync::AddSyncPoint` with this buffer's handler run inside.
`lastUse` is a history variable: the sync point that finishes the last commands that read the block.
The stamp of a block and its `lastUse` differ when a batch fills a block and goes on in the next:
that is the finding below. `Take` covers a recycled block in whatever order the free list is
searched. A block never used carries the stamp of the moment it was put in the deque
(`Restamp`).

### GpuDescriptorHeap

`marks` is `m_sync`: the head at each sync point. `PurgeCompleted` drops a mark when its *successor*
is complete. `Add` finds the table in the lookup or writes it at the head, after rolling the head
to 0 if it would not fit before the end. `inUse` remembers each handle with the sync point its
commands finish at. The overflow is modelled as the code has it: the head is rolled
before the second test throws.

### DeferredRelease

`queue` is the direct queue: submissions of frames (a signal of the renderer's fence behind them),
of factories and ray casts (none of that fence). `Draw` adds to the frame being recorded, which holds no
reference. `DropAt` is the end of the last reference. `Poll`, `PollNotify`, `Sweep`, `PollLeave` are
the iterations of `GpuSync::Poll`, split where the fence is read, because `GpuStep` may come at any of
them; `Sweep` reads the fence itself, so it may release for a later point than was notified.
The factory works on its own thread; its `KeepAlive` lets go only in the destructor, after a blocking
flush. Objects are the D3D resources; root signatures are deferred the same way. There is one window: what a
second one would submit in between is covered only as far as factories and ray casts are like it.

### ExchangeOrders

What runs is Binance: `CreateExchanges` makes no other (`Model.cs:557-568`), and the files of the other two
are inside `#if false`. The server is `live` and `fills`, changed by `Fill`, `Accept` and
`Cancel`, which send a message if the stream listens.

The program hears of orders through a `UserDataStream`, which has two caches. `MakeStream` asks for the open orders,
`OpenStream` opens the socket after that, and `CloseStream` is its end or an error, after which the next
access makes a new one. A message is a work item of the thread pool, so messages are handled in any order; each is two
steps, `HandleOrders` and then `HandleHistory` (`UserDataCache.cs:309-316`), with no lock over
both. `ListedAfter` follows the code to the letter: the message that ends an order is looked up by its
*original* client order id (435), which is the order's own in a cancellation; whether it is in a fill is up to
the exchange, and chosen once (`named`). `HandleHistory` keeps a fill with the quantity
of the whole order (790), and makes an empty list where there was none (496), as the code does.

The update thread's round is `StampRound` (the time, taken first), `ReadOrders` (the first cache, or the
server's answer if there is no stream), `ReadHistory` (the second, since the stamp of the last round) and the
post; `UpdateFails` is the exception that skips a round. A stamp is only ever compared with times, so the model
keeps in its place the orders created and the fills made before it; the clocks of program and server are taken to
agree. The main thread creates and cancels with a blocking call: `CreateOrder` up to the request, `OrderPlaced` or
`CreateFails` after the reply; `CancelOrder`, which needs the order listed, and `OrderCancelled` or
`CancelFails`. A lost reply is `CreateFails` after `Accept`. `Integrate` is one update and all it
does: `Recorded` (`AddToTradeHistory`), `Closed` and `SyncedHolds` (`SynchroniseOrders`) and the debits
of `ApplyCompletedOrderToFund`. `CheckForCompletedOrders` is the bots' report. `Restart` keeps the tables. There is one
pair of currencies, and trading is allowed (`AllowTrades`).

`owner`, `missed` and `settled` are history variables. `missed` are the orders of which the stream did not get every
message, because something happened between its query and the opening of its socket, or of which it handled the
last message before the first. `settled` are those that were closed when a stream was last made.

### OrderBookStream

The server numbers its changes; a level holds the number of the last change that touched it, so
"what the book was after change n" is `past[n]`, and a broadcast is a range of changes and the levels
they left. A change puts an offer at a level or takes it away (`removals`). The snapshot is of the best `Depth` offers of
each side (`Answer`), as the code asks for 1000 (`MarketDataCache.cs:108`): what lies beyond is not in the
mirror until it changes. It is taken when the server answers, which is assumed to be never before the opening
of the stream: the code does not check that, and a REST answer from a server behind the stream would lose
changes without a gap. `posted` is a set because the socket's thread posts every message to the pool on its own.
`HandleMessage` is `ApplyUpdate` up to its loop, under the lock; `ApplyNext` is one round of the
loop. A round is a step of its own so that the server, the socket and other accesses come between; no
other handler does (`applying` is the lock). `SocketCloses` forgets the messages in the pool; in the code a handler that
waits for the lock just then still applies its own, to a book nobody reads once the stream is replaced.

### LineIndex

All lines have one width, so a file is its length, and the lines of a range are arithmetic
(`LinesIn` is what `FindLines` returns, the unfinished last line included). A worker is
the data `Build` hands over; `ScanFile` reads the file as long as it is then and posts two items, the lines
and the end, for which `MergeResults` and `BuildDone` are the UI thread's turns. An incremental
build starts from the index as it was when it was asked for (`lines`, `centre`, `count`), and the
merge meets the index as it is when it arrives. The two posts are one step: nothing reads the queue
but the UI thread. `astray` and `lost` are history variables that say when the code's own
assumptions (less than half the cache appended, no refused or failed build) did not hold. `settings` takes all
values; with the timer and the watcher both off nobody tells the viewer that the file grew, so
`QuietKnowsAll` speaks of the other three.

## Runs

| Run | Question | Bounds | Result |
|---|---|---|---|
| `taskgraph` | Are handles never doubled or lost, signals never missed, dependencies kept; do `Run` and the destructor end, is `Run` complete, and does the graph implement `TaskOrder`? | 2 workers, 3 tasks of which two throw, a phase signal two wait for, two alternating frame shapes, unbounded frames | holds |
| `asynclog` | Order, barrier, drain | 2 writers, 4 writes of 2 messages, batches of 2, 2 flushes, fences of 16 bits | holds |
| `asynclog_flush` | Does `Flush` return? | 1 writer, 1 flush | violated |
| `cmdalloc` | Are allocators of frames and flushes reset only when idle, and held once? | a window of two buffers, one frame list, one flush list, one ray cast; 3, 2, 1 sync points | holds |
| `cmdalloc_ray` | The same for ray casts | a frame list and a ray cast | violated |
| `transfer_buffer` | One place per block, held memory stays, lookups are current, the destructor waits | 3 blocks of 3 units, sizes 1 and 4 (larger than a block), alignment 2, 3 sync points, 2 held allocations | holds |
| `transfer_reuse` | Is a free block finished? | the same, one size | violated |
| `descriptor_heap` | Are descriptors in flight intact, and does an idle heap have room? | 6 slots, tables of 1, 2 and 3, single views, 4 sync points | holds |
| `deferred_release` | Is nothing released that is used, no notification lost, everything released in the end? | 2 resources, 3 sync points, 3 submissions in flight | holds |
| `exchange_orders` | One hold per known order, no fund touched for another's order, the cache of a quiet stream is what is open, orders closed before a stream was made are dropped for good and reported? | 1 order of 1 fill, 2 funds, 1 update waiting, 1 restart, any number of streams | holds |
| `book_stream` | Is the mirror the server's book, as deep as the snapshot went, unless a gap was reported; is a gap only reported after an overtaking; does nothing go back; does what arrives end in the book? | a side of 3 levels, snapshots of its best offer, 4 changes, a buffer of 3, 2 streams | holds |
| `line_index` | Are the lines in order and complete up to the end, is the reload flag exact, is the whole file known at rest, does a reload end unless a later build cancels it? | lines of 3 bytes, 5 file lengths, a cache of 3 lines, 3 builds | holds |

Why the bounds are enough. In the task graph two workers give every race the code has: one thread
adds itself to a list while another raises; one finishes last while Main checks. Three tasks let a
list hold two waiters and a raise wake some before others. Frames are not bounded, so what one
frame leaves behind meets the next. In the log, two writers can push fences in the other
order than drawn, and four writes make full, partial and broken batches of two. In the
allocator pool three sync points are one more than the buffers of the swap chain, so each
is reused. Three blocks of the transfer buffer are one at the front, one spanned by a batch, and one
recycled. Six slots let the ring roll over with a batch in flight on both sides of the end. Two
resources and three sync points give a resource deferred before, between and after two
frames in flight. One order is enough for the exchange, because updates treat orders one by one and
only the creation is exclusive; the invariants were also run with an order of two fills (four million
states), and the liveness with two updates waiting. A restart, a stream that may be made anew at any time and an update
that waits while the caches change let a stale one bring back what a cancellation took away. Three levels and a
snapshot of one offer leave one level inside it, one that comes in when the best offer goes, and one outside;
four changes and a buffer of three let messages arrive before, across and after the snapshot,
overtake each other, and fill the buffer; a second stream meets what the first left. Two sides of two levels with four
changes, and one side of two levels with five, were also run (two million states each). Three builds let one be cancelled by the next while a third is asked for; the lengths contain an
empty file, one that ends in the middle of a line, and steps of less and of more than half the
cache (six lengths were also run). The program sets no limit to the builds, each of which cancels the one before;
`MaxBuilds` only ends the run, and no property holds because of it. The bound on blocks, sync points, writes or queue length is a conjunct of the
action that would exceed it, and named in the module's `CONSTANTS`.

`CHECK_DEADLOCK FALSE` stands where a bound stops the model (sync points or blocks used up), where
the program may really come to rest (the exchange, the streams and the log file once nothing more
changes) or where a component ends by being destroyed. The
log's and the task graph's passing runs check deadlock: their ends are explicit (`Finished`, `Gone`).

### Fairness

* TaskGraph: weak fairness of each worker, of `Run` and of the destructor: an operating system
  runs a thread that can run. `CollectException` and `NotifyDone` acquire `m_mutex`, which others
  take too, so they are strongly fair. The client's calls and spurious wake-ups are not fair.
* AsyncLog: weak fairness of threads inside a call, strong fairness of acquiring `m_mutex`; a writer
  need never write, and a spurious wake-up is never promised.
* DeferredRelease: weak fairness of `GpuStep` (the GPU executes what it was given), of `Poll` (a
  timer queue posts `WM_PollTasks` for as long as a callback is registered, and the message loop
  runs) and of the steps inside one `Poll`. Nothing promises that the application presents again, so
  `ReleasedAtLast` speaks of sync points already added.
* ExchangeOrders: a call to the server ends in an answer or an exception, the making of a stream included; rounds are
  started by a timer (weak fairness). Reading the two caches, the integration and the bots' check are strongly
  fair, because a stream in the making, an exception or another action of the main thread can come between, though
  not for ever. `[]<>(queue = <<>>)`: the main loop runs what is posted every 10 ms until nothing is left
  (`Model.cs:575-605`), and rounds are at least 100 ms apart. Nothing is asked of the thread pool, of the exchange,
  or of a stream, which need not ever open.
* OrderBookStream: the pool runs what is posted and a handler under the lock goes on. Nothing is
  promised of the server or the socket.
* LineIndex: the pool runs its work items (a scan ends or throws) and the dispatcher its queue. Neither
  the file's growth, the tail timer nor the watcher is fair: `QuietKnowsAll` speaks of states
  in which they have nothing left to say. `ReloadEnds` speaks of a reload that no later build cancels.

## What is proved

TLAPS checks these for every value of the constants that satisfies the named assumptions.

**AsyncLog** (`LogProofs`; any writers, messages, batch size and number of events). What is pushed is
compared with what comes out through `Payload`, the messages of a queue, which is a function by
recursion: that it takes an event off the front or puts one on the back as it should is shown by induction
(`PayloadCons`, `PayloadAppend`), and the induction by the least element of a set of numbers
(`Least`, `Ascent`), because the library's own theorem of induction has an operator as parameter. `IInv`
is `InOrder` with what it needs: the batch and the event in hand are messages (`HandInv`), and
once the destructor runs no writer is in a call, so the sentinel is the last event and nothing is left when
it was handled (`EndInv`). `DrainedAtEnd` follows.

`FlushIsBarrier` says nothing of the queue, and fences in it may be many. `BarrierInv`: every fence, in
the queue, in hand or published, has ahead of it what each writer waits for that it would let through. A new
fence is drawn above all others, so it lets only its own writer through; it is drawn before it is pushed, so fences
may be out of turn in the queue, and the invariant does not need them in turn. It holds as long as fewer
than `FenceRange` (2^16) fences are drawn, which is the hypothesis `Few` of the theorem: after that the
numbers wrap, and an old number lets a new writer through (see below).
Proved: `IInv`, `TypeOK`, `InOrder`, `DrainedAtEnd`, and `FlushIsBarrier` under `Few`: all that the
runs check but the liveness.

**TaskGraph** (`TaskGraphProofs`; any finite set of workers, any tasks, scripts and
programs without repetitions). `IInv` (`TaskGraphInvariant`) says where each handle is:
`frame[t]` is `"queued"` exactly when `t` is in the queue, `"waiting"` when it is in exactly one waiter
list, `"stolen"` when in exactly one list being woken, `"running"` or `"final"` when exactly one worker
holds it. None of `NoDoubleResume`, `NoLostTask`, `RunComplete` is inductive: each talks of one pair
of places, and a step moves a handle between places. `PendingInv` says `m_pending` is the number of
tasks of the frame not counted out, from which `TypeOK` (never below zero) and `RunComplete` follow.
`DependencyInv` is kept on top of it. `PassedInv` cannot say that a task is past a wait only for a
signal that is set, because a waiter's `ip` moves on when it is put in the list; so it excepts the last wait of
a task in state `"waiting"`, and `ParkedInv` says whose list that is, so that a `Raise` that takes the list makes it
true. `RaisingInv` carries the flag from the store to the taking of the list, `ThrownInv` keeps a
task that has thrown from being resumed, and `SetByTask` says who set each flag: cleared by
`Reset`, so the last frame's flags are none of them. `DependenciesHold` follows.

The refinement, with both invariants: a `Signal`, a `Throw` and a `Complete` are the steps of that name (`End`
for the last). `PassWait` is `WaitReady` or `AddWaiter` where they find the flag set, and `WakeWaiter` for a task that
was parked, whose flag is up by `PassedInv`. `Run`, `RunFinish`, `Add`, `Reset` and `Destroy` are
the client's calls: `Return` needs that everything has ended and that the exceptions are those of
the tasks that threw, which is `MainInv` and `ExceptionInv`. Every other step leaves `PosOf`, `ThrewOf`, `EndedOf`
and `RaisedOf` as they are (`StutterSteps`).
Proved: `IInv`, `TypeOK`, `NoDoubleResume`, `NoLostTask`, `NoMissedRaise`, `RunComplete`,
`DependencyInv`, `DependenciesHold`, and `Spec => KeepsPromise`.

**GpuDescriptorHeap** (any size, tables, number of sync points). `Intact` needs the geometry of the
ring. `Dist` measures from the oldest mark; marks come in order (`MarksInOrder`), and each handle in use
or in the lookup lies behind every mark of an earlier batch and before the head (`Behind`). A purge
moves the origin to a mark that every handle still in use is behind; an `Add` writes between
head and origin, where no handle is. Proved: `IInv`, `TypeOK`, `Intact`, `IdleHasRoom`.

**GpuTransferBuffer** (any block size, sizes, alignments, bounds). The block at the back
carries the last sync point (`BackIsStamped`), so a new stamp is never lower than those before it
(`StampsAscend`) and the destructor's last wait is for everything (`DestroyedWhenIdle`, with
`EmptyMeansDone`). Where memory is handed out needs `Places` beside it: every block created is in one
list, what is held lies within what its block has given out, and a block to recycle gives out nothing, so
whichever way `EnsureCapacity` finds room, the room lies behind all that the block holds
(`RoomPlaces`), and a purge takes only blocks nobody refers to (`PurgePlaces`). Proved: `IInv`, `TypeOK`,
`StampsAscend`, `LookupIsCurrent`, `DestroyedWhenIdle`, `OnePlace`, `HeldStaysAlive`.

**DeferredRelease** (any resources and bounds). `AliveWhileUsed` is not inductive: dropping a reference
must find the object kept for long enough. `IInv` says that points in the queue ascend and are ahead
of the fence (`PointsAscend`), that what a submission uses is held, or kept for a point that is not yet
added or stands at or behind that submission (`UsesAreKept`), and the same of the frame being
recorded (`FrameIsKept`). A sweep for a completed point then cannot touch them.
`SweptWhenNotified` has a small invariant of its own in the proofs module. Proved: `IInv`, `TypeOK`,
`AliveWhileUsed`, `SweptWhenNotified`.

**ExchangeOrders** (any orders, funds, number of fills, updates waiting and restarts). `IInv` adds to the
types: an open order has fills left, an order nobody created is nowhere (not live, listed, recorded, held
or debited), the main thread is blocked on an order of its own, and `FundsAgree`: the table, the
orders, the history and the debits name one fund for an order, its owner or the
remainder. `HoldsMatchOrders` is not inductive alone: a creation in progress has a hold without an order id
(`Blocked` says whose, `NilHolds` that there is no other).

`StreamInv` is kept on top of it, for `QuietListingIsLive`. `MailInv` says what may be on its way about an
order: nothing without an open stream; the message that it is new once at most, the one that ends it only
once it is closed. `CacheInv`: an order that was not missed is in the cache from when the message that it is
new is handled, or from the query if it was open then, until the message that ends it is. An order that nothing
is outstanding about has then either both behind it, or the first only and is open.
Proved: `IInv`, `TypeOK`, `HoldsMatchOrders`, `OwnFundOnly`, `StreamInv`, `QuietListingIsLive`: all
that the run checks but the liveness.

**OrderBookStream** (any sides, levels, depth of the snapshot and bounds). `MessagesTrue`: a message carries what the server's book
was at its end, and names every level that changed in its range. `PastMovesOn`: levels of the
server never go back and change only by one change. With these `BookTrue`, the mirror's relation to
`past[seq]` before and after a gap (`Missing` is what the snapshot left out), is preserved by a round of the loop. `GapMeansOvertaken` needs more: the
messages on their way cover disjoint ranges, those buffered are older than those posted as long as
nothing was overtaken, and nothing is missing between the snapshot (or the stream's
opening) and the next message. Proved: `IInv`, `TypeOK`, `BookIsExact`, `NeverAhead`, `NeverBack`,
`GapMeansOvertaken`: all that the run checks but the liveness.

**CmdAllocPool** (any finite disjoint sets of frame, flush and ray cast lists, any sync points, at least one
back buffer). An allocator that may be reset carries a stamp its pool's fence has reached, so
`ResetOnlyWhenIdle` needs to know what a stamp covers. `StampsCover`: wherever the allocator of a
frame or flush still queued is, in the pool or with a list, a signal of the pool's fence up to that
stamp stands behind it in the queue, or its list was executed and the signal is still to come. `SignalsAscend` makes
a reached point one with no such signal left, `FrameStates` says which lists wait for their
signal at each point of a frame, and `OneHolder`, that a stamp is in one place. `BackBufferCovers` is the
same of the back buffer for `RenderTargetFree`. Nothing is claimed of the ray casts' own
lists: that is what `RayCastKeepsAllocator` refutes. Proved: `IInv`, `TypeOK`,
`ResetOnlyWhenIdle`, `OneHolder`, `RenderTargetFree`.

**LineIndex** (any line width, cache, lengths of the file and number of builds). Its proofs share
the module `LogProofs` with those of the log, which extends both modules; that is why the initial predicate,
the next-state relation and the types are called `IndexInit`, `IndexNext` and `IndexTypeOK`. There are
three invariants, each on top of the one before:

* `IndexInv`, the protocol, whichever lines a scan finds. `OneEach`: a build is in the pool or has posted
  its end, and has an issue of its own, so the end that `BuildDone` compares with `m_issue` is that of the latest
  build or of none that matters. `LatestKnows`: once the latest build has left the pool, what it posted
  carries the present length, or was merged with it, unless something was lost or is still to be
  reported; a tick whose build is refused is lost, and a file change is never refused. Proved from it:
  `FlagMeansReload`, `QuietKnowsAll`.
* `OrderInv`, the lines. The index, and what every build posts, is a *run*: byte ranges in order without overlap
  (`Run`), no longer than the cache, in the part of the file that was scanned; and no message
  in the queue knows less of the file than the one before it, so a merge never shortens it. `ScanRun`
  and `BuildRun` say it of a scan, whatever position, index and direction it was asked for, `MergeRun` of the four
  ways to merge. Proved from it: `IndexTypeOK`, `Ordered`.
* `LatestInv` and `ShowInv`, the end of the file. `LatestInv`: the latest build was asked of the index as it is
  (nobody else may change it before that build is merged), and its lines are what `BuildAsync` finds from
  there. `ShowInv`: unless `astray`, the index is `LinesFrom(k, fileend)` for some line `k` that is the first one
  or leaves as many as the cache holds. `WholeScan` and `RightScan` say which lines a scan near the end
  finds; `JoinLines`, `LastLines` and `FrontLines` cut and join the lines of a file at line starts; `MergeShown` is the
  merge at the last line known, whose end may have moved; `NearMerge` puts them together. That
  less than half the cache is left ahead (`Near`) is used three times: the forward
  direction does not fill up, the backward one cannot when it is the shorter (`FwdLines <= BwdLines + 1`), and an
  increment reaches the end. Proved from it: `ShowsTheEnd`.

Only model-checked: all
liveness (`RunReturns`, `FlushReturns`, `GoneForGood`, `DestructorJoins`, `ReleasedAtLast`, `EndsInBook`, `ReloadEnds`), which the
prover does not reach. Every invariant and action property of a passing run is proved.

## Where code and comments disagree

Shown by a run:

* `log.h:435`: `Flush` pushes its fence and notifies nobody, so with the consumer asleep it waits
  until somebody else writes (`FlushReturns`).
* `render_raycast.cpp:214`: an allocator of the window's pool is stamped with the ray cast's
  fence (`RayCastKeepsAllocator`).
* `gpu_transfer_buffer.h:59`: a block a batch filled before the last one is recycled one batch too early
  (`FreeIsFinished`).

Stated in the modules and refuted by TLC in a few steps, without a run kept for them:

* `task_graph.h:490-503`: a worker may still be inside the completion callback when `Run` has
  returned, and the graph's members are destroyed in an order that takes the mutex and condition
  variable away before the pool joins that worker (`CallbackInLifetime`).
* `task_graph.h:276-282`: an exception before a phase signal leaves the waiters of the signal
  suspended, so `Run` never returns and never rethrows (`ExceptionPropagates`).
* `MonitoredOrders.cs:109-110`: "the order must have been cancelled". The time an order is stamped with is read
  before it is submitted (`Exchange.cs:634`), and a listing comes from a cache. A round stamped after that and read before the message of the
  order was handled does not list it and is newer than it, so
  `SynchroniseOrders` (954) drops a live order with its hold, and `MonitoredOrders` tells the bot that
  it was cancelled, though `Exchange.cs:669` says the order is added at once "so that there is no race
  condition" (`CancelledMeansCancelled`, nine steps; the order comes back with a later update, but
  without its row in `LiveOrders`, so on the remainder).
* `Exchange.cs:532`: "Do orders and history together so there's no chance of a position being filled
  without it appearing in the history". The caches are two, and a message changes the orders first; a round that
  reads between the two finds a filled order in neither. A message of any kind before the first read leaves an empty
  list that is never asked from the server (`FilledIsInHistory`, twelve steps).
* `TradeCompleted.cs:58`: "The amount of currency sold". A fill that comes with a message carries the quantity of the whole order
  (`UserDataCache.cs:790`), so an order filled in two parts is recorded, and debited, twice (`FillsAsTraded`
  with `Units = 2`, thirteen steps).

Met while reading, without a run of their own:

* `log.h:130`: 16-bit fence numbers compared with `>=` wrap. With `FenceRange = 4` TLC refutes
  `FlushIsBarrier` at the fifth fence.
* `log.h:422`: the sentinel's notification can fall between the consumer's test and its sleep, so the
  destructor's join waits for ever. The model has the step; a
  liveness property of it would fail like `FlushReturns`.
* `gpu_descriptor_heap.h:272-285`: the head is rolled to 0 before the second test throws, and a table
  larger than half the heap may be refused by an idle heap ("heap is full"); `IdleHasRoom`
  states what is true.
* `render_raycast.cpp:114-122`: the handler reads the fence for each pending result and again in
  the erase; a result that completes in between is erased without being processed.
* `renderer.cpp:309` says the deferred deletions are flushed in the destructor; nothing is flushed. The
  windows and factories have waited for their fences by then, so `Destroy` is harmless.
* `keep_alive.h:47`: `m_objects` has no lock, and factories on worker threads can reach it when a
  temporary model dies there.
* A factory's `GpuSync` is never polled, so its `KeepAlive` holds everything until the factory ends.
* `Exchange.cs:724`: cancelling an order that was partly filled drops it, and the fills it had are never
  debited from its fund.
* `UserDataCache.cs:121`, `:130`: what happens to an order between the query for the open orders and the opening of the socket
  is not heard of until the stream is made anew, and a message that an order is new, handled after the one that
  ends it, leaves it listed as long. `QuietListingIsLive` leaves these orders out, and says so.
* `UserDataCache.cs:435`: an order is removed by its original client order id; if the exchange leaves that out of
  the message of a last fill, a filled order stays listed, with its hold.
* `MonitoredOrders.cs:103-118`: after a restart the watched orders are looked for before the first update
  arrived, so they are reported cancelled; and what closed while the program was down is recorded
  but never debited.
* `Exchange.cs:250`, `:287`: the update loop is `async void`, so joining its thread waits for nothing.
* `MarketDataCache.cs:107`: "a full snapshot", but line 108 asks for the best 1000 offers of each side. Offers beyond these
  come into the mirror only when they change, and no gap is reported. `BookIsExact` leaves them out, and says which.
* `MarketDataCache.cs:111`: the constructor does not drain the buffered updates; they are applied with
  the next message. `MarketDataCache.cs:84`: `Forget` does not dispose the socket.
* `WebSocket.cs:181`: the end of a connection is handled at once and overtakes messages that were posted to the pool.
* `LineIndex.cs:338`: "so that any unused cache space is used by the search in the other direction", but a direction that reaches its limit makes
  `FindLines` return false, and the other is not scanned. The model follows the code.
* `LineIndex.cs:373`: an incremental scan starts at the new position when more than half a cache
  of lines was appended, so the index gets a hole, which the merge expects not to be there (175,
  "contiguous"). `ShowsTheEnd` is stated for smaller steps, and `astray` says which they are.
* `LineIndex.cs:377`: the direction of an increment is computed against the size of the cache, not the
  number of lines there are.
* `Main.cs:297`, `LineIndex.cs:98-102`: each change of the file starts a reload that cancels the one before, and the
  lines of a cancelled build are not merged. On a log that changes faster than a reload takes the
  flag never comes down, the tail is refused all the time, and nothing new is shown.
* `Main.cs:271`: a tick during a reload notes the new length although its build is then refused, so what was
  appended shows with the next change only.
* `Main.cs:259`, `:297`: a reload before the first merge is placed at byte 0, so a log opened at its end shows its
  start. `Main.cs:199`: a change between the first build's read and `StartFileWatcher` is not noticed.
  `Main.cs:299`: the event of a file that is locked is dropped.

## Plan

Done: TaskGraph with TaskOrder, AsyncLog, CmdAllocPool, GpuTransferBuffer, GpuDescriptorHeap,
DeferredRelease, ExchangeOrders, OrderBookStream, LineIndex, and the proofs above.

Next, in this order:

1. `RayCastQuery`: pending results, the handler and its two reads of the fence.
2. `ThreadPool` (`threads/thread_pool.h`): the task variable that keeps its target after a failed pop,
   notifications without the mutex, `WaitAll`; then `DirScanner` as a client. Its own test says "There
   is a race condition in here somewhere. This test sometimes never ends".
3. `ConcurrentQueue`, `PauseThread`, `WaitState`, `CancelToken`, `SpinLock` as one module of
   primitives, and the scheduler of `coroutine.h`.
4. `MainThreadTasks`: `RunOnMainThread`, `RunTasks`, `LastTask`, the list of poll callbacks.
5. `DescriptorStore` composed with `GpuDescriptorHeap` (an index given to another descriptor
   while the lookup still knows it); `ResourceState` and its barriers; `ResourceStore`.
6. An abstract GPU job ("memory handed to the GPU is not reused before the job is done") that
   CmdAllocPool, GpuTransferBuffer, GpuDescriptorHeap and DeferredRelease implement.

Theorems worth proving next: that `GpuTransferBuffer` and `GpuDescriptorHeap` implement the abstract GPU job of item 6.
