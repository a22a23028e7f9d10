# A formal model of the graphic_2d render service

TLA+ modules, TLC configurations and TLAPS proofs for the OpenHarmony 2D graphics
repository. Paths are relative to the repository; `vsync/` stands for
`rosen/modules/composer/vsync/src/`, `hgm/` for
`rosen/modules/hyper_graphic_manager/core/frame_rate_manager/`, and `core/` for
`rosen/modules/render_service/core/`.

## 1. The system

The render service composes what applications draw. Every frame is paced by a
software VSync: a generator derived from the panel's own VSync, from which
distributors send events to applications and to the render service's main
thread. The application builds a transaction, the service applies it to its
render tree, synchronises the tree to a render thread, draws, and hands layers
to the display.

| Component | State | Operations | Hard behaviour |
|---|---|---|---|
| VSyncDistributor, VSyncConnection | list, map and counters of connections; per connection rate, Qos rate, trigger and pulse phase; VSync on or off | add, remove, request, set rates, trigger, post | binder threads against the generator thread; a dying client; turning VSync off while someone asks |
| VSyncController, VSyncGenerator | listeners, mode, rate, changes that wait, reference time | add/remove listener, change mode, rate or phase; the thread's loop | changes merged or overwritten before they take effect; waking up |
| VSyncSampler | samples of hardware VSync | add sample, begin, reset | numeric; hand-over to the generator |
| VSyncReceiver, LocalSocketPair | socket, request flag, frame callbacks | request, read, run callbacks, close | lost, merged and late events; closing in mid-dispatch; callbacks added while others run |
| HgmFrameRateManager, HgmVSyncGeneratorController | current and pending rates, rates per linker | a frame's computation, the task it posts | the task reads fields the next frame overwrites |
| Frame-rate votes, touch, idle, multi-app | vote records, touch state, timers | deliver a vote, touch up and down, time-outs | timers racing events |
| Transactions: RSRenderServiceConnectionProxy and Stub, RSUnmarshalThread, RSMainThread | indices, two maps of data, index reached and wait time per process | number and send, unmarshal in place or by another thread, merge, apply in order, skip after a time-out | order of arrival, gaps, a barrier between threads, data posted behind it, death of a client |
| Synchronous transactions | counts per process, sync id | collect, apply all, fallback task | stale time-outs, stragglers |
| Main thread, UniRender thread, hardware thread | render tree, its copy, layers | prepare, sync, unblock, draw, commit | two threads on one tree; back-pressure |
| UIFirst and sub-threads | processing state of cached windows | submit, draw, take over, skip | a wait that times out; a state seen too late |
| Screen manager, HDI back end | screens; buffers cached per layer, fences | hot plug, power, commit | disconnect in a frame |
| Event queue | events by priority, descriptors | pick, run, remove | starvation; removal while queued |
| SurfaceImage | slots, current buffer, fences | attach, update, detach | errors half-way |
| Render tree, properties, animations | nodes and modifiers | add, move, remove; animate | long sequences |
| Drawing, text, effects, EGL/Vulkan wrappers, boot animation, profiler | - | - | sequential data transformations, facades and diagnostics |

How they interact. `HgmFrameRateManager` (main thread) decides rates and posts a
task that changes the `VSyncGenerator` through `HgmVSyncGeneratorController`.
The generator thread calls each `VSyncController` that is enabled, which calls
its `VSyncDistributor` (one for applications, one for the render service), which
writes to the sockets of its connections. A client's event loop reads its socket
and runs the receiver's callbacks, which request the next event over IPC. The
main thread itself waits on such a receiver, and sends Qos rates of windows
(`NotifyVSyncRates`) to the application distributor.

What makes each part correct, in a sentence: whoever asked for an event gets one
and nobody else keeps VSync on (distributor); a flag that says an event is coming
is true (receiver); rates that were decided arrive, and arrive together
(frame-rate manager); commands of a process are applied once and in order
(transactions); no thread reads what another is writing (hand-over, UIFirst);
every buffer is released, once and in time (hardware and UniRender thread,
SurfaceImage).
`PROJECT.json` lists all components and hazards with their lines.

## 2. Modules

| Module | What it is |
|---|---|
| `VSyncDistributor` | distributor, connections, controller and the generator's listener list |
| `VSyncDistributor_proof` | its theorems |
| `VSyncService` | what a distributor promises its clients, in sets of who is owed and who was sent an event; abstract |
| `VSyncService_proof` | that `VSyncDistributor` implements it |
| `MCVSyncDistributor` | values of its structured constants, for TLC |
| `VSyncChannel` | one connection: PostEvent on the socket, the receiver, the event loop; it is checked as it is |
| `VSyncChannel_proof` | its theorems |
| `FrameRateChange` | a change of rate from the manager to the connections |
| `FrameRateChange_proof` | its theorems |
| `MCFrameRateChange` | a symmetry set, for TLC |
| `TransactionOrder` | transactions from the client's proxy to their execution |
| `TransactionOrder_proof` | its theorems |
| `TransactionService` | what the clients of the render service are promised about their transactions; abstract, implemented by `TransactionOrder` |
| `MCTransactionOrder` | values of its structured constants, for TLC |
| `FramePipeline` | what the threads that make a frame promise each other; abstract |
| `FrameHandOver` | main, UniRender and hardware thread, with their locks, queues and wake-ups; implements `FramePipeline` |
| `FrameHandOver_proof` | its theorems, the refinement among them |
| `MCFrameHandOver` | `FrameHandOver`, for TLC |
| `SurfaceBuffers` | the buffers of one surface node, composed with `FramePipeline` |
| `SurfaceBuffers_proof` | its theorems |
| `ShownBuffers_proof` | the proof that no buffer is released while the screen shows it, on top of those theorems |
| `MCSurfaceBuffers` | a symmetry set, for TLC |

An operator whose comment begins with "Mutant:" is not part of the model. It is a
definition as a plausible mistake would have it; replacing the definition after
it by the mutant makes a property fail (`PROJECT.json`, "mutants").

### VSyncDistributor

A step is one critical section of `VSyncDistributor::mutex_` or
`VSyncConnection::mutex_`. The generator thread's place between sections is `pc`:
it copies the listeners ("wait" to "trigger", `ListenerVsyncEventCB`), collects
connections under the lock (`OnVSyncTrigger`, which also applies changed rates
and turns VSync off if nobody waits), and then without the lock posts to one
connection after another ("post", "result"). `RequestNextVSync` has two steps,
as it tests `isDead_` under one lock and arms the connection under another; any
number of such calls may be in between. A connection is created in two steps
(constructor, `AddConnection`) since `CreateVSyncConnection` waits for the main
thread in between and the client may die there.

Both modes are modelled: LTPS divides by `vsyncCount`, LTPO by pulses. Counters
that grow without bound are kept as what is read of them: `vsyncCount` modulo a
common multiple of the rates, and the pulse counts as their difference modulo
the connection's frequency.

Left out: DVsync (`RS_ENABLE_DVSYNC`; its class is not in the repository), phase
offsets and time stamps, and the failure of the constructor to create a socket.
`ChangeRefreshRate` is `UpdateChangeDataLocked`: the generator's rate and the rates
of connections are two independent changes, and either may come without the other.
A connection that follows a rate, gets none with the change and has none waiting
(`LeftBehind`) counts pulses from then on that may never bring its phase back to
zero, unless the new rate is a multiple of the old one. The history variable
`stranded` has those connections until the next rate given to them is applied
(`OnVSyncTrigger`); `PulseAligned` and `RequestAnswered` except them, and nobody
else. `FrameRateChange` shows when the frame-rate manager lets it happen
(`RatesWithChange`).

### VSyncService

A member that asks is owed one event, or periodic ones; an event goes out to some of
those who are owed one and uses a single request up; it then arrives at one after
another, or is refused by a full socket and owed again; a member may leave at any
time; and the service rests only when nobody is owed anything. That whoever is
owed an event gets it in the end is `RequestAnswered`. `VSyncDistributor!Service`
reads what is owed off the connections' counters (`Wanted`, `OwedTo`), so that
neither mode's way of counting nor the locks appear in what is promised.

### VSyncChannel

The server's half is `PostEvent` step by step: test `isDead_`, send, on a full
socket take one message back and send again, and the distributor's reaction to the
result. The client's half is the receiver's request (its `initMutex_` is held
from the flag to the call), the looper's discovery of a readable descriptor, its
task, `OnReadable`'s read of everything there is, and `HandleVsyncCallbacks`.
Messages are counted, as nothing depends on which one is lost. `CloseFd` is
`CloseVsyncReceiverFd`, or the destructor, which goes on to `Destroy` and
`Release`; a receiver whose descriptor was closed before is released without
`Destroy`. `Die` ends the client's process and all it has, at any point of what its
threads do, and `Destroy` may follow (the death recipient). A live client never
sees its connection destroyed otherwise, so it never reads the end of the stream: the
server keeps a duplicate of the client's end. A crash of the render service is left
out. What the
distributor guarantees - that an event that is owed is sent - enters as the
fairness of `ServerStep`, and is `RequestKeepsVSyncOn` and `RequestAnswered`
of the other module.

### FrameRateChange

The main thread's frame (`Reset`, `ClearAppChangeData`, `CalcControllerRate`,
`CompareControllerRate`, `CollectLinker` for every linker, `FinishFrame`) is cut
where the task on `HgmTaskHandleThread` can see or change what it uses. The task
(`BeginTask`, `ChangeGeneratorRate`) reads `controllerRate_` when it takes
`appChangeDataMutex_`, not when it was posted. `UpdateChangeData` is the
generator thread. A linker stands for its connection too.

Assumed: LTPO is enabled; ranges are static, `[p, p, p]` (the vote's always
is); the result of the vote is any member of `Vote`. Left out: phase offsets,
target times and the panel's pending rate. `Saturated` stands for `UINT32_MAX`,
what a cast of infinity gives on arm64; C++ leaves it undefined.

Two history variables name the ways in which rates go astray, so that the
properties can say that there is no third: `missed` (a task overtaken by the next
frame's `Reset`, or refused by the generator) and `kept` (a change left
waiting after the rate in force was asked for again). Both are healed when the
rates of all linkers are sent at once with nothing else under way.

### TransactionOrder

A transaction is the index its proxy gave it. It is lost (`LoseParcel`), taken in
place by the binder thread (`RecvRSTransactionData`) or posted to
`RSUnmarshalThread` (`RecvParcel`), which posts the task first and notes it
afterwards (`MarkCachedData`), and only then is vsync asked for; each of these is a
step. With `GetUnmarshParallelFlag()` the tasks are those of ffrt workers and run
in any order. The main thread's frame is cut at every place where another thread can
change what it reads: `OnVsync` merges the data taken in place, `CheckUnmarshalled`
decides whether to post the barrier, the wait ends by the flag, the barrier or the
workers, and `ProcessCommand` runs `CheckAndUpdateTransactionIndex` for every client
as a walk over the indices (`Visit`, in the order `std::sort` gives them).
`ForceRefreshForUni` starts a frame without vsync.

Time is counted in refresh periods between pulses, and only as the wait of a client
for a missing index, up to one more than the limit. A stamp is kept as whether it is
too new for the frame at hand. Vsync is reduced to what `VSyncChannel` shows: a
request is remembered once and answered by one pulse. `uiDvsyncOn` is
`IsUiDvsyncOn()`: a frame that puts a command off, as stamped too late for it, asks
for vsync again only if it is true (`RequestNextVsyncForCachedCommand`; the emulator's
build always asks and is the same as TRUE). It is fixed
for a behaviour, and both values are checked: a build without uni-render has no DVsync,
one with it may have it switched off.

Left out: what commands do; a parcel that cannot be parsed (it would be missing
like a lost one); the single-frame composer, the divided-render mode, synchronous
transactions, and the clock that `ForceRefreshForUni` sets forward. Commands put off
for windows that sub-threads draw (`CacheCommands`, `SkipCommandByNodeId`) cannot
occur: what fills `subThreadNodes_` is under `if (false)`
(`core/pipeline/rs_main_thread.cpp:1914`).

`applied`, `skipped` and `putOff` are history: what has been executed, for which
clients an index was skipped, and whose next transaction the last frame put off
without asking for vsync again.

### TransactionService

A client sends transactions one after another; some never arrive; what is here and
next in turn is executed, in a frame of the client, up to the first gap. A gap is
passed only if the client has waited for it longer than the limit, one gap in one
frame, and then only to something that is here; what a client that is gone has sent
is dropped. There are no binder threads, queues, barriers or flags in it.
`TransactionOrder!Service` reads what is here off the map, the tasks and the caches
alike (`Here`).

### FramePipeline and FrameHandOver

`FrameHandOver` cuts a frame where another thread can see or change what it uses:
the flags `doDirectComposition_` and `isLastFrameDirectComposition_`, the hand-over
under `frameMutex_` (`PostAndWait`, `Sync`, `UnblockMainThread`), the wait for the
hardware thread (`WaitHardware`, falling asleep, `TimeOut`, `NotifyOne` after
`Execute`), `HgmCore`'s direct composition flag (`SetFlag`, `ReadFlag`,
`ResetFlag`: three steps, as nothing holds a lock), and `isDirty_`, which anybody
sets and the UniRender thread clears. What a frame contains enters as free choices.
A frame has one display: several displays drawn in one frame, each with a wait
for the hardware thread and a commit of its own, are left out, and no property
speaks of them.
Left out as well: `RS_PARALLEL_TYPE_SYNC` and `SINGLE_THREAD` (the default is ASYNC), delayed
posting of commits (the order of tasks is kept) and a stopped service.

`FramePipeline` says the same without locks and queues: who stands still while
nodes are copied, which thread commits a direct frame, how far the hardware
thread may be behind. `FrameHandOver` implements it (`ImplementsPipeline`:
`MainView` and `RenderView` map the threads' places), which is what allows
`SurfaceBuffers` to be built on `FramePipeline`.

Two history variables name exceptions. `skipped`: a frame with nothing to update
ended while the UniRender thread still had one in hand. `marked`: whether the
dirty mark was set when a frame under way was still to clear it.

### SurfaceBuffers

One node that can be a hardware layer, its queue of buffers and the four
places that name the buffer it replaced: the handler (`handler`), the staging and
the render parameters (`staged`, `drawn`) and the layer of a commit (`ownLayer`,
`drawnLayer`, `work`). Each action extends the one of `FramePipeline` it
happens in: `StartFrame` acquires (`ConsumeAndUpdateAllNodes`) and looks at the
node (`CollectInfoForHardwareComposer`), `FullFrame` decides anew whether it is a
layer, `CreateLayer` and `OnDraw` make the layer, `OnSync` copies the parameters,
`ReleaseSelfDrawingNodeBuffer` releases what no commit will, and `Execute` is
`HdiOutput::ReleaseLayers`. The queue of buffers itself is external: releasing
what is not acquired fails and changes nothing.

Left out: hold buffers and the cache of buffers (buffer control), buffers cleared
in `OnCleanCache`, dropped frames, and nodes whose synchronisation UIFirst skips.
Other nodes appear only as `other`: one of them consumed a buffer.

History: `reused` (a replaced buffer was put in a layer a second time) and
`disordered` (a frame handed over was not drawn, or a direct commit overtook one).

## 3. Runs

| Run | Question | Instance |
|---|---|---|
| `MCVSyncConnections` | are requests, Qos levels and deaths safe, do list and counter agree, is the abstract service implemented (LTPS) | 3 connections of one process, one in a window, one named after the process, room for two |
| `MCVSyncLive` | is a request answered and VSync turned off, in both modes, through switches of mode and rate; is the abstract service implemented | 1 connection, generator at 60 and 120, its changes with and without the connection's own rate of 40 or 30, a system animation |
| `MCVSyncShared` | finding: `WindowReachable` is violated | 2 connections of one window |
| `MCVSyncChannel` | is every waiter of one receiver served, until it is closed or its process dead | 2 threads, 2 callbacks, 2 messages |
| `MCVSyncChannelClosedFd` | finding: `OnlyReceivedTimestamps` is violated | the same |
| `MCFrameRate` | do rates settle and come together | 2 linkers; panel 30, 90, 144 Hz; 2 tasks |
| `MCFrameRatePending` | finding: `GeneratorFollows` is violated | panel 30, 60 Hz |
| `MCTransaction` | are transactions kept, in order, and executed; is the abstract service implemented | 1 client, 2 parcels of any size of which 1 may be lost, limit of 1 period, both kinds of unmarshalling, DVsync on and off |
| `MCTransactionLost` | finding: `UnmarshalledHasFrame` is violated | 1 client, 2 parcels, one unmarshalling thread |
| `MCFrameHandOver` | are nodes copied undisturbed, commits held back and stamped right, dirty marks heeded, wake-ups not lost; does every frame end; is the pipeline implemented | `TaskNum` 1, 1 wait may time out |
| `MCSurfaceBuffers` | is every buffer released, once, and not before its time | 2 buffers, 2 commits outstanding, `ReleaseTasks` 2, 1 direct frame of other nodes only |
| `MCSurfaceBuffersTwice` | finding: `CurrentHeld` is violated | the same |

Why the bounds are enough. Connections interact only through the list, the
counter of a process and the map entry of a window, so two that share a process
and differ in the rest meet every case; the limit needs `MAX_SIZE + 2`
creations, hence three connections with the limit at 1 (the code admits one more
than the constant says). Two messages fill the smallest socket in which taking
one back leaves one. Two threads are what `initMutex_` and the flag can tell
apart. In `MCFrameRate`, 144 does not divide 360 and is refused; 30 and 90 are
accepted, and 90 leaves room for a linker to differ from the controller. Two
tasks are enough for one to be overtaken while another runs; a third would wait
behind it. In the liveness runs one connection is enough, as a request is answered
from the connection's own counters and VSync stays on as long as any waits; that
others do not disturb it is what the safety runs show with two. Clients meet in
`TransactionOrder` only where a map is emptied or vsync is asked for, for all of
them alike, so one is enough; two parcels can overtake each other, wait for each
other, and lie before and behind a barrier; one period is the smallest limit that
tells a wait from a skip. `VSyncCycle` is the least common multiple of the LTPS rates
used.
What the runs show on these instances, the theorems show for all.

`HARDWARE_THREAD_TASK_NUM` is 2 in the code and 1 in `MCFrameHandOver`: with two
threads admitted at a time, limit 1 has tasks below, at and above it, and both
threads asleep at once. One time-out is one commit above the limit;
`CommitsHeldBack` shows how more of them add up. In `MCSurfaceBuffers` two buffers
are current and replaced in turn, which is the tightest reuse; a commit for each of
two frames can be outstanding while a third is made. `ReleaseTasks`
must not be smaller than the number of commits that may be outstanding: with
`Capacity` 3 and `ReleaseTasks` 2 `ShownHeld` fails. In the code the limit on
tasks is 2 (`core/pipeline/rs_main_thread.cpp:160`), which with two threads admitted
makes 4, and `RELEASE_IN_HARDWARE_THREAD_TASK_NUM` is 4
(`core/pipeline/rs_uni_render_thread.cpp:75`): the bound just fits while no wait times
out. `ShownBuffersHeld` proves that this relation of the two constants is all it
takes. `MaxOthers` limits only how often other nodes alone change the screen.

Rates are taken where the code's cases differ: 120 to 60 changes the stride; 40
divides 120 but not 60, so that a connection's rate is accepted or replaced by
the full rate depending on the generator.

Fairness. `VSyncDistributor!FairSpec` has weak fairness of the generator thread's
steps only: it waits with a time-out while it has listeners, and every mutex it
takes is held for a bounded time. Clients owe nothing. Its liveness properties ask
that the mode settles (`ModeSettles`): each switch starts the count of pulses anew,
and endless switching would starve requests. `VSyncChannel!FairSpec`
adds weak fairness of the looper and of a request that has begun, and that the
looper leaves its read loop again and again: events are a period apart, a read
is not. `RequestAnswered` excepts a socket found full for ever and a connection
that stays left behind by a change of the generator's rate (`stranded`), and
`WaitersServed` a connection that is gone. `TransactionOrder!FairSpec` has weak
fairness of a binder call that has begun, of the unmarshalling threads, of the pulse
that answers a request and of the frame that has begun, and strong fairness of
`OnVsync`, which competes with posted tasks for the main thread; a client sends as
it likes. `DeliverableApplied` asks that no client stays put off with no vsync on its
way (`WaitsForVsync`), which with DVsync on is never the case. `GapEnds` asks
that vsync goes on, as nobody asks for it on behalf of a client whose next index is missing. `FrameHandOver!Fairness` has weak fairness of each
of the three
threads with the frame it is in. Frames need not start and waits need not time out,
so `FrameEnds` does not rest on the time-out. `RenderEnds` has the exception
`skipped`: `notify_one` wakes the UniRender thread, but frames the main thread
commits on its own can take the place again before it looks, and weak fairness
is all a mutex gives. Deadlock is checked everywhere but in
`VSyncChannel`, where nothing moves once the client is gone and the server
knows, and
`SurfaceBuffers`, where a producer may stop.

## 4. Findings

1. `RemoveConnection` erases the map entry of the whole window
   (`vsync_distributor.cpp:358`); other connections of the window no longer
   follow its rate.
2. `OnReadable` on a descriptor that the receiver's destructor (`vsync_receiver.cpp:188`)
   or `CloseVsyncReceiverFd` (`:289`) closes after the task for an event was queued
   passes an uninitialised array to the callbacks (`:62`).
3. A generator change that waits is not taken back when the rate in force is asked
   for again (`vsync_generator.cpp:661`); generator and manager then disagree.
4. The barrier's `GetCachedTransactionData` clears `willHaveCachedData_` though a
   parcel may be posted behind it (`core/pipeline/rs_unmarshal_thread.cpp:116`); the
   next frame does not wait for that parcel, and it stays until something else asks
   for a frame.
5. A direct frame without a new buffer puts the handler's replaced buffer, long
   released, into a layer again (`core/pipeline/rs_uni_render_processor.cpp:131`).
   If the node acquires that buffer anew before the commit runs, the commit gives the
   current buffer back to the producer. The reset that is to prevent this
   (`composer/hdi_backend/src/hdi_output.cpp:632`) only changes a parameter.

Observations, met while modelling and not the subject of a run:

- `UpdateChangeDataLocked` applies a rate of the generator whether or not rates for
  the connections come with it (`vsync_generator.cpp:344`, `:367`). A connection that
  follows a rate may then never be due again: at 120 Hz with frequency 12 and phase 3,
  a change to 60 alone adds 6 pulses at a time, and neither 3 nor 9 is a multiple of
  12. Its requests stay unanswered, with VSync on, until its own rate or the mode
  changes. The manager sends the connections' rates with a change but for a task that
  is overtaken or refused and a change that is kept (`RatesWithChange`).
- Without DVsync, or with it switched off, a frame that puts a command off does not
  ask for another (`rs_main_thread.cpp:949`): one stamped as late as the frame, `>=`
  at `:974`, waits until something else asks for vsync. Without the condition
  `WaitsForVsync` TLC finds `DeliverableApplied` violated this way.
- `GetDrawingFrameRate` of a static range may return a rate that does not divide the
  refresh rate: 22 for 24 at 90 Hz, round(3.75) being 4
  (`hgm_frame_rate_manager.cpp:559`; its comment says the rates divide).
- After a frame with nothing to update `isLastFrameDirectComposition_` is true though
  the UniRender thread may still draw the frame before (`rs_main_thread.cpp:3577`).
  A direct frame then does not wait for it (`:1853`): the commits overtake each
  other, and as both go through the direct composition flag either may carry the other's
  time stamp (`rs_hardware_thread.cpp:275`). This is the exception `skipped` of
  `OwnTimestampInTurn` and one cause of `disordered` in `ShownHeld`.
- A screen marked dirty between the copy of the nodes and the end of drawing loses
  its mark (`rs_display_render_node_drawable.cpp:653`); `DirtyFrameDrawn` speaks of
  the others.
- A frame that is handed over and not drawn (screen off) releases the replaced
  buffer of its nodes though the screen may still show it, when it stays a layer's
  candidate without a commit (`rs_uni_render_thread.cpp:349`).
- `transactionDataLastWaitTime_` of a client is reset when a gap is passed
  (`rs_main_thread.cpp:984`) and when the client dies (`:3166`), not when the missing
  transaction arrives in time. A later gap is then measured from the wait for the
  earlier one and may be passed in the first frame that sees it. `ImplementsService`
  bounds what this can do: one gap in one frame, nothing out of order.
- `RSSurfaceHandler::CacheBuffer` and `GetBufferFromCache` call `ReleaseBuffer`
  under `mutex_`, and `ReleaseBuffer` takes it again through `GetConsumer`
  (`rs_surface_handler.cpp:90`, `:108`); the mutex is not recursive.

## 5. Proofs

Each proof module shows `Init => Inv`, `Inv /\ [Next]_vars => Inv'` with one step
per action, and the theorem by temporal logic. The proofs assume only the named
ASSUMEs of the modules, which TLC evaluates in the runs.

`VSyncDistributor_proof`
- `ThreadInvariant` (`TypeOK`, `OneListener`): inductive together with
  `ResultPosted`, that a result being handled belongs to the last event posted.
- `DeadConnections` (`DeadNeverArmed`): inductive with three facts: whatever holds
  a connection (list, calls, the generator thread) holds an open one; one nobody was
  given yet has nothing requested; and a dead connection that is still registered
  has no call between its two locks and no full socket being handled.
- `RequestsServed` (`RequestKeepsVSyncOn`): the heart is the lemma `WantedWaits`:
  neither way of collecting overlooks a connection that is owed an event, so VSync
  is only turned off when none is. It needs Qos rates to be positive.
- `QosRates` (`QosAgrees`, and that the map holds registered connections only):
  connections are filed only
  under their own keys, and one nobody was given yet has no Qos rate.
- `ConnectionsCounted` (`CounterMatchesConnections`): by cardinality of the
  connections of a process when one comes or goes.
- `PulsesAlign` (`PulseAligned`): the rates involved divide 360
  (`RateAssumption`), so strides are nested like the rates they belong to
  (`StridesNest`), and a common divisor of a count and its modulus divides the
  remainder (`ModKeepsDivisor`, `SumKeepsDivisor`). A change of the generator's rate
  alone keeps this for the connections it does not leave behind: those with a rate
  on the way, and all of them if the new rate is a multiple, as the new stride then
  divides the old one (`DivisorTransitive`). `PulseInv` adds that a
  connection nobody was given yet follows no rate. `PulsesReturn` draws the
  conclusion: some number of pulses brings the phase of every connection not
  left behind back to zero, which is when it may be sent an event.
- `DistributorTypes` (`TypeOK`) and `MapHoldsRegistered` (`MapWithinConnections`,
  which no run checks: it follows from the same invariant).

`VSyncService_proof`
- `DistributorServes` (`ImplementsService`): initial states map to initial states and
  each action of the distributor to one of the service or to a stutter, under the
  invariants above. The step that collects is the one that matters: it takes only
  connections that are owed an event, uses their requests up and leaves the others'
  alone, and it turns VSync off only if it finds nobody owed.

`VSyncChannel_proof`
- `ChannelType` (`TypeOK`).
- `DispatchHasEvent` (`NoEmptyDispatch`): between the send that finds the socket
  full and the taking back of a message, the socket is still full, or empty, or the
  client is reading and has read something (`FullUntilRead`); and a task that has
  read nothing yet has a message to find.
- `FlagIsKept` (`FlagMeansComing`): inductive with the fact that a dead connection
  is not registered.

`FrameRateChange_proof`
- `FrameRateTypes`, with room for the task a frame will post.
- `RatesSettle` (`SettledRates`), strengthened by `AllDue`: each linker's rate is
  its connection's, or on its way in the generator's or the manager's vector, unless
  `missed`; and that frames and tasks take turns while it is not.
- `ChangesAreComplete` (`RatesWithChange`): the manager and generator are in step, a
  waiting change has all rates with it, and a frame that saw the controller's rate
  change collects them all.
- `OnlyKeptChangesDiverge`: finding 3 has no other cause than the one it names.

`TransactionOrder_proof`
- `TransactionTypes` (`TypeOK`) and `TransactionsKept` (`EachInOnePlace`). Every step
  does one of four things with a client's transactions (`HandedOn`): nothing, take
  the next index into one place, hand some on from one place to another, or forget
  some of a client that is gone; whatever is of this form keeps them apart and
  complete (`StepHandsOn`, `PlacesStep`). That each parcel is posted once
  (`PostedOnce`) makes the tasks a place like the others.
- `TransactionsInOrder` (`InOrderUntilSkip`) and `GoneClientsForgotten`
  (`GoneIsForgotten`, which no run checks and the refinement uses). The walk of
  `CheckAndUpdateTransactionIndex` is defined by
  recursion over the indices; `WalkReached` shows for every index that what it lets
  through goes on where what was executed ends. The induction is over the set of
  indices for which this holds (`InductionOnSet`), from the least number principle.
- `BarriersMatch` (`BarrierMatches`), strengthened by `BarrierPlaced`: exactly while
  the main thread waits there is one barrier, posted or passed, and the flag that
  spares it the wait is up again when the wait is over.

- `OrderImplementsService` (`ImplementsService`). What is here is what was sent, did
  not get lost and was not executed (`HereIs`), so that most steps are stutters: they
  move a transaction from one place that counts as here to another (`HereStays`). The
  step that matters is `ProcessCommand`. Each client's walk executes either what is in
  turn, or that and what follows one gap that was waited for (`OneGap`, with the same
  induction over the set of indices as `WalkReached`): the wait is reset when a gap is
  passed, so a second gap ends the walk. A walk that kept the wait is the property's
  mutant. The invariant needed (`KeptInv`) is that of `TransactionsKept` with
  `GoneIsForgotten`.

`FrameHandOver_proof`. One inductive invariant, of these parts: where each thread can
be (`HandInv`: a task fits the place it was posted from, there is one at a time, and a
thread asleep is at its wait), `Load` (tasks counted are tasks queued, and no more
than the limit, those admitted and the time-outs allow), `InTurn` (until `skipped`, a
main thread that may commit on its own has a UniRender thread without work beside
it), `FlagStands` (the direct composition flag is up exactly for the one commit that set
it), `MarkStands` (a mark that counts is still there), `SleepersWoken`.
- `HandOverTypes`, `CopiesAlone` (`SyncExclusive`), `CommitsHeldBack`
  (`BackPressure`), `CommitsDoNotOvertake` (`InTurn`'s consequence, which no run
  states), `TimestampsOwn` (`OwnTimestampInTurn`), and, as action property,
  `DirtyMarksHeeded` (`DirtyFrameDrawn`).
- `NobodySleepsOn` (`SleepersWoken`): no more threads sleep at the limit than
  wake-ups are still to come. The danger is in the number: a commit notifies one thread at
  most, and both may sleep. `WakeUpsToCome` counts the commits that will still
  notify; while the count of tasks is above the limit there are more of them than
  threads. A limit of 0 would not do; the code's is 2.
- `HandOverImplementsPipeline` (`ImplementsPipeline`): falling asleep, waking up,
  posting and the flag's steps are stutters of the abstract pipeline; a commit finds
  room in it by `Load`.

`SurfaceBuffers_proof`
- `BufferTypes` (`TypeOK`).
- `BuffersFollowed` (`NoBufferLost`), strengthened by `Followed`: no place is
  overwritten while it names a buffer. The staging parameters are handed on with
  the frame that filled them, a layer is made where there is none, and the
  render parameters are emptied before the frame ends, by the layer or by the release.
  `Kept`
  follows one buffer through each step: free, queued, current, or named where it will
  be released.
- `BuffersHeld` (`CurrentHeldUnlessReused`), strengthened by `Separate`: until a
  replaced buffer is put in a second layer, each buffer is in at most one of those
  places, and in it once (`InOnePlace`). Each step moves a buffer from one place to
  the next; only `CreateLayer` copies one, the handler's `pre`, which is harmless
  exactly while the staging parameters, which it empties, name it too. Hence a
  release always finds the buffer it was meant for.

`ShownBuffers_proof`
- `ShownBuffersHeld` (`ShownHeld`): what the screen shows and what is being drawn is
  not given back, unless `reused` or `disordered`, if `Capacity =< ReleaseTasks`.
  Without that assumption it is false, as said in section 3; in the code both are 4.
  `Chain` says for each place in the hardware thread's queue what the screen
  will show there (`l`) and how many commits are then left (`c`). On it rest `Apart`
  (a task releases nothing that is shown from then on), `WillBeHeld` (what is or will be
  shown is acquired) and, where the assumption is used, `Waits`: while the node is no
  layer, a commit that still shows its buffer has a release left that goes through
  the queue behind it. `Agree`, `Created` and `DrawnHeld` carry this over to what
  the main and the UniRender thread remember of the node.

Only model-checked: liveness (`RequestAnswered`, `VSyncTurnsOff`, `WaitersServed`,
`FrameCallbackCalled`, `FrameEnds`, `RenderEnds`, `DeliverableApplied`, `GapEnds`),
which needs fairness and ENABLED. Every other property of a passing run is
the subject of a theorem. The properties of the violation runs are false of the code.

## 6. Plan

In this order; the first items come first because more depends on them.

Done: vsync, rates, transactions, the hand-over of frames and the buffers of a node.
Next:

1. `SyncTransaction`: the counts per process, the fallback task, and the clock
   `ForceRefreshForUni` sets forward.
2. `UIFirst`: states of cached windows, the wait that times out, and nodes whose
   synchronisation is skipped (`ReleaseSkipSyncBuffer` in `SurfaceBuffers`).
3. `VSyncTiming`: the generator's deadlines, phase offsets, reference times,
   sampler; a lost notification delays a change by one period only.
4. `FrameRateVote`: votes, touch state machine and its timer.
5. `SurfaceImage`: attach, update and detach with errors half-way.
6. `EventQueue`: priorities and removal; a low priority is not starved.
7. `HdiFences`, `ScreenHotPlug`, `RenderTree`, `AnimationFraction`, and reference
   counting.

Theorems worth proving: that two connections of one window are the only cause of
finding 1, and likewise of the others; that `VSyncChannel`'s server implements
`VSyncService` for its connection; at-most-once of
`SyncTransaction`; single release in `SurfaceImage`.

Not planned: drawing, text, effects and API wrappers (sequential computation on
data TLC cannot enumerate, or facades without state), boot animation, profiler
and tools, and the vendored or generated parts.
