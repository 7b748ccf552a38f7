# TLA+ models of the DSP acceleration layer

The repository lets audio plugins hand blocks of samples to a hardware worker
process (GPU, NPU, DSP) through shared memory. This directory holds TLA+ models
of the parts that carry its control logic, the TLC configurations that check them,
and TLAPS proofs. `PROJECT.json` maps every definition to the source lines it
models and lists runs, mutants, hazards, findings and theorems.

Run a model with `tlc -config X.cfg M`, the proofs of a module with
`tlapm M_proofs.tla`.

## Inventory

| Part | State | Operations | Partners | What is hard | Correct when |
|---|---|---|---|---|---|
| SPSC ring, `daemon/ipc/include/ipc_shm.hpp` | `head_`, `tail_`, `data_` | `push`, `pop`, `reserve_write`/`commit_write`, `peek_read`/`commit_read` | two processes, no lock | each side acts on an old copy of the other's index; order of stores; one slot tells full from empty | it is a FIFO of Capacity - 1 whole items |
| SDK audio path, `sdk/src/dsp_accel_sdk.cpp` | stall counter, last heartbeat, xruns | `dispatch`, `read_output` | worker, through the rings and two eventfds | 5 ms timeout against a late answer, wake-ups that collapse, a worker that fails or dies, a second plugin on the session | blocks in order, none lost unaccounted for, the callback always returns |
| SDK connection, same file | socket, three descriptors, mapping | `connect`, `disconnect` | daemon or supervisor | seven steps, each of which may fail; no timeout; either process may die | what is handed out is one whole session, what failed is closed, the call returns |
| Worker, `daemon/worker.cpp` | heartbeat, `last_error`, the graph | loop: heartbeat, bypass, control bus, one block, memory bus | SDK, supervisor, GPU | it can stop in any step; full `out_queue`; parameters set while it waits | it never waits for the plugin, reports what failed, uses parameters in time |
| Vulkan compute, `daemon/vulkan/vulkan_compute.c` | instance, device, pipeline, descriptor set, fences | `init`, `destroy`, `dispatch`, `dispatch_zero_copy` | worker, GPU | half-made contexts; results nobody looks at; a GPU slower than the 2 ms of the fence | what init made is taken down in order, nothing kept per block, the GPU stays out of the plugin's slots |
| VRAM interface (SDK, worker) and Vulkan pool | request and response bus, staging area, `user_buffers[256]` | allocate, upload, free, zero-copy on/off | SDK and worker | time-outs and late answers, one staging area, a pool shared by three users | a handle is its owner's own; a confirmed upload stays |
| Remote node and server, `daemon/network_node.hpp`, `daemon/network_server_node.hpp` | `seq_id`, `expected_seq_id`, jitter buffer | init, send frame or control event, receive loop, destructor | UDP | loss, duplication, reordering, wrap-around, a thread blocked in `recv` | frames come out in order and without gaps |
| Supervisor, `daemon/pipewire/module-dsp-accel.cpp` | `compute_nodes[3]` | start and restart workers, route, accept plugins, destroy | workers, plugins | any system call may fail half-way; sessions outlive nodes; plugins share sessions | what a plugin or a node holds belongs to one live session |
| Stand-alone daemon, `daemon/main.cpp` | `running`, its descriptor table | start, signals, accept, handshake, new session, hand-over | plugins | one connection at a time without a timeout; sessions never closed; SIGPIPE, SIGBUS | every plugin gets a session of its own, or is told that there is none |
| CLAP example, `clap/plugin_example/src/plugin.cpp` | SDK context | create, activate, `process`, deactivate, destroy | host, SDK | CPU fallback within the callback; destroy in any state | the context is closed once |
| Control bus, log bus | two more rings | `set_param`, `fetch_log` | SDK, worker | full bus; drained before the wait for the block | parameters at most one block late |
| Monitor, `module-dsp-accel.cpp:316`, `mcp-server/index.js` | a JSON file | dump every 500 ms; serve | supervisor, tools | half-written file, timer outliving the module | - |

`PROJECT.json` lists the rest (NPU stub, wrappers, legacy C SDK, headers without an
implementation) with the reason it is left out.

There are two ways to a session. The stand-alone daemon makes one per connection;
the PipeWire module makes one per kind of hardware and gives it to every plugin that
asks for that kind. Handshake models the first, with the SDK's side step by step,
Supervisor the second, with the SDK's side as one step; SharedSession models what
the second leads to.

## Modules

**BoundedFifo** is the abstract specification of a queue: `Enqueue` and `Dequeue`
on a bounded sequence.

**SPSCRing** is `ShmSPSCRingBuffer`, one action per atomic load or store and two per
copy of an item. `headSeen` and `tailSeen` are what an acquire load of the other
side's index returns, possibly an old value; `unpublished` are slots the consumer
must not rely on, emptied by the release store of `tail_`. `push` and
`reserve_write … commit_write` differ in which index the store uses (`NewTail`),
likewise `pop` and `peek_read … commit_read` (`NewHead`). A failed call goes from
`check` back to `idle`. `Queue` is the refinement mapping: the slots from `head_` to
`tail_`.

**AudioPath** takes the rings as the FIFOs SPSCRing shows them to be, and models one
plugin and one worker. `Dispatch`, `CommitWrite`, `SignalWorker`/`SignalFails` are
`dsp_accel_sdk_dispatch`; `ReadEvent`/`PollTimeout`, `TakeOutput` are
`dsp_accel_sdk_read_output`; the actions of `WorkerStep` are the worker's loop in
its order. An eventfd is a counter whose read resets it. `WorkerStops` may happen
in every step. The heartbeat is reduced to "moved since the SDK looked" (`beaten`).
Samples, sizes, statistics and the control bus are abstracted; a block is the
number of its callback. Writes of the eventfds may fail on both sides, and the worker's
read (`SignalFails`, `SignalPluginFails`, `WorkerTimeout`); `unsignalled` remembers that
a write of the plugin has. The worker does not repeat an interrupted read; the plugin does,
and the only reader of a readable eventfd has no other reason to fail.

**SharedSession** is the same path for two plugins on one session, at the grain at
which they disturb each other: `commit_write` and `commit_read` load an index and
store its successor, and `poll` and `read` of the eventfd are two steps. A ring is its two
indices.

**Handshake** is the life cycle of the CLAP plugin, `dsp_accel_sdk_connect` and
`_disconnect`, and the stand-alone daemon. One action per system call of the SDK that can
fail or wait; of the daemon, one per call that waits or is checked, and one
(`CreateSession`) for the creation of the session, whose unchecked failures are its
parameters. A descriptor is what it is and of which session; `inbox` is the
stream between the two, from which `recv_fd` takes whatever comes next (`RecvFd`), or a
message whose descriptor the plugin's full table had no room for (`RecvNoFd`): any of
the three fields may end up at -1. `fds` is what a
process has open, `ctx` what its context knows of. `close` of a number that is not open or
twice of the same one would show as a difference between the two, or as one descriptor
in two fields, which is what `NoneLost` excludes. `open` counts the daemon's
descriptors against `MaxFds`. SIGPIPE and SIGBUS end processes where the code does not
handle them.

**VulkanBackend** is the GPU worker from `dsp_vulkan_init` to `_destroy`. `live` are the
objects of the context; what is made without a look at the result may be missing. The
buffers the worker makes in the pool (`"buffers"`: the state of an instance, imports)
are in `live` but not in `DestroyOrder`, because `dsp_vulkan_destroy` frees none of
them: they are still there when it destroys their device (`vulkan_compute.c:271`) and
says that the context was destroyed safely (`:275`). `TakenDownInOrder` therefore names
them as what is left. A turn of the loop is `FollowBypass`, `ApplyControlEvent` until
`Drained`, `WakeUp`/`PollTimeout`, `ProcessStage`, `Submit`, `WaitDone`/`WaitTimeout`,
`FinishBlock`. `gpu` are the commands submitted and not finished; `GpuDone` may come at
any time or never. A parameter is the number of the call that set it. `asked` and `late`
are history variables.

**RemoteNode** is the UDP client with its jitter buffer, the server's loop and the
network between them. A packet is its number; `SeqId` is what the wire carries. Each
turn of the receive thread is `CheckActive` and `ClientReceive`, the latter storing the
frame and draining what is ready, or `ReceiveJunk`: a failed `recv`, a short packet, a
wrong magic number. Frames are dropped before `SetShmPtr`; the node may be destroyed
without `init`. The network loses and duplicates if `Lossy`, and reorders always.

**Supervisor** is the PipeWire module with its workers' starts and the plugins'
connections. A session (memfd, eventfds, mapping, process) is a number; the fields of
a node hold session numbers, so mixtures of sessions show. `NodeAfter` gives the node
that `spawn_worker` leaves behind for each call that may fail. The model lets a host
call `handle_plugin_request`, the only way to a restart; in the repository nothing
does.

**VramBus** is the memory request protocol with the Vulkan buffer pool behind it.
`FollowBypass`, `ProcessStage`, `Serve`/`ServeDone` are the three parts of the worker's
loop that use the pool. Answers of Vulkan are the choice `vkOk`. Request ids do not
repeat (the code takes them from `rand()`), and the copy to the staging area and the
push of the request are one step: a request of an earlier upload that is served in
between, or torn, writes a buffer the plugin knows nothing of anyway, since that upload
had already failed. A failed import or allocation changes nothing in the pool; that it
leaves a duplicated descriptor (`vulkan_compute.c:452`) or a `VkBuffer` (`:381`) behind
is not modelled.

AudioPath, VulkanBackend, RemoteNode and VramBus use the ring through its promise (bounded
FIFO, failure without effect) rather than by INSTANCE: their steps are coarser than
the ring's, and the refinement theorem is what allows it for one producer and one
consumer. SharedSession has two of each and so goes back to the indices.

The worker's loop appears in AudioPath, VulkanBackend and VramBus, each time with the
steps that matter to the part and the others left out: their product is out of TLC's
reach, and they share only the position in the loop.

## Runs

| Run | Bounds | Checks |
|---|---|---|
| `ring` | 4 slots, 2 values | `TypeOK`, `SlotExclusion`, `OccupiedIntact`, `RingInv`, `ImplementsFifo`, `EveryItemIsTaken`, `FullIsNotForever` |
| `audio` | rings of 7 slots, 7 callbacks, watchdog after 1, counter modulo 4, failing reads and writes | `TypeOK`, `InOrder`, `NothingLost`, `OneBlockAfterError`, `FullIsSignalled`, `WakeUpFindsBlock`, `DeadWorkerBound`, `CallbackReturns` |
| `audio_latency` | 4 callbacks | violated: `LatencyWithinOneBlock` |
| `shared_session` | 2 plugins, 4 slots, 2 callbacks each | violated: `EveryCallbackReturns` |
| `handshake` | 2 plugins, 2 calls of connect, 2 starts of the daemon, 5 descriptors, backlog of 1 | `TypeOK`, `ConnectedIsWhole`, `SessionIsOwn`, `NoneLost`, `RoomToAccept`, `ConnectReturns` |
| `vulkan` | 3 slots, bus of 2, 3 blocks, 2 parameters | `TypeOK`, `TakenDownInOrder`, `GpuInHeldSlot`, `ParamsInTime`, `DispatchReturns` |
| `vulkan_copy` | the same | violated: `GpuGetsTheBlock` |
| `remote_jitter` | 12 sequence ids, window 3, 25 packets | `TypeOK`, `BufferInWindow`, `GapFree`, `HeldUntilDue` |
| `remote_echo` | 8 sequence ids, no loss | violated: `EchoIsDelivered` |
| `supervisor_spawn` | 2 nodes, 4 sessions, 2 plugins | `TypeOK`, `ActiveIsWhole`, `PluginsHaveWorker` |
| `vram_alloc` | 3 buffers, buses of 2, 3 polls, 4 requests | `TypeOK`, `HeldIsReserved`, `UploadSticks` |
| `vram_bypass` | the same | violated: `OneImport` |

Why the bounds are enough. Four slots let the ring be empty, full and in between while
both indices wrap, with either view lagging; the proofs cover every other size. In
`audio` seven callbacks fill either queue and lose blocks, the stall counter wraps
around (modulo 4, for the `uint32_t`) while the worker is dead, and reads and writes of
the eventfds fail. The bound of `DeadWorkerBound` is reached, the term for the
wrap-around included: five blocks in seven callbacks, in a ring that has room for a
sixth. `WakeUpFindsBlock` needs queues of at least three blocks: with two a wake-up can
come without a block; the code has 16 slots. `FullIsSignalled` speaks of runs in which
no write has failed: enough failures in a row fill `in_queue` without a signal. In
`handshake` a table of five descriptors holds the listening socket, a connection and one
whole session: the second session does not fit, or fits only in part; one place in the
backlog lets a plugin wait while the other is served; and with two starts a plugin meets
the daemon's successor. The daemon and the SDK look at no other connection than their
own, so a third plugin would only wait longer. In `vulkan` three blocks through two
usable slots reuse a slot, which is what a late GPU needs to be in the plugin's way, and
two parameters fill the bus. In `remote_jitter` 25 packets of 12 ids go twice around the
ids: the receiver, which starts with id 0 while the first frame has id 1, picks the
stream up after the first wrap-around and hands frames on across the second. `MaxAge`
limits how long the network may hold a packet; the proofs do without it. Two nodes
suffice for the supervisor since they meet only in the loop of `handle_plugin_request`;
four sessions allow both nodes to be restarted. In `vram_alloc` three polls on buses of
two let a call time out before, between and after the answers of earlier calls, and
three buffers let the plugin, the state buffer and the imports compete.

Deadlock is not checked where the system may come to rest: when the host
stops calling after the last callback (AudioPath, SharedSession), when the daemon is down
for good and no plugin connects (Handshake), when the worker has ended (VulkanBackend),
when the last packet is sent (RemoteNode) and when the module is gone (Supervisor).
The ring and VramBus never stop and are checked.

Fairness.

* `ring`: both sides finish their calls (no step waits), the consumer keeps calling (the
  worker drains its buses in every turn, `worker.cpp:232`, `:299`), and a store becomes
  visible in finite time.
* `audio`: only the audio thread is scheduled, nothing is assumed of worker or host.
* `shared_session`: both audio threads and the worker are scheduled; a host may stop
  calling a plugin.
* `handshake`: weak fairness of the daemon's steps and of each call of connect, and
  strong fairness of `Accept`, because a failing `accept` (the system's table may be
  full, `ENFILE`) leaves the connection in the backlog and the loop tries again.
  Starting, killing and signalling the daemon are not fair: it may be down for ever.
* `vulkan`: the worker's thread is scheduled (`SCHED_FIFO`); nothing is assumed of the
  GPU.
* `remote_echo`: the receive loops take packets that are there. The client's `recv` is
  strongly fair, since junk may come in between but not for ever instead of what the
  socket holds. No packet need ever come. `remote_jitter` checks safety only.

## Findings

* `audio_latency`: each timeout leaves one more block of backlog, and after two of them
  every callback gets a block at least two callbacks old, while the SDK reports "exactly
  1 block of latency" (`sdk/src/dsp_accel_sdk.cpp:292`).
* `shared_session`: the supervisor makes the eventfds of a shared session blocking. Two
  plugins see the same wake-up, one reads it, and the other one waits in `read()`
  without a timeout.
* `vulkan_copy`: outside zero-copy mode nothing writes the descriptor set: the command
  runs with no buffer, or on the slot of an old block, instead of the promised "Safe
  Copy".
* `remote_echo`: the handshake takes id 0, the receiver waits for frame 0: nothing that
  comes back is handed on (`daemon/network_node.hpp:58`, `README.md:18`).
* `vram_bypass`: zero-copy mode, which one "can safely toggle"
  (`docs/DEVELOPER_GUIDE.md:68`), imports the memory once per turn until the pool is
  full.

Two more disagreements need no model. `docs/ARCHITECTURE.md:12` promises "automatic
restarts on worker failure", but the function that would restart a worker has no
caller. And a frame that waits in the jitter buffer behind a lost packet stays until
`expected_seq_id` has come round to it, 2^32 packets later.

What passes depends on details that are easy to break, and the mutants show it: that
`dsp_accel_sdk_connect` insists on all three descriptors is what makes up for
the daemon's unchecked `eventfd`; that the connection is closed before the next
`accept` is what keeps a daemon that leaks every session responsive.

## Proofs

Each `X_proofs` extends `X` and proves, for every value of its constants, every
invariant that the runs check of `X`; the `ring` run's refinement too. The constants are
only assumed to be what the ASSUMEs of the modules say; TLC evaluates these in every run.
Where an invariant is not inductive, the strengthening is listed here; all of
them were checked with TLC before they were proved.

**SPSCRing_proofs** (`CapacityAssumption`: at least one slot; `GarbageAssumption`:
`Garbage` is no value): `TypeCorrect`, `RingInvariant`, `ExclusionHolds`, `IntactHolds`
and `RingRefinesFifo`. `SlotExclusion` and `OccupiedIntact` are not inductive: that
the producer's slot is free follows from a check it made some steps ago against an
old copy of `head_`. `RingInv` adds the order of the four index values around the ring
(`IndexOrder`), that a call past its check still has room or an item according to
the copy it looked at (`ProducerOK`, `ConsumerOK`), and which slot is
unpublished. The copies lag but are never ahead, so room by the old copy is
room by the real one (lemmas `DistSucc`, `FullMeansNoRoom`, `ChainShorter`). For the
refinement, `PublishTail` maps to `Enqueue`, `ReleaseHead` to `Dequeue`
(`PublishEnqueues`, `ReleaseDequeues`), and filling a slot outside the occupied part
(`FillLeavesQueue`) or any other step to a stutter.

**AudioPath_proofs** (rings of at least two slots, a stall counter that can pass its
limit): `TypeCorrect`, `BlocksInOrder`, `BlocksAccounted`, `ErrorSeen`,
`FullQueueSignalled`, `NoSpuriousWakeUp`, `DeadWorkerBounded`.

* Order and account: the blocks of `in_queue` are younger than what the worker has
  processed, except for the block it has written and not yet released, and none is
  younger than the callback's own (`Order`); that block is the head of `in_queue`
  (`Account`). `Positions` says what the program counters imply of the queues.
* Wake-ups: `SendTokens` and `RecvTokens` count. `in_queue` has at least as many blocks as
  there are reasons to look for one: a readable eventfd, a plugin about to write it and a
  worker between its wake-up and `commit_read`. A full queue drops the worker's block
  and signals all the same, so `RecvTokens` needs a queue of three blocks:
  `NoSpuriousWakeUp` assumes `Depth >= 4` and the code has `IPC_QUEUE_DEPTH` 16. With
  `Depth = 3` TLC finds a spurious wake-up.
* Dead worker: `Watchdog` counts the blocks fed to it against the number `q` of
  wrap-arounds the stall counter can have made: each one costs `CounterMod` callbacks
  and lets `StallLimit + 1` blocks through.

**Supervisor_proofs** (at least one node): `SupervisorTypes`, `NodesWhole`,
`SessionsWhole`. Added: `PidsGivenOut` (no node has a session that is still to come, so
a restart cannot collide with another node) and `BootInactive` (nodes the start-up has
not reached are not active). `WorkersStay`, an action property, carries sessions of
plugins past the nodes' restarts.

**VulkanBackend_proofs** (ring and bus of at least two slots): `VulkanTypes`,
`GpuOnHeldSlot`, `ContextInOrder`, `ParamsOnTime`. Added: `Built` (which objects exist
at which step of `dsp_vulkan_init`), `GpuIdle` (between two dispatches without a timeout
nothing is running, and the descriptor names the held slot once `ProcessStage` has bound
it; this is also why `dsp_vulkan_destroy` finds the device idle), `BusHolds` (the bus
holds exactly the events between `params` and `version`, in order) and `Drains` (after
the drain no event is left that was set before the previous dispatch).

**VramBus_proofs** (at least one entry in the pool, buses of at least two): `VramTypes`,
`BuffersReserved`, `UploadsStick`. What makes this hard are requests and answers of calls
that have timed out. `IdsGivenOut` and `OwnAnswer`: an answer with the current id is one to
the current call. `OneOwner`: a handle is at most once in the plugin's hands, in an answer
under way or in a request to free it, and in use in each case. `UploadsSettled`: no
upload still on the bus is for a buffer whose contents the plugin relies on.

**Handshake_proofs** (a table of at least two descriptors): `HandshakeTypes`,
`AlwaysRoom`, `WholeSession`, `NoDescriptorLost`, `SessionNotShared`. The code says
nowhere which session a plugin is being given: it shows only in what has arrived, what
is under way and what the daemon still has to send. So the invariant is an existential
one, `Whole`: there is an assignment of sessions to plugins such that all descriptors a
plugin holds, has in its stream or is about to be sent belong to its session, in the
order in which they are sent, with gaps only where `eventfd` failed (`Good`), and each
session is given to one plugin. A message without its descriptor is one more gap
(`NoFdGood`); that no descriptor is in two fields follows from the order in `Good`.
`TableHasRoom` and `Handed` tie the daemon's position to its table and to the
connection.

**RemoteNode_proofs** (`WindowAssumption`: the window divides the range of the ids and
is at most a quarter of it; the code has 2^32 ids and a window of 32): `RemoteTypes`,
`JitterInWindow`, `HandedOnInOrder`, and the action property `WaitsForItsTurn`. The
three invariants together are inductive. The work is in the remainders (`ModShift`,
`ModUnique`, `ModApart`, `ModMod`): within a window a slot determines the id (`InSlot`,
`DueValue`), so what is drained is consecutive (`RunOn`) and what stays is in the new
window (`DrainFits`); a stored frame can only be overwritten by one with its own id
(`StoredKeeps`, `AudioKeeps`). How long the network may keep a packet does not enter:
safety holds with every `MaxAge`.

Only model-checked:

* The liveness properties (`EveryItemIsTaken`, `FullIsNotForever`, `CallbackReturns`,
  `ConnectReturns`, `DispatchReturns`): fairness is outside what is proved here.
* The violations, which are counterexamples; SharedSession has no other run.
* That a model's queue is the ring's: `RingRefinesFifo` shows the ring to be a bounded FIFO,
  and that the coarser models may use one is the argument given under Modules.

## Not modelled

* Floating-point processing, in the shaders and on the CPU; the statistics.
* Sizes of blocks: `read_output` copies the size of the block, not of the caller's
  buffer.
* The GPU after a fence has timed out: the worker goes on as if nothing had happened, so
  nothing is claimed of the slot's contents then.
* What failed calls of Vulkan leave behind outside the pool (see VramBus).
* Block-parallel mode of the worker, a flag nobody sets, and the log bus, on which it
  pushes text.
* The descriptor numbers of the supervisor (a session is whole or missing, a leak of an
  old descriptor does not show).
* The monitor: its timer only reads the node table and writes a file. (The module does
  not remove it when it is destroyed, and the MCP server reads
  `/run/dsp_accel/monitor.json` where the module writes `/tmp/dsp_accel_monitor.json`.)
* `daemon/worker_main.cpp`, an earlier copy of the worker with the same loop, whose
  handshake uses names it does not declare; the legacy C SDK, which is not built; the
  NPU stub; the LV2 and VST3 bridges, which call through to the SDK.

`hazards` in `PROJECT.json` says which hazards no property covers and why.

## Plan

1. Done: ring with proofs, audio path, shared session, connection and stand-alone daemon,
   Vulkan worker with the control bus, remote node, supervisor, VRAM protocol.
2. Done: proofs of every invariant of the passing runs, and of the ring's refinement.
3. Models that could still be added: sizes of blocks in AudioPath, repeated request ids in
   VramBus.
