---------------------------- MODULE VulkanBackend ----------------------------
(***************************************************************************)
(* The life of a GPU worker: dsp_vulkan_init and _destroy, and in between  *)
(* the turns of the loop of worker.cpp, in which the worker follows the    *)
(* zero-copy flag, applies the events of the control bus and has one block *)
(* processed by a command on the GPU (class VulkanBackend and              *)
(* daemon/vulkan/vulkan_compute.c).  The plugin, which sets parameters and *)
(* dispatches blocks, and the GPU, which takes as long as it likes, run    *)
(* beside it.  The handles of the pool of buffers and the memory bus are   *)
(* in VramBus, the output queue and the watchdog in AudioPath.             *)
(*                                                                         *)
(* A parameter value is known by the number of the call that set it, a     *)
(* block by the number of its dispatch.                                    *)
(***************************************************************************)
EXTENDS Integers, Sequences

CONSTANTS Depth,     \* IPC_QUEUE_DEPTH: slots of in_queue
          BusDepth,  \* slots of control_bus
          MaxBlocks, \* bound: blocks dispatched
          MaxSets    \* bound: calls of dsp_accel_sdk_set_param

ASSUME VulkanAssumption ==
  /\ Depth \in Nat /\ Depth >= 2 /\ BusDepth \in Nat /\ BusDepth >= 2
  /\ MaxBlocks \in Nat /\ MaxSets \in Nat

\* The objects of a context.  "pipeline" is all that is made for the shader: its
\* module, the pipeline and its layout, the descriptor pool, set and layout.  "buffers"
\* are those of user_buffers that the worker makes for itself: the state of an instance
\* and the imports of the shared memory.
Unchecked == {"commandPool", "pipeline"}
Objects == {"instance", "device", "buffers"} \cup Unchecked

NoSlot == -1
Slot(n) == n % Depth

VARIABLES
  wpc,        \* the worker: "start", "select", "device", "objects", "undo", "turn",
              \* "drain", "poll", "stage", "record", "wait", "finish", "destroy",
              \* "exited", "crashed"
  running,    \* FALSE after SIGINT
  live,       \* the objects of the context that exist
  bypass,     \* bypass_zero_copy, set by the plugin
  zeroCopy,   \* shm_buffer_handle_ # 0
  bound,      \* the slot the descriptor set points to, or NoSlot
  gpu,        \* the commands submitted and not finished, in order
  borrowed,   \* command buffers and fences that are not given back
  lastError,  \* workers[id].last_error # NONE
  committed,  \* blocks put into in_queue
  taken,      \* blocks released by the worker
  signalled,  \* eventfd_send
  control,    \* control_bus
  version,    \* the last parameter value set
  params,     \* the parameter value the backend has
  asked,      \* history: version when a block was dispatched, for the block
              \* released last and those after it
  late        \* history: a wait for a fence has timed out

deviceVars == <<live, bound, gpu, borrowed>>
backendVars == <<zeroCopy, params>>
ringVars == <<committed, taken, signalled, asked>>
controlVars == <<bypass, control, version>>
vars == <<wpc, running, deviceVars, backendVars, lastError, ringVars, controlVars, late>>

Init ==
  /\ wpc = "start" /\ running = TRUE /\ live = {} /\ bypass = FALSE /\ zeroCopy = FALSE
  /\ bound = NoSlot /\ gpu = << >> /\ borrowed = 0
  /\ lastError = FALSE /\ committed = 0 /\ taken = 0 /\ signalled = FALSE
  /\ control = << >> /\ version = 0 /\ params = 0
  /\ asked = [n \in 0 .. MaxBlocks |-> 0] /\ late = FALSE

Goto(label) == wpc' = label

-----------------------------------------------------------------------------
(* The plugin. *)

\* dsp_accel_sdk_set_param, when there is room on the control bus.
SetParam ==
  /\ version < MaxSets /\ Len(control) < BusDepth - 1
  /\ version' = version + 1
  /\ control' = Append(control, version + 1)
  /\ UNCHANGED <<wpc, running, deviceVars, backendVars, lastError, ringVars, bypass, late>>

SetZeroCopyBypass ==
  /\ bypass' = ~bypass
  /\ UNCHANGED <<wpc, running, deviceVars, backendVars, lastError, ringVars, control,
                 version, late>>

\* dsp_accel_sdk_dispatch of a block that gets through.
Dispatch ==
  /\ ~lastError /\ committed < MaxBlocks /\ committed - taken < Depth - 1
  /\ committed' = committed + 1
  /\ signalled' = TRUE
  /\ asked' = [asked EXCEPT ![committed + 1] = version]
  /\ UNCHANGED <<wpc, running, deviceVars, backendVars, lastError, taken, controlVars, late>>

-----------------------------------------------------------------------------
(* dsp_vulkan_init.  Every failure it looks for undoes what was made.      *)

hostVars == <<running, backendVars, ringVars, controlVars, late>>

\* calloc or vkCreateInstance fails: there is nothing to undo.
CreateInstance(ok) ==
  /\ wpc = "start"
  /\ Goto(IF ok THEN "select" ELSE "undo")
  /\ live' = IF ok THEN {"instance"} ELSE {}
  /\ UNCHANGED <<hostVars, lastError, bound, gpu, borrowed>>

\* No device, or none with this index.
SelectDevice(found) ==
  /\ wpc = "select"
  /\ Goto(IF found THEN "device" ELSE "undo")
  /\ UNCHANGED <<hostVars, lastError, deviceVars>>

\* With the extensions or, failing that, without.
CreateDevice(ok) ==
  /\ wpc = "device"
  /\ Goto(IF ok THEN "objects" ELSE "undo")
  /\ live' = IF ok THEN live \cup {"device"} ELSE live
  /\ UNCHANGED <<hostVars, lastError, bound, gpu, borrowed>>

\* The rest is not checked, and the shader need not be there: any of it may be
\* missing when the worker says that it is ready.
CreateObjects(made) ==
  /\ wpc = "objects"
  /\ Goto("turn")
  /\ live' = live \cup made
  /\ UNCHANGED <<hostVars, lastError, bound, gpu, borrowed>>

\* mutant: the device goes before what was made on it
DeviceFirst == <<"device", "pipeline", "commandPool", "instance">>

\* The order of dsp_vulkan_destroy, which knows nothing of the pool: its buffers and
\* their memory are still there when their device goes.
DestroyOrder == <<"pipeline", "commandPool", "device", "instance">>

\* What dsp_vulkan_destroy has yet to destroy: the fields that are not null, by
\* their place in DestroyOrder.
Remaining == {i \in 1 .. Len(DestroyOrder) : DestroyOrder[i] \in live}

\* One call of dsp_vulkan_destroy.  It does not wait for the commands that are
\* still running: they end with the device.
DestroyNext ==
  /\ wpc \in {"undo", "destroy"}
  /\ \E i \in Remaining :
       /\ \A j \in Remaining : i <= j
       /\ live' = live \ {DestroyOrder[i]}
       /\ gpu' = IF DestroyOrder[i] = "device" THEN << >> ELSE gpu
  /\ UNCHANGED <<hostVars, wpc, lastError, bound, borrowed>>

\* The context is freed and the process ends; main reports an init that failed.
DestroyDone ==
  /\ wpc \in {"undo", "destroy"} /\ Remaining = {}
  /\ Goto("exited")
  /\ lastError' = (lastError \/ wpc = "undo")
  /\ UNCHANGED <<hostVars, deviceVars>>

-----------------------------------------------------------------------------
(* One turn of the worker's loop. *)

SignalHandler ==
  /\ running /\ wpc \notin {"exited", "crashed"}
  /\ running' = FALSE
  /\ UNCHANGED <<wpc, deviceVars, backendVars, lastError, ringVars, controlVars, late>>

LoopEnds ==
  /\ wpc = "turn" /\ ~running
  /\ Goto("destroy")
  /\ UNCHANGED <<hostVars, deviceVars, lastError>>

\* set_zero_copy_bypass: an import, which leaves one more buffer in the pool; one that
\* fails is the way back to the copy.
FollowBypass(imported) ==
  /\ wpc = "turn" /\ running
  /\ Goto("drain")
  /\ zeroCopy' = (bypass /\ imported)
  /\ live' = IF bypass /\ imported THEN live \cup {"buffers"} ELSE live
  /\ UNCHANGED <<running, bound, gpu, borrowed, params, lastError, ringVars, controlVars,
                 late>>

\* mutant: one event per turn
DrainFirst ==
  /\ wpc = "drain" /\ control # << >>
  /\ params' = Head(control)
  /\ control' = Tail(control)
  /\ Goto("poll")
  /\ UNCHANGED <<running, deviceVars, zeroCopy, lastError, ringVars, bypass,
                 version, late>>

\* control_bus.pop() and apply_control_event
ApplyControlEvent ==
  /\ wpc = "drain" /\ control # << >>
  /\ params' = Head(control)
  /\ control' = Tail(control)
  /\ UNCHANGED <<wpc, running, deviceVars, zeroCopy, lastError, ringVars, bypass,
                 version, late>>

Drained ==
  /\ wpc = "drain" /\ control = << >>
  /\ Goto("poll")
  /\ UNCHANGED <<hostVars, deviceVars, lastError>>

\* poll and read of the eventfd, and peek_read.
WakeUp ==
  /\ wpc = "poll" /\ signalled
  /\ signalled' = FALSE
  /\ Goto(IF taken < committed THEN "stage" ELSE "turn")
  /\ UNCHANGED <<running, deviceVars, backendVars, lastError, committed, taken, asked,
                 controlVars, late>>

\* Nothing has come in 1 ms, or read() fails and the eventfd stays as it is.
PollTimeout ==
  /\ wpc = "poll"
  /\ Goto("turn")
  /\ UNCHANGED <<hostVars, deviceVars, lastError>>

Held == taken + 1

\* dsp_vulkan_dispatch_zero_copy: the offset of the frame in the shared memory.
FrameSlot == Slot(Held)

\* vkUpdateDescriptorSets.  A command that is still running may see the change.
Rebind ==
  /\ bound' = FrameSlot
  /\ \/ UNCHANGED gpu
     \/ gpu' = [i \in 1 .. Len(gpu) |-> [gpu[i] EXCEPT !.slot = FrameSlot]]

\* VulkanBackend::process_stage up to the dispatch: the state buffer of the instance,
\* which may be there or fail to be made, and is not looked at; only the zero-copy path
\* looks after the descriptors.
ProcessStage(allocated) ==
  /\ wpc = "stage"
  /\ Goto("record")
  /\ live' = IF allocated THEN live \cup {"buffers"} ELSE live
  /\ IF zeroCopy THEN Rebind ELSE UNCHANGED <<bound, gpu>>
  /\ UNCHANGED <<running, borrowed, zeroCopy, params, lastError, ringVars,
                 controlVars, late>>

\* The command for the block in hand, on the slot the descriptors point to.
Command == [block |-> Held, slot |-> bound, zeroCopy |-> zeroCopy]

\* mutant: dispatch does not wait for the fence
SubmitAndGo ==
  /\ wpc = "record"
  /\ Goto("finish")
  /\ gpu' = Append(gpu, Command)
  /\ UNCHANGED <<hostVars, lastError, live, bound, borrowed>>

\* dsp_vulkan_dispatch: a command buffer and a fence are made, and the command
\* is submitted.
Submit ==
  /\ wpc = "record"
  /\ Goto("wait")
  /\ gpu' = Append(gpu, Command)
  /\ borrowed' = borrowed + 2
  /\ UNCHANGED <<hostVars, lastError, live, bound>>

\* mutant: the way out after a failed submission forgets the fence
SubmitLeaks ==
  /\ wpc = "record"
  /\ Goto("finish")
  /\ lastError' = TRUE
  /\ borrowed' = borrowed + 1
  /\ UNCHANGED <<hostVars, live, bound, gpu>>

\* vkQueueSubmit fails: both are given back, and last_error is set.
SubmitFails ==
  /\ wpc = "record"
  /\ Goto("finish")
  /\ lastError' = TRUE
  /\ UNCHANGED <<hostVars, deviceVars>>

\* An object that could not be made is used.
SubmitCrashes ==
  /\ wpc = "record" /\ ~(Unchecked \subseteq live)
  /\ Goto("crashed")
  /\ gpu' = << >> /\ live' = {} /\ borrowed' = 0
  /\ UNCHANGED <<hostVars, lastError, bound>>

Release ==
  /\ Goto("finish")
  /\ borrowed' = borrowed - 2
  /\ UNCHANGED <<running, live, bound, gpu, backendVars, lastError, ringVars, controlVars>>

\* The queue works in order: the fence is signalled when nothing is left.
WaitDone ==
  /\ wpc = "wait" /\ gpu = << >>
  /\ Release
  /\ UNCHANGED late

\* mutant: the wait has no timeout
WaitForever == FALSE

\* 2 ms have passed.  The result is not looked at: the fence and the command buffer
\* are given back while in use, and dispatch returns true.
WaitTimeout ==
  /\ wpc = "wait" /\ gpu # << >>
  /\ Release
  /\ late' = TRUE

\* The block is copied to out_queue and its slot released (commit_read).
FinishBlock ==
  /\ wpc = "finish"
  /\ Goto("turn")
  /\ taken' = taken + 1
  /\ asked' = [asked EXCEPT ![taken] = 0]
  /\ UNCHANGED <<running, deviceVars, backendVars, lastError, committed, signalled,
                 controlVars, late>>

-----------------------------------------------------------------------------
\* The GPU is done with a command.
GpuDone ==
  /\ gpu # << >>
  /\ gpu' = Tail(gpu)
  /\ UNCHANGED <<wpc, hostVars, lastError, live, bound, borrowed>>

WorkerStep ==
  \/ \E ok \in BOOLEAN : CreateInstance(ok) \/ SelectDevice(ok) \/ CreateDevice(ok)
  \/ \E made \in SUBSET Unchecked : CreateObjects(made)
  \/ DestroyNext \/ DestroyDone
  \/ LoopEnds \/ \E imported \in BOOLEAN : FollowBypass(imported)
  \/ ApplyControlEvent \/ Drained \/ WakeUp \/ PollTimeout
  \/ \E allocated \in BOOLEAN : ProcessStage(allocated)
  \/ Submit \/ SubmitFails \/ SubmitCrashes \/ WaitDone \/ WaitTimeout \/ FinishBlock

Next ==
  \/ WorkerStep \/ SignalHandler \/ GpuDone
  \/ SetParam \/ SetZeroCopyBypass \/ Dispatch

Spec == Init /\ [][Next]_vars

\* The worker's thread (SCHED_FIFO) is scheduled.  Nothing is assumed of the GPU.
FairSpec == Spec /\ WF_vars(WorkerStep)

-----------------------------------------------------------------------------
(* Properties. *)

Commands == [block : 1 .. MaxBlocks, slot : NoSlot .. Depth - 1, zeroCopy : BOOLEAN]

\* TypeOK: the variables have their types; the worker releases no block that was
\* not dispatched, and the command buffer and the fence are given back whichever
\* way dsp_vulkan_dispatch is left.
TypeOK ==
  /\ wpc \in {"start", "select", "device", "objects", "undo", "turn", "drain", "poll", "stage",
              "record", "wait", "finish", "destroy", "exited", "crashed"}
  /\ running \in BOOLEAN /\ live \subseteq Objects /\ bypass \in BOOLEAN
  /\ zeroCopy \in BOOLEAN
  /\ bound \in NoSlot .. Depth - 1 /\ gpu \in Seq(Commands)
  /\ borrowed = IF wpc = "wait" THEN 2 ELSE 0
  /\ lastError \in BOOLEAN /\ late \in BOOLEAN
  /\ committed \in 0 .. MaxBlocks /\ taken \in 0 .. committed /\ signalled \in BOOLEAN
  /\ control \in Seq(1 .. MaxSets) /\ version \in 0 .. MaxSets /\ params \in 0 .. version
  /\ asked \in [0 .. MaxBlocks -> 0 .. MaxSets]

\* TakenDownInOrder: whichever step of dsp_vulkan_init failed, what it made is taken down
\* child before parent, and when the worker's process has returned from main only the
\* buffers of the pool are left, which dsp_vulkan_destroy does not free.  It never waits
\* for the device, and yet no command is in flight while it destroys what commands use,
\* unless a wait for a fence has timed out.
TakenDownInOrder ==
  /\ live \cap Unchecked # {} => "device" \in live
  /\ "device" \in live => "instance" \in live
  /\ wpc = "exited" => live \subseteq {"buffers"}
  /\ wpc \in {"undo", "destroy", "exited"} /\ ~late => gpu = << >>

\* GpuInHeldSlot: as long as no wait for a fence has timed out, a zero-copy command
\* works on the slot the worker has peeked and not released, never on one that the
\* plugin may be writing, although block and GPU are told of it only by an offset.
GpuInHeldSlot ==
  ~late => \A i \in 1 .. Len(gpu) :
             gpu[i].zeroCopy => wpc = "wait" /\ gpu[i].slot = Slot(Held)

\* ParamsInTime: a block is processed with the parameters that were set before the
\* block before it was dispatched, or newer ones.  (Those set just before the block
\* itself may come too late: the worker may already be waiting for it.)
ParamsInTime ==
  wpc = "wait" => params >= asked[taken]

\* DispatchReturns: the worker comes back to the top of its loop, where it beats its
\* heart, or ends, even if the GPU never finishes a command.
DispatchReturns ==
  wpc \in {"stage", "record", "wait", "finish"} ~> wpc \in {"turn", "crashed"}

\* GpuGetsTheBlock: the command submitted for a block works on that block, in copy
\* mode too ("the system automatically falls back to standard "Safe Copy" mode").
GpuGetsTheBlock ==
  \A i \in 1 .. Len(gpu) : gpu[i].slot = Slot(gpu[i].block)
=============================================================================
