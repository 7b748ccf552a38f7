------------------------ MODULE VulkanBackend_proofs ------------------------
(***************************************************************************)
(* The GPU worker is safe for every depth of its queues and any number of  *)
(* blocks and parameters.                                                  *)
(***************************************************************************)
EXTENDS VulkanBackend, TLAPS, SequenceTheorems

(* The inductive invariant, part by part. *)

Busy == {"stage", "record", "wait", "finish"}

\* The block in hand was dispatched and is not released yet.
HasBlock == wpc \in Busy => taken < committed

\* The control bus holds the values that were set and are not applied, in order.
BusHolds ==
  /\ Len(control) = version - params
  /\ \A i \in 1 .. Len(control) : control[i] = params + i

\* The worker drains the bus at the top of its loop, before it waits for the block.
Drains ==
  /\ \A n \in 0 .. MaxBlocks : asked[n] <= version
  /\ wpc \in {"poll"} \cup Busy => params >= asked[taken]

\* Each stage of dsp_vulkan_init builds on what exists.
Built ==
  /\ wpc \in {"select", "device"} => live = {"instance"}
  /\ wpc = "objects" => live = {"instance", "device"}

\* Without a timeout the GPU works only while the worker waits for it.
GpuIdle ==
  ~late => /\ wpc # "wait" => Len(gpu) = 0
           /\ wpc = "record" /\ zeroCopy => bound = Slot(Held)

TypeInv == TypeOK /\ HasBlock /\ BusHolds

-----------------------------------------------------------------------------
Flags ==
  /\ running \in BOOLEAN /\ bypass \in BOOLEAN /\ zeroCopy \in BOOLEAN
  /\ lastError \in BOOLEAN /\ late \in BOOLEAN /\ signalled \in BOOLEAN

\* FlagsKept: the flags stay Booleans.
LEMMA FlagsKept == Flags /\ [Next]_vars => Flags'
<1> SUFFICES ASSUME Flags, [Next]_vars PROVE Flags'
  OBVIOUS
<1> USE DEF Flags, hostVars, deviceVars, backendVars, ringVars, controlVars
<1>1. CASE SetParam \/ SetZeroCopyBypass \/ Dispatch \/ SignalHandler \/ GpuDone
  BY <1>1 DEF SetParam, SetZeroCopyBypass, Dispatch, SignalHandler, GpuDone
<1>2. ASSUME NEW ok \in BOOLEAN, CreateInstance(ok) \/ SelectDevice(ok) \/ CreateDevice(ok)
      PROVE  Flags'
  BY <1>2 DEF CreateInstance, SelectDevice, CreateDevice
<1>3. ASSUME NEW made \in SUBSET Unchecked, CreateObjects(made) PROVE Flags'
  BY <1>3 DEF CreateObjects
<1>4. CASE DestroyNext \/ DestroyDone \/ LoopEnds
  BY <1>4 DEF DestroyNext, DestroyDone, LoopEnds
<1>5. ASSUME NEW imported \in BOOLEAN, FollowBypass(imported) PROVE Flags'
  BY <1>5 DEF FollowBypass
<1>6. CASE ApplyControlEvent \/ Drained \/ WakeUp \/ PollTimeout
           \/ \E allocated \in BOOLEAN : ProcessStage(allocated)
  BY <1>6 DEF ApplyControlEvent, Drained, WakeUp, PollTimeout, ProcessStage
<1>7. CASE Submit \/ SubmitFails \/ SubmitCrashes \/ WaitDone \/ WaitTimeout \/ FinishBlock
  BY <1>7 DEF Submit, SubmitFails, SubmitCrashes, WaitDone, WaitTimeout, FinishBlock, Release
<1>8. CASE UNCHANGED vars
  BY <1>8 DEF vars
<1> QED BY <1>1, <1>2, <1>3, <1>4, <1>5, <1>6, <1>7, <1>8 DEF Next, WorkerStep

-----------------------------------------------------------------------------
(* The types, part by part: each variable changes in a few actions only.   *)

\* Labels: the worker is where the model has a label for it, and the command buffer
\* and the fence are borrowed only while it waits.
Labels ==
  /\ wpc \in {"start", "select", "device", "objects", "undo", "turn", "drain", "poll", "stage",
              "record", "wait", "finish", "destroy", "exited", "crashed"}
  /\ borrowed = IF wpc = "wait" THEN 2 ELSE 0
  /\ live \subseteq Objects

\* Counts: blocks and their history.
Counts ==
  /\ committed \in 0 .. MaxBlocks /\ taken \in 0 .. committed
  /\ asked \in [0 .. MaxBlocks -> 0 .. MaxSets] /\ version \in 0 .. MaxSets

\* LabelsKept: the resources follow the labels.
LEMMA LabelsKept == Labels /\ [Next]_vars => Labels'
<1> SUFFICES ASSUME Labels, [Next]_vars PROVE Labels'
  OBVIOUS
<1> USE DEF Labels, Goto, hostVars, deviceVars, backendVars, ringVars, controlVars,
            Objects, Unchecked
<1>1. CASE SetParam \/ SetZeroCopyBypass \/ Dispatch \/ SignalHandler \/ GpuDone
  BY <1>1 DEF SetParam, SetZeroCopyBypass, Dispatch, SignalHandler, GpuDone
<1>2. ASSUME NEW ok \in BOOLEAN, CreateInstance(ok) \/ SelectDevice(ok) \/ CreateDevice(ok)
      PROVE  Labels'
  BY <1>2 DEF CreateInstance, SelectDevice, CreateDevice
<1>3. ASSUME NEW made \in SUBSET Unchecked, CreateObjects(made) PROVE Labels'
  BY <1>3 DEF CreateObjects
<1>4. CASE DestroyNext \/ DestroyDone \/ LoopEnds
  BY <1>4 DEF DestroyNext, DestroyDone, LoopEnds
<1>5. ASSUME NEW imported \in BOOLEAN, FollowBypass(imported) PROVE Labels'
  BY <1>5 DEF FollowBypass
<1>6. CASE ApplyControlEvent \/ Drained \/ WakeUp \/ PollTimeout
           \/ \E allocated \in BOOLEAN : ProcessStage(allocated)
  BY <1>6 DEF ApplyControlEvent, Drained, WakeUp, PollTimeout, ProcessStage
<1>7. CASE Submit \/ SubmitFails \/ SubmitCrashes \/ WaitDone \/ WaitTimeout \/ FinishBlock
  <2>1. CASE Submit
    <3>1. borrowed = 0 /\ borrowed' = borrowed + 2 /\ wpc' = "wait" /\ live' = live
      BY <2>1 DEF Submit
    <3> QED BY <3>1
  <2>2. CASE WaitDone \/ WaitTimeout
    <3>1. borrowed = 2 /\ borrowed' = borrowed - 2 /\ wpc' = "finish" /\ live' = live
      BY <2>2 DEF WaitDone, WaitTimeout, Release
    <3> QED BY <3>1
  <2>3. CASE SubmitFails \/ SubmitCrashes \/ FinishBlock
    BY <2>3 DEF SubmitFails, SubmitCrashes, FinishBlock
  <2> QED BY <1>7, <2>1, <2>2, <2>3
<1>8. CASE UNCHANGED vars
  BY <1>8 DEF vars
<1> QED BY <1>1, <1>2, <1>3, <1>4, <1>5, <1>6, <1>7, <1>8 DEF Next, WorkerStep

\* CountsKept: only a dispatched block is released.
LEMMA CountsKept ==
  ASSUME Counts, HasBlock, [Next]_vars
  PROVE  Counts' /\ HasBlock'
<1>0. MaxBlocks \in Nat /\ MaxSets \in Nat
  BY VulkanAssumption
<1> USE <1>0 DEF Counts, HasBlock, Busy, Goto, hostVars, deviceVars, backendVars, ringVars,
            controlVars
<1>1. CASE SetParam
  BY <1>1 DEF SetParam
<1>2. CASE Dispatch
  <2>1. /\ committed' = committed + 1 /\ taken' = taken /\ version' = version /\ wpc' = wpc
        /\ committed < MaxBlocks /\ asked' = [asked EXCEPT ![committed + 1] = version]
    BY <1>2 DEF Dispatch
  <2>2. asked' \in [0 .. MaxBlocks -> 0 .. MaxSets]
    BY <2>1
  <2> QED BY <2>1, <2>2
<1>3. CASE SetZeroCopyBypass \/ SignalHandler \/ GpuDone
  BY <1>3 DEF SetZeroCopyBypass, SignalHandler, GpuDone
<1>4. ASSUME NEW ok \in BOOLEAN, CreateInstance(ok) \/ SelectDevice(ok) \/ CreateDevice(ok)
      PROVE  Counts' /\ HasBlock'
  BY <1>4 DEF CreateInstance, SelectDevice, CreateDevice
<1>5. ASSUME NEW made \in SUBSET Unchecked, CreateObjects(made) PROVE Counts' /\ HasBlock'
  BY <1>5 DEF CreateObjects
<1>6. CASE DestroyNext \/ DestroyDone \/ LoopEnds
  BY <1>6 DEF DestroyNext, DestroyDone, LoopEnds
<1>7. ASSUME NEW imported \in BOOLEAN, FollowBypass(imported) PROVE Counts' /\ HasBlock'
  BY <1>7 DEF FollowBypass
<1>8. CASE ApplyControlEvent \/ Drained \/ WakeUp \/ PollTimeout
           \/ \E allocated \in BOOLEAN : ProcessStage(allocated)
  BY <1>8 DEF ApplyControlEvent, Drained, WakeUp, PollTimeout, ProcessStage
<1>9. CASE Submit \/ SubmitFails \/ SubmitCrashes \/ WaitDone \/ WaitTimeout
  BY <1>9 DEF Submit, SubmitFails, SubmitCrashes, WaitDone, WaitTimeout, Release
<1>10. CASE FinishBlock
  <2>1. /\ committed' = committed /\ taken' = taken + 1 /\ version' = version
        /\ wpc = "finish" /\ wpc' = "turn" /\ asked' = [asked EXCEPT ![taken] = 0]
    BY <1>10 DEF FinishBlock
  <2>2. asked' \in [0 .. MaxBlocks -> 0 .. MaxSets]
    BY <2>1
  <2> QED BY <2>1, <2>2
<1>11. CASE UNCHANGED vars
  BY <1>11 DEF vars
<1> QED BY <1>1, <1>2, <1>3, <1>4, <1>5, <1>6, <1>7, <1>8, <1>9, <1>10, <1>11
       DEF Next, WorkerStep

Bus == control \in Seq(1 .. MaxSets) /\ version \in 0 .. MaxSets /\ params \in 0 .. version

\* BusKept: the values arrive in the order they were set, and none is skipped.
LEMMA BusKept ==
  ASSUME Bus, BusHolds, [Next]_vars
  PROVE  Bus' /\ BusHolds'
<1>0. MaxSets \in Nat /\ Len(control) \in Nat
  BY VulkanAssumption DEF Bus
<1>1. CASE SetParam
  <2>1. /\ version < MaxSets /\ version' = version + 1 /\ params' = params
        /\ control' = Append(control, version + 1)
    BY <1>1 DEF SetParam, backendVars
  <2>2. version + 1 \in 1 .. MaxSets
    BY <1>0, <2>1 DEF Bus
  <2>3. /\ control' \in Seq(1 .. MaxSets) /\ Len(control') = Len(control) + 1
        /\ \A i \in 1 .. Len(control) : control'[i] = control[i]
        /\ control'[Len(control) + 1] = version + 1
    BY <2>1, <2>2, AppendProperties DEF Bus
  <2>4. Len(control) + 1 = version' - params' /\ version + 1 = params + (Len(control) + 1)
    BY <1>0, <2>1 DEF Bus, BusHolds
  <2>5. \A i \in 1 .. Len(control') : control'[i] = params' + i
    BY <1>0, <2>1, <2>3, <2>4 DEF BusHolds
  <2> QED BY <1>0, <2>1, <2>3, <2>4, <2>5 DEF Bus, BusHolds
<1>2. CASE ApplyControlEvent
  <2>1. /\ control # << >> /\ version' = version /\ params' = Head(control)
        /\ control' = Tail(control)
    BY <1>2 DEF ApplyControlEvent
  <2>2. /\ control' \in Seq(1 .. MaxSets) /\ Len(control') = Len(control) - 1
        /\ \A i \in 1 .. Len(control') : control'[i] = control[i + 1]
        /\ Head(control) = control[1] /\ Len(control) >= 1
    BY <2>1, HeadTailProperties DEF Bus
  <2>3. params' = params + 1
    BY <1>0, <2>1, <2>2 DEF BusHolds
  <2>4. \A i \in 1 .. Len(control') : control'[i] = params' + i
    BY <1>0, <2>2, <2>3 DEF Bus, BusHolds
  <2>5. Len(control') = version' - params' /\ params' \in 0 .. version'
    BY <1>0, <2>1, <2>2, <2>3 DEF Bus, BusHolds
  <2> QED BY <2>1, <2>2, <2>4, <2>5 DEF Bus, BusHolds
<1>3. ASSUME UNCHANGED <<control, version, params>> PROVE Bus' /\ BusHolds'
  BY <1>3 DEF Bus, BusHolds
<1> USE DEF hostVars, deviceVars, backendVars, ringVars, controlVars
<1>4. CASE SetZeroCopyBypass \/ Dispatch \/ SignalHandler \/ GpuDone
  BY <1>3, <1>4 DEF SetZeroCopyBypass, Dispatch, SignalHandler, GpuDone
<1>5. ASSUME NEW ok \in BOOLEAN, CreateInstance(ok) \/ SelectDevice(ok) \/ CreateDevice(ok)
      PROVE  Bus' /\ BusHolds'
  BY <1>3, <1>5 DEF CreateInstance, SelectDevice, CreateDevice
<1>6. ASSUME NEW made \in SUBSET Unchecked, CreateObjects(made) PROVE Bus' /\ BusHolds'
  BY <1>3, <1>6 DEF CreateObjects
<1>7. CASE DestroyNext \/ DestroyDone \/ LoopEnds
  BY <1>3, <1>7 DEF DestroyNext, DestroyDone, LoopEnds
<1>8. ASSUME NEW imported \in BOOLEAN, FollowBypass(imported) PROVE Bus' /\ BusHolds'
  BY <1>3, <1>8 DEF FollowBypass
<1>9. CASE Drained \/ WakeUp \/ PollTimeout
           \/ \E allocated \in BOOLEAN : ProcessStage(allocated)
  BY <1>3, <1>9 DEF Drained, WakeUp, PollTimeout, ProcessStage
<1>10. CASE Submit \/ SubmitFails \/ SubmitCrashes \/ WaitDone \/ WaitTimeout \/ FinishBlock
  BY <1>3, <1>10 DEF Submit, SubmitFails, SubmitCrashes, WaitDone, WaitTimeout, FinishBlock,
                     Release
<1>11. CASE UNCHANGED vars
  BY <1>3, <1>11 DEF vars
<1> QED BY <1>1, <1>2, <1>4, <1>5, <1>6, <1>7, <1>8, <1>9, <1>10, <1>11 DEF Next, WorkerStep

Gpu == bound \in NoSlot .. Depth - 1 /\ gpu \in Seq(Commands)

\* SlotInRange: the offset of a frame is within the shared memory.
LEMMA SlotInRange ==
  ASSUME NEW n \in Nat
  PROVE  Slot(n) \in 0 .. Depth - 1
BY VulkanAssumption DEF Slot

\* Redirected: the commands after the descriptor set was rewritten under them.
LEMMA Redirected ==
  ASSUME NEW s \in NoSlot .. Depth - 1, gpu \in Seq(Commands)
  PROVE  LET r == [i \in 1 .. Len(gpu) |-> [gpu[i] EXCEPT !.slot = s]]
         IN  r \in Seq(Commands) /\ Len(r) = Len(gpu)
<1> DEFINE r == [i \in 1 .. Len(gpu) |-> [gpu[i] EXCEPT !.slot = s]]
<1>1. Len(gpu) \in Nat
  OBVIOUS
<1>2. \A i \in 1 .. Len(gpu) : gpu[i] \in Commands
  BY ElementOfSeq
<1>3. \A i \in 1 .. Len(gpu) : [gpu[i] EXCEPT !.slot = s] \in Commands
  BY <1>2 DEF Commands
<1>4. r \in Seq(Commands) /\ Len(r) = Len(gpu)
  BY <1>1, <1>3
<1> QED BY <1>4

\* GpuKept: every command is for a block that was dispatched.
LEMMA GpuKept ==
  ASSUME Gpu, Counts, HasBlock, Flags, [Next]_vars
  PROVE  Gpu'
<1>0. /\ MaxBlocks \in Nat /\ Depth \in Nat /\ Depth >= 2 /\ committed \in 0 .. MaxBlocks
      /\ taken \in 0 .. committed
  BY VulkanAssumption DEF Counts
<1>1. ASSUME UNCHANGED <<bound, gpu>> PROVE Gpu'
  BY <1>1 DEF Gpu
<1> USE DEF hostVars, deviceVars, backendVars, ringVars, controlVars
<1>2. CASE GpuDone
  BY <1>2, HeadTailProperties DEF GpuDone, Gpu
<1>3. CASE DestroyNext
  <2>1. bound' = bound /\ (gpu' = gpu \/ gpu' = << >>)
    BY <1>3 DEF DestroyNext
  <2> QED BY <2>1, EmptySeq DEF Gpu
<1>4. ASSUME NEW allocated \in BOOLEAN, ProcessStage(allocated) PROVE Gpu'
  <2>1. CASE ~zeroCopy
    BY <1>1, <1>4, <2>1 DEF ProcessStage
  <2>2. CASE zeroCopy
    <3>1. FrameSlot \in NoSlot .. Depth - 1
      BY <1>0, SlotInRange DEF FrameSlot, Held, NoSlot
    <3>2. /\ bound' = FrameSlot
          /\ \/ gpu' = gpu
             \/ gpu' = [i \in 1 .. Len(gpu) |-> [gpu[i] EXCEPT !.slot = FrameSlot]]
      BY <1>4, <2>2 DEF ProcessStage, Rebind
    <3> QED BY <3>1, <3>2, Redirected DEF Gpu
  <2> QED BY <2>1, <2>2
<1>5. CASE Submit
  <2>1. gpu' = Append(gpu, Command) /\ bound' = bound /\ taken < committed
    BY <1>5 DEF Submit, HasBlock, Busy
  <2>2. Held \in 1 .. MaxBlocks
    BY <1>0, <2>1 DEF Held
  <2>3. Command \in Commands
    BY <2>2 DEF Command, Commands, Gpu, Flags
  <2> QED BY <2>1, <2>3, AppendProperties DEF Gpu
<1>6. CASE SubmitCrashes
  <2>1. bound' = bound /\ gpu' = << >>
    BY <1>6 DEF SubmitCrashes
  <2> QED BY <2>1, EmptySeq DEF Gpu
<1>7. CASE SetParam \/ SetZeroCopyBypass \/ Dispatch \/ SignalHandler
  BY <1>1, <1>7 DEF SetParam, SetZeroCopyBypass, Dispatch, SignalHandler
<1>8. ASSUME NEW ok \in BOOLEAN, CreateInstance(ok) \/ SelectDevice(ok) \/ CreateDevice(ok)
      PROVE  Gpu'
  BY <1>1, <1>8 DEF CreateInstance, SelectDevice, CreateDevice
<1>9. ASSUME NEW made \in SUBSET Unchecked, CreateObjects(made) PROVE Gpu'
  BY <1>1, <1>9 DEF CreateObjects
<1>10. CASE DestroyDone \/ LoopEnds
  BY <1>1, <1>10 DEF DestroyDone, LoopEnds
<1>11. ASSUME NEW imported \in BOOLEAN, FollowBypass(imported) PROVE Gpu'
  BY <1>1, <1>11 DEF FollowBypass
<1>12. CASE ApplyControlEvent \/ Drained \/ WakeUp \/ PollTimeout
  BY <1>1, <1>12 DEF ApplyControlEvent, Drained, WakeUp, PollTimeout
<1>13. CASE SubmitFails \/ WaitDone \/ WaitTimeout \/ FinishBlock
  BY <1>1, <1>13 DEF SubmitFails, WaitDone, WaitTimeout, FinishBlock, Release
<1>14. CASE UNCHANGED vars
  BY <1>1, <1>14 DEF vars
<1> QED BY <1>2, <1>3, <1>4, <1>5, <1>6, <1>7, <1>8, <1>9, <1>10, <1>11, <1>12, <1>13, <1>14
       DEF Next, WorkerStep

\* TypeParts: the types are the conjunction of the parts.
LEMMA TypeParts == TypeOK <=> Labels /\ Flags /\ Counts /\ Bus /\ Gpu
BY DEF TypeOK, Labels, Flags, Counts, Bus, Gpu

\* TypeInvariant: types, the block in hand and the contents of the bus.
LEMMA TypeInvariant == Spec => []TypeInv
<1>1. Init => TypeInv
  <2> SUFFICES ASSUME Init PROVE TypeInv
    OBVIOUS
  <2>1. Flags
    BY DEF Init, Flags
  <2>2. Labels
    BY DEF Init, Labels
  <2>3. Counts /\ HasBlock
    BY VulkanAssumption DEF Init, Counts, HasBlock, Busy
  <2>4. Bus /\ BusHolds
    BY VulkanAssumption, EmptySeq DEF Init, Bus, BusHolds
  <2>5. Gpu
    BY VulkanAssumption, EmptySeq DEF Init, Gpu, NoSlot
  <2> QED BY <2>1, <2>2, <2>3, <2>4, <2>5, TypeParts DEF TypeInv
<1>2. TypeInv /\ [Next]_vars => TypeInv'
  <2> SUFFICES ASSUME TypeInv, [Next]_vars PROVE TypeInv'
    OBVIOUS
  <2>1. Labels /\ Flags /\ Counts /\ Bus /\ Gpu /\ HasBlock /\ BusHolds
    BY TypeParts DEF TypeInv
  <2>2. Labels' /\ Flags'
    BY <2>1, LabelsKept, FlagsKept
  <2>3. Counts' /\ HasBlock' /\ Bus' /\ BusHolds' /\ Gpu'
    BY <2>1, CountsKept, BusKept, GpuKept
  <2>4. TypeOK'
    BY <2>2, <2>3 DEF TypeOK, Labels, Flags, Counts, Bus, Gpu
  <2> QED BY <2>3, <2>4 DEF TypeInv
<1> QED BY <1>1, <1>2, PTL DEF Spec

\* VulkanTypes: the worker releases only what was dispatched, and gives back what it
\* borrowed whichever way dsp_vulkan_dispatch is left.
THEOREM VulkanTypes == Spec => []TypeOK
BY TypeInvariant, PTL DEF TypeInv

-----------------------------------------------------------------------------
(* The life of the context. *)

\* What TakenDownInOrder says of the objects.
InOrder ==
  /\ live \cap Unchecked # {} => "device" \in live
  /\ "device" \in live => "instance" \in live
  /\ wpc = "exited" => live \subseteq {"buffers"}

\* ObjectsInOrder: the objects of a context are made parent first and destroyed child
\* first, whichever call of dsp_vulkan_init failed.
LEMMA ObjectsInOrder == Spec => []InOrder
<1> DEFINE Inv == Built /\ InOrder
<1>1. Init => Inv
  BY DEF Init, Built, InOrder
<1>2. TypeInv /\ Inv /\ [Next]_vars => Inv'
  <2> SUFFICES ASSUME TypeInv, Inv, [Next]_vars PROVE Inv'
    OBVIOUS
  <2>1. Labels
    BY TypeParts DEF TypeInv
  <2> USE DEF Built, InOrder, Goto, hostVars, deviceVars, backendVars, ringVars,
              controlVars, Unchecked
  <2>2. CASE SetParam \/ SetZeroCopyBypass \/ Dispatch \/ SignalHandler \/ GpuDone
    BY <2>2 DEF SetParam, SetZeroCopyBypass, Dispatch, SignalHandler, GpuDone
  <2>3. ASSUME NEW ok \in BOOLEAN, CreateInstance(ok) \/ SelectDevice(ok) \/ CreateDevice(ok)
        PROVE  Inv'
    BY <2>3 DEF CreateInstance, SelectDevice, CreateDevice
  <2>4. ASSUME NEW made \in SUBSET Unchecked, CreateObjects(made) PROVE Inv'
    BY <2>4 DEF CreateObjects
  <2>5. CASE DestroyNext
    <3>1. PICK i \in Remaining : /\ \A j \in Remaining : i <= j
                                 /\ live' = live \ {DestroyOrder[i]}
      BY <2>5 DEF DestroyNext
    <3>2. /\ DestroyOrder[1] = "pipeline" /\ DestroyOrder[2] = "commandPool"
          /\ DestroyOrder[3] = "device" /\ DestroyOrder[4] = "instance"
          /\ Len(DestroyOrder) = 4
      BY DEF DestroyOrder
    <3>3. i \in {1, 2, 3, 4}
      BY <3>1, <3>2 DEF Remaining
    <3>4. \A j \in {1, 2, 3, 4} : j < i => DestroyOrder[j] \notin live
      BY <3>1, <3>2, <3>3 DEF Remaining
    <3>5. wpc' = wpc /\ wpc \in {"undo", "destroy"}
      BY <2>5 DEF DestroyNext
    <3>6. CASE i \in {1, 2}
      BY <3>1, <3>2, <3>5, <3>6
    <3>7. CASE i = 3
      <4>1. "pipeline" \notin live /\ "commandPool" \notin live
        BY <3>2, <3>4, <3>7
      <4> QED BY <3>1, <3>2, <3>5, <3>7, <4>1
    <3>8. CASE i = 4
      <4>1. "pipeline" \notin live /\ "commandPool" \notin live /\ "device" \notin live
        BY <3>2, <3>4, <3>8
      <4> QED BY <3>1, <3>2, <3>5, <3>8, <4>1
    <3> QED BY <3>3, <3>6, <3>7, <3>8
  <2>6. CASE DestroyDone
    <3>1. \A i \in {1, 2, 3, 4} : DestroyOrder[i] \notin live
      <4>1. Len(DestroyOrder) = 4 /\ Remaining = {}
        BY <2>6 DEF DestroyDone, DestroyOrder
      <4> QED BY <4>1 DEF Remaining
    <3>2. live \subseteq {"buffers"}
      BY <2>1, <3>1 DEF DestroyOrder, Labels, Objects
    <3> QED BY <2>6, <3>2 DEF DestroyDone
  <2>7. ASSUME LoopEnds \/ \E imported \in BOOLEAN : FollowBypass(imported) PROVE Inv'
    BY <2>7 DEF LoopEnds, FollowBypass
  <2>8. CASE ApplyControlEvent \/ Drained \/ WakeUp \/ PollTimeout
           \/ \E allocated \in BOOLEAN : ProcessStage(allocated)
    BY <2>8 DEF ApplyControlEvent, Drained, WakeUp, PollTimeout, ProcessStage
  <2>9. CASE Submit \/ SubmitFails \/ SubmitCrashes \/ WaitDone \/ WaitTimeout \/ FinishBlock
    BY <2>9 DEF Submit, SubmitFails, SubmitCrashes, WaitDone, WaitTimeout, FinishBlock, Release
  <2>10. CASE UNCHANGED vars
    BY <2>10 DEF vars
  <2> QED BY <2>2, <2>3, <2>4, <2>5, <2>6, <2>7, <2>8, <2>9, <2>10 DEF Next, WorkerStep
<1> QED BY <1>1, <1>2, TypeInvariant, PTL DEF Spec

-----------------------------------------------------------------------------
(* The GPU and the slots. *)

\* GpuStays: as long as no wait has timed out the GPU works on the block in hand.
LEMMA GpuStays ==
  ASSUME TypeInv, GpuIdle, GpuInHeldSlot, [Next]_vars
  PROVE  GpuIdle' /\ GpuInHeldSlot'
<1>0. gpu \in Seq(Commands) /\ Len(gpu) \in Nat
  BY DEF TypeInv, TypeOK
<1>1. CASE late'
  BY <1>1 DEF GpuIdle, GpuInHeldSlot
<1>2. CASE ~late'
  <2> USE DEF hostVars, deviceVars, backendVars, ringVars, controlVars, Goto
  <2>1. ~late
    BY <1>2 DEF Next, WorkerStep, SetParam, SetZeroCopyBypass, Dispatch, SignalHandler, GpuDone,
       CreateInstance, SelectDevice, CreateDevice, CreateObjects, DestroyNext, DestroyDone,
       LoopEnds, FollowBypass, ApplyControlEvent, Drained, WakeUp, PollTimeout, ProcessStage,
       Submit, SubmitFails, SubmitCrashes, WaitDone, WaitTimeout, FinishBlock, vars
  <2>2. /\ wpc # "wait" => Len(gpu) = 0
        /\ wpc = "record" /\ zeroCopy => bound = Slot(Held)
        /\ \A i \in 1 .. Len(gpu) : gpu[i].zeroCopy => wpc = "wait" /\ gpu[i].slot = Slot(Held)
    BY <2>1 DEF GpuIdle, GpuInHeldSlot
  <2>3. ASSUME Len(gpu') = 0, wpc' # "record" PROVE GpuIdle' /\ GpuInHeldSlot'
    BY <2>3 DEF GpuIdle, GpuInHeldSlot
  <2>4. ASSUME UNCHANGED <<gpu, taken, wpc, zeroCopy, bound>> PROVE GpuIdle' /\ GpuInHeldSlot'
    BY <2>2, <2>4 DEF GpuIdle, GpuInHeldSlot, Held
  <2>5. CASE SetParam \/ SetZeroCopyBypass \/ Dispatch \/ SignalHandler \/ UNCHANGED vars
    BY <2>4, <2>5 DEF SetParam, SetZeroCopyBypass, Dispatch, SignalHandler, vars
  <2>6. CASE GpuDone
    <3>1. /\ gpu # << >> /\ gpu' = Tail(gpu) /\ Held' = Held
          /\ UNCHANGED <<taken, wpc, zeroCopy, bound>>
      BY <2>6 DEF GpuDone, Held
    <3>2. Len(gpu') = Len(gpu) - 1 /\ \A i \in 1 .. Len(gpu') : gpu'[i] = gpu[i + 1]
      BY <1>0, <3>1, HeadTailProperties
    <3>3. Len(gpu) # 0
      BY <1>0, <3>1, EmptySeq
    <3>4. wpc' = "wait"
      BY <2>2, <3>1, <3>3
    <3>5. \A i \in 1 .. Len(gpu') : gpu'[i].zeroCopy => gpu'[i].slot = Slot(Held')
      BY <1>0, <2>2, <3>1, <3>2
    <3> QED BY <3>4, <3>5 DEF GpuIdle, GpuInHeldSlot
  <2>7. ASSUME NEW ok \in BOOLEAN, CreateInstance(ok) \/ SelectDevice(ok) \/ CreateDevice(ok)
        PROVE  GpuIdle' /\ GpuInHeldSlot'
    BY <2>2, <2>3, <2>7 DEF CreateInstance, SelectDevice, CreateDevice
  <2>8. ASSUME NEW made \in SUBSET Unchecked, CreateObjects(made)
        PROVE  GpuIdle' /\ GpuInHeldSlot'
    BY <2>2, <2>3, <2>8 DEF CreateObjects
  <2>9. CASE DestroyNext
    <3>1. gpu' = gpu \/ gpu' = << >>
      BY <2>9 DEF DestroyNext
    <3>2. Len(gpu') = 0 /\ wpc' # "record"
      BY <2>2, <2>9, <3>1, EmptySeq DEF DestroyNext
    <3> QED BY <2>3, <3>2
  <2>10. ASSUME DestroyDone \/ LoopEnds \/ \E imported \in BOOLEAN : FollowBypass(imported)
         PROVE  GpuIdle' /\ GpuInHeldSlot'
    BY <2>2, <2>3, <2>10 DEF DestroyDone, LoopEnds, FollowBypass
  <2>11. CASE ApplyControlEvent \/ Drained \/ WakeUp \/ PollTimeout
    BY <2>2, <2>3, <2>11 DEF ApplyControlEvent, Drained, WakeUp, PollTimeout
  <2>12. ASSUME NEW allocated \in BOOLEAN, ProcessStage(allocated)
         PROVE  GpuIdle' /\ GpuInHeldSlot'
    <3>1. /\ wpc = "stage" /\ wpc' = "record" /\ UNCHANGED <<zeroCopy, taken>> /\ Len(gpu) = 0
          /\ IF zeroCopy THEN Rebind ELSE UNCHANGED <<bound, gpu>>
      BY <2>2, <2>12 DEF ProcessStage
    <3>2. Len(gpu') = 0
      <4>1. gpu' = gpu \/ gpu' = [i \in 1 .. 0 |-> [gpu[i] EXCEPT !.slot = FrameSlot]]
        BY <3>1 DEF Rebind
      <4> QED BY <3>1, <4>1
    <3>3. zeroCopy' => bound' = Slot(Held')
      BY <3>1 DEF Rebind, FrameSlot, Held
    <3> QED BY <3>1, <3>2, <3>3 DEF GpuIdle, GpuInHeldSlot
  <2>13. CASE Submit
    <3>1. /\ wpc = "record" /\ wpc' = "wait" /\ gpu' = Append(gpu, Command)
          /\ Held' = Held /\ zeroCopy' = zeroCopy /\ bound' = bound /\ Len(gpu) = 0
      BY <2>2, <2>13 DEF Submit, Held
    <3>2. Len(gpu') = 1 /\ gpu'[1] = Command
      BY <1>0, <3>1
    <3>3. Command.zeroCopy => Command.slot = Slot(Held)
      BY <2>2, <3>1 DEF Command
    <3>4. \A i \in 1 .. Len(gpu') : i = 1
      BY <3>2
    <3> QED BY <3>1, <3>2, <3>3, <3>4 DEF GpuIdle, GpuInHeldSlot
  <2>14. CASE SubmitFails
    BY <2>2, <2>3, <2>14 DEF SubmitFails
  <2>15. CASE SubmitCrashes
    <3>1. gpu' = << >> /\ wpc' = "crashed"
      BY <2>15 DEF SubmitCrashes
    <3> QED BY <2>3, <3>1, EmptySeq
  <2>16. CASE WaitDone
    <3>1. gpu' = << >> /\ wpc' = "finish"
      BY <2>16 DEF WaitDone, Release
    <3> QED BY <2>3, <3>1, EmptySeq
  <2>17. CASE WaitTimeout
    BY <1>2, <2>17 DEF WaitTimeout
  <2>18. CASE FinishBlock
    BY <2>2, <2>3, <2>18 DEF FinishBlock
  <2> QED BY <2>5, <2>6, <2>7, <2>8, <2>9, <2>10, <2>11, <2>12, <2>13, <2>14, <2>15, <2>16,
             <2>17, <2>18 DEF Next, WorkerStep
<1> QED BY <1>1, <1>2

\* GpuInvariant: without a timeout the GPU is idle whenever the worker is not waiting.
LEMMA GpuInvariant == Spec => [](GpuIdle /\ GpuInHeldSlot)
<1>1. Init => GpuIdle /\ GpuInHeldSlot
  BY EmptySeq DEF Init, GpuIdle, GpuInHeldSlot
<1>2. TypeInv /\ GpuIdle /\ GpuInHeldSlot /\ [Next]_vars => (GpuIdle /\ GpuInHeldSlot)'
  BY GpuStays
<1> QED BY <1>1, <1>2, TypeInvariant, PTL DEF Spec

\* GpuOnHeldSlot: without a timeout the GPU never touches a slot the plugin may write.
THEOREM GpuOnHeldSlot == Spec => []GpuInHeldSlot
BY GpuInvariant, PTL

\* ContextInOrder: dsp_vulkan_destroy takes down what dsp_vulkan_init made child before
\* parent and all of it, with no command in flight unless a wait has timed out.  The
\* buffers of the pool, which it does not free, are excepted by the statement.
THEOREM ContextInOrder == Spec => []TakenDownInOrder
<1>1. TypeInv /\ GpuIdle /\ InOrder => TakenDownInOrder
  <2> SUFFICES ASSUME TypeInv, GpuIdle, InOrder PROVE TakenDownInOrder
    OBVIOUS
  <2>1. gpu \in Seq(Commands)
    BY DEF TypeInv, TypeOK
  <2>2. wpc \in {"undo", "destroy", "exited"} /\ ~late => gpu = << >>
    BY <2>1, EmptySeq DEF GpuIdle
  <2> QED BY <2>2 DEF InOrder, TakenDownInOrder
<1> QED BY <1>1, TypeInvariant, GpuInvariant, ObjectsInOrder, PTL

-----------------------------------------------------------------------------
(* The parameters. *)

\* ParamsOnTime: the parameters set before a block was dispatched are applied at the
\* latest when the block after it is processed.
THEOREM ParamsOnTime == Spec => []ParamsInTime
<1>1. Init => Drains
  <2> SUFFICES ASSUME Init PROVE Drains
    OBVIOUS
  <2>1. version = 0 /\ wpc = "start" /\ \A n \in 0 .. MaxBlocks : asked[n] = 0
    BY DEF Init
  <2> QED BY <2>1 DEF Drains, Busy
<1>2. TypeInv /\ Drains /\ [Next]_vars => Drains'
  <2> SUFFICES ASSUME TypeInv, Drains, [Next]_vars PROVE Drains'
    OBVIOUS
  <2>0. Counts /\ Bus /\ HasBlock /\ BusHolds
    BY TypeParts DEF TypeInv
  <2>1. /\ MaxBlocks \in Nat /\ committed \in 0 .. MaxBlocks /\ taken \in 0 .. committed
        /\ version \in Nat /\ params \in Nat /\ taken \in 0 .. MaxBlocks
        /\ \A n \in 0 .. MaxBlocks : asked[n] \in Nat
        /\ asked \in [0 .. MaxBlocks -> 0 .. MaxSets]
    BY <2>0, VulkanAssumption DEF Counts, Bus
  <2> USE DEF hostVars, deviceVars, backendVars, ringVars, controlVars, Goto
  <2>2. ASSUME UNCHANGED <<asked, version, taken, params>>,
               wpc' \in {"poll"} \cup Busy => wpc \in {"poll"} \cup Busy
        PROVE  Drains'
    BY <2>2 DEF Drains
  <2>3. CASE SetParam
    <3>1. version' = version + 1 /\ UNCHANGED <<asked, taken, params, wpc>>
      BY <2>3 DEF SetParam
    <3>2. \A n \in 0 .. MaxBlocks : asked'[n] <= version'
      BY <2>1, <3>1 DEF Drains
    <3> QED BY <3>1, <3>2 DEF Drains
  <2>4. CASE Dispatch
    <3>1. /\ asked' = [asked EXCEPT ![committed + 1] = version]
          /\ UNCHANGED <<version, taken, params, wpc>> /\ committed < MaxBlocks
      BY <2>4 DEF Dispatch
    <3>2. asked'[taken] = asked[taken]
      BY <2>1, <3>1
    <3>3. \A n \in 0 .. MaxBlocks : asked'[n] <= version'
      BY <2>1, <3>1 DEF Drains
    <3> QED BY <3>1, <3>2, <3>3 DEF Drains
  <2>5. CASE SetZeroCopyBypass \/ SignalHandler \/ GpuDone \/ UNCHANGED vars
    BY <2>2, <2>5 DEF SetZeroCopyBypass, SignalHandler, GpuDone, vars
  <2>6. ASSUME NEW ok \in BOOLEAN, CreateInstance(ok) \/ SelectDevice(ok) \/ CreateDevice(ok)
        PROVE  Drains'
    BY <2>2, <2>6 DEF CreateInstance, SelectDevice, CreateDevice, Busy
  <2>7. ASSUME NEW made \in SUBSET Unchecked, CreateObjects(made) PROVE Drains'
    BY <2>2, <2>7 DEF CreateObjects, Busy
  <2>8. ASSUME DestroyNext \/ DestroyDone \/ LoopEnds
               \/ \E imported \in BOOLEAN : FollowBypass(imported)
        PROVE  Drains'
    BY <2>2, <2>8 DEF DestroyNext, DestroyDone, LoopEnds, FollowBypass, Busy
  <2>9. CASE ApplyControlEvent
    <3>1. UNCHANGED <<asked, version, wpc, taken>> /\ wpc = "drain"
      BY <2>9 DEF ApplyControlEvent
    <3> QED BY <3>1 DEF Drains, Busy
  <2>10. CASE Drained
    <3>1. UNCHANGED <<asked, version, taken, params>> /\ control = << >>
      BY <2>10 DEF Drained
    <3>2. params = version
      BY <2>0, <2>1, <3>1, EmptySeq DEF BusHolds
    <3> QED BY <2>1, <3>1, <3>2 DEF Drains
  <2>11. CASE WakeUp \/ PollTimeout
           \/ \E allocated \in BOOLEAN : ProcessStage(allocated)
    BY <2>2, <2>11 DEF WakeUp, PollTimeout, ProcessStage, Busy
  <2>12. CASE Submit \/ SubmitFails \/ SubmitCrashes \/ WaitDone \/ WaitTimeout
    BY <2>2, <2>12 DEF Submit, SubmitFails, SubmitCrashes, WaitDone, WaitTimeout, Release, Busy
  <2>13. CASE FinishBlock
    <3>1. asked' = [asked EXCEPT ![taken] = 0] /\ version' = version /\ wpc' = "turn"
      BY <2>13 DEF FinishBlock
    <3>2. \A n \in 0 .. MaxBlocks : asked'[n] <= version'
      BY <2>1, <3>1 DEF Drains
    <3> QED BY <3>1, <3>2 DEF Drains, Busy
  <2> QED BY <2>3, <2>4, <2>5, <2>6, <2>7, <2>8, <2>9, <2>10, <2>11, <2>12, <2>13
         DEF Next, WorkerStep
<1>3. Drains => ParamsInTime
  BY DEF Drains, ParamsInTime, Busy
<1> QED BY <1>1, <1>2, <1>3, TypeInvariant, PTL DEF Spec
=============================================================================
