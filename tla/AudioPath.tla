------------------------------ MODULE AudioPath ------------------------------
(***************************************************************************)
(* One plugin and one hardware worker exchanging audio blocks.             *)
(*                                                                         *)
(* The plugin's audio thread runs plugin_process: dsp_accel_sdk_dispatch   *)
(* puts the block into in_queue and adds one to the eventfd e_send, then   *)
(* dsp_accel_sdk_read_output waits for e_recv and takes one block out of   *)
(* out_queue.  The worker's loop (worker.cpp main) does the converse.  The *)
(* queues are FIFOs of Depth - 1 blocks, which is what SPSCRing shows of   *)
(* ShmSPSCRingBuffer.  A read of an eventfd returns its counter and resets *)
(* it, so several signals can become one wake-up.                          *)
(*                                                                         *)
(* A block is known by the number of the callback that dispatched it.      *)
(***************************************************************************)
EXTENDS Integers, Sequences, FiniteSets, SequencesExt

CONSTANTS Depth,         \* IPC_QUEUE_DEPTH
          StallLimit,    \* the threshold of the watchdog, 10 in the code
          CounterMod,    \* heartbeat_stalled_count is a uint32_t: 2^32
          HasOutputs,    \* the plugin has an output port to fill
          SignalMayFail, \* write() and the worker's read() of an eventfd may fail
          MaxBlocks      \* bound: callbacks of the host that are explored

ASSUME DepthAssumption == Depth \in Nat /\ Depth >= 2
ASSUME WatchdogAssumption == /\ StallLimit \in Nat /\ CounterMod \in Nat
                             /\ CounterMod > StallLimit + 1
ASSUME PortAssumption == HasOutputs \in BOOLEAN /\ SignalMayFail \in BOOLEAN
ASSUME BlocksAssumption == MaxBlocks \in Nat

VARIABLES
  inQueue, outQueue,  \* the two rings: block numbers, oldest first
  eSend, eRecv,       \* the eventfd counters
  lastError,          \* workers[id].last_error # NONE
  beaten,             \* heartbeat has moved since the SDK last looked at it
  stalled,            \* heartbeat_stalled_count
  xruns,              \* xrun_count
  ppc,                \* where the audio thread is in plugin_process
  block,              \* the callback it is in (or was in last)
  wpc,                \* where the worker is in its loop
  received,           \* history: blocks read_output handed to the host, in order
  dropped,            \* history: blocks processed while out_queue was full
  committed,          \* history: blocks that were put into in_queue
  fed,                \* history: how many of them after the worker had stopped
  afterError,         \* history: blocks handed to the host since last_error was set
  unsignalled         \* history: a write() on eventfd_send has failed

sharedVars == <<inQueue, outQueue, eSend, eRecv, lastError, beaten>>
sdkVars == <<stalled, xruns, ppc, block>>
history == <<received, dropped, committed, fed, afterError, unsignalled>>
vars == <<sharedVars, sdkVars, wpc, history>>

Init ==
  /\ inQueue = << >> /\ outQueue = << >> /\ eSend = 0 /\ eRecv = 0
  /\ lastError = FALSE /\ beaten = FALSE
  /\ stalled = 0 /\ xruns = 0 /\ ppc = "idle" /\ block = 0
  /\ wpc = "loop"
  /\ received = << >> /\ dropped = {} /\ committed = {} /\ fed = 0
  /\ afterError = 0 /\ unsignalled = FALSE

\* mutant: the slot that tells full from empty is used as well
IsFullLate(queue) == Len(queue) = Depth

IsFull(queue) == Len(queue) = Depth - 1

-----------------------------------------------------------------------------
(* The audio thread.  A callback that returns to "idle" without a block    *)
(* from the hardware has run the CPU fallback.                             *)

\* mutant: last_error is ignored
IgnoreError == FALSE

\* last_error.load() != NONE
WorkerFailed == lastError

\* mutant: the stall counter is not incremented
StalledStuck == IF beaten THEN 0 ELSE stalled

\* The watchdog: blocks since the heartbeat last moved.
Stalled == IF beaten THEN 0 ELSE (stalled + 1) % CounterMod

\* dsp_accel_sdk_dispatch up to reserve_write: an error of the worker, a
\* stalled heartbeat or a full in_queue send this block to the CPU.
Dispatch ==
  /\ ppc = "idle" /\ block < MaxBlocks
  /\ block' = block + 1
  /\ IF WorkerFailed
     THEN UNCHANGED <<beaten, stalled, xruns, ppc>>
     ELSE /\ beaten' = FALSE
          /\ stalled' = Stalled
          /\ CASE Stalled > StallLimit ->
                    UNCHANGED <<xruns, ppc>>
               [] Stalled <= StallLimit /\ IsFull(inQueue) ->
                    xruns' = xruns + 1 /\ UNCHANGED ppc
               [] OTHER ->
                    ppc' = "commit" /\ UNCHANGED xruns
  /\ UNCHANGED <<inQueue, outQueue, eSend, eRecv, lastError, wpc, history>>

\* mutant: the worker is signalled only when in_queue was empty
CommitWriteQuiet ==
  /\ ppc = "commit"
  /\ inQueue' = Append(inQueue, block)
  /\ ppc' = IF inQueue = << >> THEN "signal" ELSE "poll"
  /\ committed' = committed \cup {block}
  /\ fed' = IF wpc = "dead" THEN fed + 1 ELSE fed
  /\ UNCHANGED <<outQueue, eSend, eRecv, lastError, beaten, stalled, xruns,
                 block, wpc, received, dropped, afterError, unsignalled>>

\* The block is copied into the reserved slot; commit_write.
CommitWrite ==
  /\ ppc = "commit"
  /\ inQueue' = Append(inQueue, block)
  /\ ppc' = "signal"
  /\ committed' = committed \cup {block}
  /\ fed' = IF wpc = "dead" THEN fed + 1 ELSE fed
  /\ UNCHANGED <<outQueue, eSend, eRecv, lastError, beaten, stalled, xruns,
                 block, wpc, received, dropped, afterError, unsignalled>>

\* write(eventfd_send), then on to read_output.
SignalWorker ==
  /\ ppc = "signal"
  /\ eSend' = eSend + 1
  /\ ppc' = IF HasOutputs THEN "poll" ELSE "idle"
  /\ UNCHANGED <<inQueue, outQueue, eRecv, lastError, beaten, stalled, xruns,
                 block, wpc, history>>

\* The write fails: an xrun and the CPU fallback, yet the block is committed.
SignalFails ==
  /\ SignalMayFail
  /\ ppc = "signal"
  /\ xruns' = xruns + 1
  /\ ppc' = "idle"
  /\ unsignalled' = TRUE
  /\ UNCHANGED <<sharedVars, stalled, block, wpc, received, dropped, committed, fed,
                 afterError>>

\* mutant: the counter is not reset
ReadEventKeep ==
  /\ ppc = "poll" /\ eRecv > 0
  /\ ppc' = "peek"
  /\ UNCHANGED <<sharedVars, stalled, xruns, block, wpc, history>>

\* poll(eventfd_recv, 5 ms) finds the counter above zero and read() resets it.
ReadEvent ==
  /\ ppc = "poll" /\ eRecv > 0
  /\ eRecv' = 0
  /\ ppc' = "peek"
  /\ UNCHANGED <<inQueue, outQueue, eSend, lastError, beaten, stalled, xruns,
                 block, wpc, history>>

\* mutant: poll() waits without a timeout
PollForever == FALSE

\* The poll times out: read_output returns false.
PollTimeout ==
  /\ ppc = "poll" /\ eRecv = 0
  /\ ppc' = "idle"
  /\ UNCHANGED <<sharedVars, stalled, xruns, block, wpc, history>>

\* One block is copied to the host and its slot released; if there is none,
\* read_output returns false.
TakeOutput ==
  /\ ppc = "peek"
  /\ ppc' = "idle"
  /\ IF outQueue = << >>
     THEN UNCHANGED <<outQueue, received, afterError>>
     ELSE /\ outQueue' = Tail(outQueue)
          /\ received' = Append(received, Head(outQueue))
          /\ afterError' = IF lastError THEN afterError + 1 ELSE afterError
  /\ UNCHANGED <<inQueue, eSend, eRecv, lastError, beaten, stalled, xruns,
                 block, wpc, dropped, committed, fed, unsignalled>>

-----------------------------------------------------------------------------
(* The worker. *)

Heartbeat ==
  /\ wpc = "loop"
  /\ beaten' = TRUE
  /\ wpc' = "poll"
  /\ UNCHANGED <<inQueue, outQueue, eSend, eRecv, lastError, sdkVars, history>>

\* poll(e_send, 1 ms) and read(): the whole counter is consumed.
WakeUp ==
  /\ wpc = "poll" /\ eSend > 0
  /\ eSend' = 0
  /\ wpc' = "peek"
  /\ UNCHANGED <<inQueue, outQueue, eRecv, lastError, beaten, sdkVars, history>>

\* Nothing has come in 1 ms, or read() fails and the counter stays as it is.
WorkerTimeout ==
  /\ wpc = "poll" /\ (eSend = 0 \/ SignalMayFail)
  /\ wpc' = "loop"
  /\ UNCHANGED <<sharedVars, sdkVars, history>>

\* One block per wake-up.
PeekInput ==
  /\ wpc = "peek"
  /\ wpc' = IF inQueue = << >> THEN "loop" ELSE "process"
  /\ UNCHANGED <<sharedVars, sdkVars, history>>

\* process_graph or process_graph_parallel, in place; a failure is recorded
\* and the block goes on all the same.
Process(success) ==
  /\ wpc = "process"
  /\ lastError' = (lastError \/ ~success)
  /\ wpc' = "output"
  /\ UNCHANGED <<inQueue, outQueue, eSend, eRecv, beaten, sdkVars, history>>

\* mutant: a full out_queue loses its oldest block instead
WriteOutputOver ==
  /\ wpc = "output"
  /\ wpc' = "release"
  /\ outQueue' = Append(IF IsFull(outQueue) THEN Tail(outQueue) ELSE outQueue,
                        Head(inQueue))
  /\ UNCHANGED <<inQueue, eSend, eRecv, lastError, beaten, sdkVars, history>>

\* The block is copied to out_queue, or lost when there is no room.
WriteOutput ==
  /\ wpc = "output"
  /\ wpc' = "release"
  /\ IF IsFull(outQueue)
     THEN dropped' = dropped \cup {Head(inQueue)} /\ UNCHANGED outQueue
     ELSE outQueue' = Append(outQueue, Head(inQueue)) /\ UNCHANGED dropped
  /\ UNCHANGED <<inQueue, eSend, eRecv, lastError, beaten, sdkVars,
                 received, committed, fed, afterError, unsignalled>>

\* mutant: the slot is not released
CommitReadKeep ==
  /\ wpc = "release"
  /\ wpc' = "notify"
  /\ UNCHANGED <<sharedVars, sdkVars, history>>

\* in_queue.commit_read()
CommitRead ==
  /\ wpc = "release"
  /\ inQueue' = Tail(inQueue)
  /\ wpc' = "notify"
  /\ UNCHANGED <<outQueue, eSend, eRecv, lastError, beaten, sdkVars, history>>

\* write(e_recv), also when the block was dropped.
SignalPlugin ==
  /\ wpc = "notify"
  /\ eRecv' = eRecv + 1
  /\ wpc' = "loop"
  /\ UNCHANGED <<inQueue, outQueue, eSend, lastError, beaten, sdkVars, history>>

\* The write fails: the block waits in out_queue for a signal that is about another.
SignalPluginFails ==
  /\ SignalMayFail
  /\ wpc = "notify"
  /\ wpc' = "loop"
  /\ UNCHANGED <<sharedVars, sdkVars, history>>

\* The process dies, or its thread never returns from the driver.
WorkerStops ==
  /\ wpc # "dead"
  /\ wpc' = "dead"
  /\ UNCHANGED <<sharedVars, sdkVars, history>>

-----------------------------------------------------------------------------
\* The callback in progress moves on.
PluginStep ==
  \/ CommitWrite \/ SignalWorker \/ SignalFails
  \/ ReadEvent \/ PollTimeout \/ TakeOutput

WorkerStep ==
  \/ Heartbeat \/ WakeUp \/ WorkerTimeout \/ PeekInput
  \/ \E success \in BOOLEAN : Process(success)
  \/ WriteOutput \/ CommitRead \/ SignalPlugin \/ SignalPluginFails

Next == Dispatch \/ PluginStep \/ WorkerStep \/ WorkerStops

Spec == Init /\ [][Next]_vars

\* The audio thread is scheduled; nothing is assumed of the host, which may
\* stop calling, nor of the worker.
PluginFairSpec == Spec /\ WF_vars(PluginStep)

\* As long as it lives the worker's thread (SCHED_FIFO, worker.cpp:164) runs.
FairSpec == PluginFairSpec /\ WF_vars(WorkerStep)

-----------------------------------------------------------------------------
(* Properties. *)

Blocks == 1 .. MaxBlocks

\* TypeOK: the variables have their types, and neither ring holds more than
\* Depth - 1 blocks although it is checked long before it is filled.
TypeOK ==
  /\ inQueue \in Seq(Blocks) /\ Len(inQueue) < Depth
  /\ outQueue \in Seq(Blocks) /\ Len(outQueue) < Depth
  /\ eSend \in Nat /\ eRecv \in Nat
  /\ lastError \in BOOLEAN /\ beaten \in BOOLEAN
  /\ stalled \in 0 .. CounterMod - 1 /\ xruns \in Nat
  /\ ppc \in {"idle", "commit", "signal", "poll", "peek"}
  /\ block \in 0 .. MaxBlocks
  /\ wpc \in {"loop", "poll", "peek", "process", "output", "release",
              "notify", "dead"}
  /\ received \in Seq(Blocks) /\ dropped \subseteq Blocks
  /\ committed \subseteq Blocks /\ fed \in Nat /\ afterError \in Nat
  /\ unsignalled \in BOOLEAN

Ascending(s) == \A i, j \in 1 .. Len(s) : i < j => s[i] < s[j]

\* InOrder: the host gets the blocks in the order it dispatched them and none
\* of them twice, whatever timeouts, drops and crashes come in between.
InOrder == Ascending(received \o outQueue) /\ Ascending(inQueue)

\* NothingLost: a block that was committed is in a queue, with the host or was
\* dropped on a full out_queue, and a block the host has, or that was
\* dropped, is no longer in in_queue (once commit_read has run).
NothingLost ==
  /\ ToSet(inQueue) \cup ToSet(outQueue) \cup ToSet(received) \cup dropped = committed
  /\ dropped \cap (ToSet(outQueue) \cup ToSet(received)) = {}
  /\ wpc \notin {"release", "dead"} =>
       ToSet(inQueue) \cap (ToSet(outQueue) \cup ToSet(received) \cup dropped) = {}

\* DeadWorkerBound: after the worker has stopped the watchdog lets only a few
\* more blocks through: the one in progress, the one that still sees the last
\* heartbeat, and StallLimit more; and StallLimit + 1 again each time the
\* counter of the stalled callbacks wraps around to 0.
DeadWorkerBound ==
  fed <= StallLimit + 2 + (StallLimit + 1) * (block \div CounterMod)

\* OneBlockAfterError: once the worker has reported an error the host is given
\* at most one more block of the hardware, in the callback that was already
\* past the check of last_error.
OneBlockAfterError == afterError <= 1

\* FullIsSignalled: when in_queue is full, the audio thread is not about to
\* signal and no write of the eventfd has failed, a wake-up of the worker is
\* pending or in progress.  Otherwise the accelerator would be lost for good:
\* dispatch returns before the eventfd is written, so nothing would wake the
\* worker again.
FullIsSignalled ==
  IsFull(inQueue) /\ ppc # "signal" /\ wpc \in {"loop", "poll"} /\ ~unsignalled
    => eSend > 0

\* WakeUpFindsBlock: a wake-up is never spurious: when either side finds its
\* eventfd readable there is a block for it, although both counters are reset
\* as a whole while the blocks are taken one at a time.
WakeUpFindsBlock ==
  /\ wpc \in {"loop", "poll"} /\ eSend > 0 => inQueue # << >>
  /\ ppc = "poll" /\ eRecv > 0 => outQueue # << >>

\* CallbackReturns: the audio thread comes back from every callback, whatever
\* the worker does.
CallbackReturns == ppc # "idle" ~> ppc = "idle"

\* LatencyWithinOneBlock: read_output returns this block or the one before it
\* ("exactly 1 block of latency (compensated by DAW PDC)").
LatencyWithinOneBlock ==
  [][received' # received => Last(received') >= block - 1]_vars
=============================================================================
