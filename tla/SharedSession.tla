---------------------------- MODULE SharedSession ----------------------------
(***************************************************************************)
(* Several plugins on one session.  on_plugin_connection of the supervisor *)
(* (daemon/pipewire/module-dsp-accel.cpp) gives every plugin that asks for *)
(* a kind of hardware the memory and the eventfds of the one node of that  *)
(* kind, and makes the eventfds blocking.  So the rings have two producers *)
(* and two consumers, each of which loads an index and stores its          *)
(* successor later, and a plugin that has seen its eventfd readable may    *)
(* find that another one has read it.                                      *)
(*                                                                         *)
(* What the blocks hold is of no account here: a ring is its two indices.  *)
(***************************************************************************)
EXTENDS Integers

CONSTANTS Plugins,
          Depth,     \* IPC_QUEUE_DEPTH
          MaxCalls   \* bound: callbacks of each plugin

VARIABLES
  inHead, inTail, outHead, outTail,  \* the indices of the two rings
  eSend, eRecv,                      \* the eventfd counters
  ppc,    \* a plugin: "idle", "write", "commit", "signal", "poll", "read", "peek",
          \* "copy", "release"
  index,  \* the index it has loaded
  calls,
  wpc     \* the worker: "loop", "process", "release", "notify"

ringVars == <<inHead, inTail, outHead, outTail>>
vars == <<ringVars, eSend, eRecv, ppc, index, calls, wpc>>

Init ==
  /\ inHead = 0 /\ inTail = 0 /\ outHead = 0 /\ outTail = 0 /\ eSend = 0 /\ eRecv = 0
  /\ ppc = [p \in Plugins |-> "idle"] /\ index = [p \in Plugins |-> 0]
  /\ calls = [p \in Plugins |-> 0] /\ wpc = "loop"

Succ(i) == (i + 1) % Depth
IsFull(head, tail) == Succ(tail) = head

Goto(p, label) == ppc' = [ppc EXCEPT ![p] = label]

\* dsp_accel_sdk_dispatch up to reserve_write; a worker that has failed or whose
\* heartbeat has stalled, or a full ring, is a matter for the CPU.
Dispatch(p, healthy) ==
  /\ ppc[p] = "idle" /\ calls[p] < MaxCalls
  /\ calls' = [calls EXCEPT ![p] = @ + 1]
  /\ Goto(p, IF healthy /\ ~IsFull(inHead, inTail) THEN "write" ELSE "idle")
  /\ UNCHANGED <<ringVars, eSend, eRecv, index, wpc>>

\* The block is copied, and commit_write loads tail_ ...
LoadTail(p) ==
  /\ ppc[p] = "write"
  /\ Goto(p, "commit")
  /\ index' = [index EXCEPT ![p] = inTail]
  /\ UNCHANGED <<ringVars, eSend, eRecv, calls, wpc>>

\* ... and stores its successor.
StoreTail(p) ==
  /\ ppc[p] = "commit"
  /\ Goto(p, "signal")
  /\ inTail' = Succ(index[p])
  /\ UNCHANGED <<inHead, outHead, outTail, eSend, eRecv, index, calls, wpc>>

SignalWorker(p) ==
  /\ ppc[p] = "signal"
  /\ Goto(p, "poll")
  /\ eSend' = eSend + 1
  /\ UNCHANGED <<ringVars, eRecv, index, calls, wpc>>

\* poll() with its 5 ms
PollReady(p) ==
  /\ ppc[p] = "poll" /\ eRecv > 0
  /\ Goto(p, "read")
  /\ UNCHANGED <<ringVars, eSend, eRecv, index, calls, wpc>>

PollTimeout(p) ==
  /\ ppc[p] = "poll" /\ eRecv = 0
  /\ Goto(p, "idle")
  /\ UNCHANGED <<ringVars, eSend, eRecv, index, calls, wpc>>

\* read() of a blocking eventfd waits until the counter is above zero.
ReadEvent(p) ==
  /\ ppc[p] = "read" /\ eRecv > 0
  /\ Goto(p, "peek")
  /\ eRecv' = 0
  /\ UNCHANGED <<ringVars, eSend, index, calls, wpc>>

PeekOutput(p) ==
  /\ ppc[p] = "peek"
  /\ Goto(p, IF outHead = outTail THEN "idle" ELSE "copy")
  /\ UNCHANGED <<ringVars, eSend, eRecv, index, calls, wpc>>

\* The block is copied to the host, and commit_read loads head_ ...
LoadHead(p) ==
  /\ ppc[p] = "copy"
  /\ Goto(p, "release")
  /\ index' = [index EXCEPT ![p] = outHead]
  /\ UNCHANGED <<ringVars, eSend, eRecv, calls, wpc>>

\* ... and stores its successor.
StoreHead(p) ==
  /\ ppc[p] = "release"
  /\ Goto(p, "idle")
  /\ outHead' = Succ(index[p])
  /\ UNCHANGED <<inHead, inTail, outTail, eSend, eRecv, index, calls, wpc>>

-----------------------------------------------------------------------------
\* The worker: poll, read, peek_read.
WakeUp ==
  /\ wpc = "loop" /\ eSend > 0
  /\ eSend' = 0
  /\ wpc' = IF inHead = inTail THEN "loop" ELSE "process"
  /\ UNCHANGED <<ringVars, eRecv, ppc, index, calls>>

\* process_graph, and the output if there is room for it.
Process ==
  /\ wpc = "process"
  /\ wpc' = "release"
  /\ outTail' = IF IsFull(outHead, outTail) THEN outTail ELSE Succ(outTail)
  /\ UNCHANGED <<inHead, inTail, outHead, eSend, eRecv, ppc, index, calls>>

CommitRead ==
  /\ wpc = "release"
  /\ wpc' = "notify"
  /\ inHead' = Succ(inHead)
  /\ UNCHANGED <<inTail, outHead, outTail, eSend, eRecv, ppc, index, calls>>

SignalPlugin ==
  /\ wpc = "notify"
  /\ wpc' = "loop"
  /\ eRecv' = eRecv + 1
  /\ UNCHANGED <<ringVars, eSend, ppc, index, calls>>

-----------------------------------------------------------------------------
PluginStep(p) ==
  \/ LoadTail(p) \/ StoreTail(p) \/ SignalWorker(p) \/ PollReady(p) \/ PollTimeout(p)
  \/ ReadEvent(p) \/ PeekOutput(p) \/ LoadHead(p) \/ StoreHead(p)

WorkerStep == WakeUp \/ Process \/ CommitRead \/ SignalPlugin

Next ==
  \/ \E p \in Plugins : PluginStep(p) \/ \E healthy \in BOOLEAN : Dispatch(p, healthy)
  \/ WorkerStep

\* Both audio threads and the worker are scheduled; a host may stop calling one of
\* its plugins.
FairSpec ==
  /\ Init /\ [][Next]_vars
  /\ WF_vars(WorkerStep) /\ \A p \in Plugins : WF_vars(PluginStep(p))

-----------------------------------------------------------------------------
\* EveryCallbackReturns: the audio thread of each plugin comes back from every
\* callback ("ensure the audio thread never hangs").
EveryCallbackReturns == \A p \in Plugins : ppc[p] # "idle" ~> ppc[p] = "idle"
=============================================================================
