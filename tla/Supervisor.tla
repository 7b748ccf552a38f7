----------------------------- MODULE Supervisor -----------------------------
(***************************************************************************)
(* The PipeWire module (daemon/pipewire/module-dsp-accel.cpp) that starts  *)
(* one worker process per kind of hardware, restarts it, and hands its     *)
(* session (shared memory and two eventfds) to the plugins that connect.   *)
(* All of it runs on the main loop, one handler at a time; the workers and *)
(* the plugins run beside it.                                              *)
(*                                                                         *)
(* A session is known by its number: the memfd, the eventfds, the mapping  *)
(* and the worker of the g-th call that got as far as memfd_create.        *)
(***************************************************************************)
EXTENDS Integers, FiniteSets

CONSTANTS N,         \* num_compute_nodes: 0 Vulkan, 1 NPU, 2 DSP
          Backends,  \* the nodes whose worker has a backend to start
          Plugins,
          MaxSpawns  \* bound: sessions created

ASSUME SupervisorAssumption ==
  /\ N \in Nat \ {0} /\ MaxSpawns \in Nat
  /\ Backends \subseteq 0 .. N - 1

Nodes == 0 .. N - 1
Sessions == 1 .. MaxSpawns
Unset == 0       \* calloc leaves 0 in a field
Failed == -1     \* the call that should have set it failed

VARIABLES
  node,     \* compute_nodes
  main,     \* what the main loop runs: "boot", "idle", "route", "destroyed"
  at,       \* the node its loop is at
  spawned,  \* sessions created so far
  kind,     \* the node a session was created for, which is its worker's --type
  worker,   \* the process of a session: "none", "starting", "no_event" (starting,
            \* without the eventfds), "running", "exited"
  error,    \* last_error # NONE in the session's memory
  session   \* what a plugin received: descriptors, or none

procVars == <<kind, worker, error>>
vars == <<node, main, at, spawned, procVars, session>>

NoNode == [shm |-> Unset, shmFd |-> Unset, ev |-> Unset, pid |-> Unset,
           active |-> FALSE]
NoSession == [shmFd |-> Unset, ev |-> Unset]

Init ==
  /\ node = [i \in Nodes |-> NoNode]
  /\ main = "boot" /\ at = 0 /\ spawned = 0
  /\ kind = [g \in Sessions |-> 0]
  /\ worker = [g \in Sessions |-> "none"]
  /\ error = [g \in Sessions |-> FALSE]
  /\ session = [p \in Plugins |-> NoSession]

-----------------------------------------------------------------------------
(* spawn_worker.  It returns at the first call whose failure it looks for  *)
(* and undoes none of the assignments it has made.  eventfd() is called     *)
(* without a look at what it returns.                                      *)

Outcomes == {"memfd", "ftruncate", "mmap", "socketpair", "fork", "ok"}

\* The node after spawn_worker stopped at outcome, creating session g, whose
\* eventfds are ev: g or Failed.
NodeAfter(old, g, ev, outcome) ==
  CASE outcome = "memfd" -> [old EXCEPT !.shmFd = Failed]
    [] outcome = "ftruncate" -> [old EXCEPT !.shmFd = g]
    [] outcome = "mmap" -> [old EXCEPT !.shmFd = g, !.ev = ev, !.shm = Unset]
    [] outcome = "socketpair" -> [old EXCEPT !.shmFd = g, !.ev = ev, !.shm = g]
    [] outcome = "fork" -> [old EXCEPT !.shmFd = g, !.ev = ev, !.shm = g,
                                       !.pid = Failed]
    [] outcome = "ok" -> [shm |-> g, shmFd |-> g, ev |-> ev, pid |-> g,
                          active |-> TRUE]

SpawnWorker(i, old, outcome) ==
  LET g == spawned + 1
  IN  /\ spawned < MaxSpawns
      /\ spawned' = IF outcome = "memfd" THEN spawned ELSE g
      /\ kind' = IF outcome = "memfd" THEN kind ELSE [kind EXCEPT ![g] = i]
      /\ \E ev \in {g, Failed} :
           /\ node' = [node EXCEPT ![i] = NodeAfter(old, g, ev, outcome)]
           /\ worker' = IF outcome # "ok" THEN worker
                        ELSE [worker EXCEPT ![g] = IF ev = g THEN "starting"
                                                             ELSE "no_event"]

\* pipewire__module_init: one worker after the other.
Boot(outcome) ==
  /\ main = "boot"
  /\ SpawnWorker(at, node[at], outcome)
  /\ at' = IF at + 1 < N THEN at + 1 ELSE 0
  /\ main' = IF at + 1 < N THEN "boot" ELSE "idle"
  /\ UNCHANGED <<error, session>>

-----------------------------------------------------------------------------
(* handle_plugin_request: look for a healthy worker, restarting those that *)
(* reported an error on the way.  Nothing in the repository calls it; it   *)
(* is the only way to a restart.                                           *)

BeginRoute ==
  /\ main = "idle"
  /\ main' = "route" /\ at' = 0
  /\ UNCHANGED <<node, spawned, procVars, session>>

\* mutant: the loop runs to i <= num_compute_nodes
NextNodeBeyond ==
  /\ at' = IF at < N THEN at + 1 ELSE 0
  /\ main' = IF at < N THEN "route" ELSE "idle"

\* The loop goes on to the next node, or ends: CPU fallback.
NextNode ==
  /\ at' = IF at + 1 < N THEN at + 1 ELSE 0
  /\ main' = IF at + 1 < N THEN "route" ELSE "idle"

HasError(i) == node[i].shm # Unset /\ error[node[i].shm]

\* mutant: is_active is not cleared before the restart
BaseKeep(i) == node[i]

\* The node a restart begins with: is_active has been cleared.
Base(i) == [node[i] EXCEPT !.active = FALSE]

RouteRestart(outcome) ==
  /\ main = "route" /\ HasError(at)
  /\ SpawnWorker(at, Base(at), outcome)
  /\ NextNode
  /\ UNCHANGED <<error, session>>

\* No mapping, a load of 80 or more, or not active.
RouteSkip(overloaded) ==
  /\ main = "route" /\ ~HasError(at)
  /\ node[at].shm = Unset \/ overloaded \/ ~node[at].active
  /\ NextNode
  /\ UNCHANGED <<node, spawned, procVars, session>>

RouteFound ==
  /\ main = "route" /\ ~HasError(at)
  /\ node[at].shm # Unset /\ node[at].active
  /\ main' = "idle" /\ at' = 0
  /\ UNCHANGED <<node, spawned, procVars, session>>

-----------------------------------------------------------------------------
\* The node of the requested type, if it is active.
Suitable(i) == node[i].active

\* mutant: the SDK does not look at the descriptors it received
AnyDescriptors(d) == TRUE

\* recv_fd brought all of them: a descriptor of -1 cannot be sent.
ValidDescriptors(d) == d.shmFd # Failed /\ d.ev # Failed

\* What dsp_accel_sdk_connect comes back with: the descriptors of the node, or
\* a context for the CPU fallback when the supervisor hangs up or one of them
\* does not arrive.
Received(type) ==
  LET d == [shmFd |-> node[type].shmFd, ev |-> node[type].ev]
  IN  IF Suitable(type) /\ ValidDescriptors(d) THEN d ELSE NoSession

\* on_plugin_connection
Connect(p, type) ==
  /\ main = "idle" /\ session[p] = NoSession
  /\ session' = [session EXCEPT ![p] = Received(type)]
  /\ UNCHANGED <<node, main, at, spawned, procVars>>

Disconnect(p) ==
  /\ session[p] # NoSession
  /\ session' = [session EXCEPT ![p] = NoSession]
  /\ UNCHANGED <<node, main, at, spawned, procVars>>

\* module_destroy: unmaps, closes and frees; the workers are left running.
ModuleDestroy ==
  /\ main = "idle"
  /\ main' = "destroyed"
  /\ node' = [i \in Nodes |-> NoNode]
  /\ UNCHANGED <<at, spawned, procVars, session>>

-----------------------------------------------------------------------------
(* The worker process of session g.                                        *)

\* The handshake with the supervisor or exec fails: it exits without a word.
WorkerHandshakeFails(g) ==
  /\ worker[g] \in {"starting", "no_event"}
  /\ worker' = [worker EXCEPT ![g] = "exited"]
  /\ UNCHANGED <<node, main, at, spawned, kind, error, session>>

\* Backend creation and init; without a backend it reports and exits.
WorkerInit(g, success) ==
  /\ worker[g] = "starting"
  /\ success => kind[g] \in Backends
  /\ worker' = [worker EXCEPT ![g] = IF success THEN "running" ELSE "exited"]
  /\ error' = [error EXCEPT ![g] = ~success]
  /\ UNCHANGED <<node, main, at, spawned, kind, session>>

\* process_graph failed: DEVICE_LOST, the worker goes on.
WorkerFails(g) ==
  /\ worker[g] = "running"
  /\ error' = [error EXCEPT ![g] = TRUE]
  /\ UNCHANGED <<node, main, at, spawned, kind, worker, session>>

WorkerDies(g) ==
  /\ worker[g] = "running"
  /\ worker' = [worker EXCEPT ![g] = "exited"]
  /\ UNCHANGED <<node, main, at, spawned, kind, error, session>>

-----------------------------------------------------------------------------
Route ==
  \/ BeginRoute
  \/ \E outcome \in Outcomes : RouteRestart(outcome)
  \/ \E overloaded \in BOOLEAN : RouteSkip(overloaded)
  \/ RouteFound

Worker(g) ==
  \/ WorkerHandshakeFails(g)
  \/ \E success \in BOOLEAN : WorkerInit(g, success)
  \/ WorkerFails(g) \/ WorkerDies(g)

Next ==
  \/ \E outcome \in Outcomes : Boot(outcome)
  \/ Route
  \/ \E p \in Plugins : (\E type \in Nodes : Connect(p, type)) \/ Disconnect(p)
  \/ ModuleDestroy
  \/ \E g \in Sessions : Worker(g)

Spec == Init /\ [][Next]_vars

-----------------------------------------------------------------------------
(* Properties. *)

Field == {Failed, Unset} \cup Sessions

\* TypeOK: the variables have their types.
TypeOK ==
  /\ node \in [Nodes -> [shm : {Unset} \cup Sessions, shmFd : Field, ev : Field,
                         pid : Field, active : BOOLEAN]]
  /\ main \in {"boot", "idle", "route", "destroyed"} /\ at \in Nodes
  /\ spawned \in 0 .. MaxSpawns
  /\ kind \in [Sessions -> Nodes]
  /\ worker \in [Sessions -> {"none", "starting", "no_event", "running", "exited"}]
  /\ error \in [Sessions -> BOOLEAN]
  /\ session \in [Plugins -> [shmFd : Field, ev : Field]]

\* ActiveIsWhole: an active node has its mapping, its descriptors and its process
\* from one and the same call of spawn_worker, whatever step of this call or of
\* an earlier one failed, and no two nodes share a session.  Only the eventfds,
\* which spawn_worker takes as they come, may be missing.
ActiveIsWhole ==
  \A i \in Nodes : node[i].active =>
    /\ node[i].pid \in Sessions /\ worker[node[i].pid] # "none"
    /\ node[i].shm = node[i].pid /\ node[i].shmFd = node[i].pid
    /\ node[i].ev \in {node[i].pid, Failed}
    /\ \A j \in Nodes : node[j].active /\ node[j].pid = node[i].pid => i = j

\* PluginsHaveWorker: a connected plugin has the shared memory and the eventfds of
\* one session, and a worker process was started for it: it never waits on the
\* eventfd of one session with the queues of another.
PluginsHaveWorker ==
  \A p \in Plugins : session[p] # NoSession =>
    /\ session[p].shmFd = session[p].ev
    /\ session[p].shmFd \in Sessions /\ worker[session[p].shmFd] # "none"
=============================================================================
