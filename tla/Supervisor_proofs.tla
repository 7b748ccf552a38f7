------------------------- MODULE Supervisor_proofs -------------------------
(***************************************************************************)
(* The supervisor hands out whole sessions only, for every number of kinds *)
(* of hardware, of plugins and of restarts, whichever call fails in        *)
(* spawn_worker.                                                           *)
(***************************************************************************)
EXTENDS Supervisor, TLAPS

(* The inductive invariant. *)

NodeType == [shm : {Unset} \cup Sessions, shmFd : Field, ev : Field, pid : Field,
             active : BOOLEAN]

\* A session number in use has been given out, so that a new one is new to all.
PidsGivenOut == \A i \in Nodes : node[i].pid <= spawned

\* The nodes that pipewire__module_init has not come to are not active, which is why
\* it can do without clearing is_active before it calls spawn_worker.
BootInactive == main = "boot" => \A i \in Nodes : i >= at => ~node[i].active

Inv == TypeOK /\ PidsGivenOut /\ BootInactive /\ ActiveIsWhole /\ PluginsHaveWorker

-----------------------------------------------------------------------------
\* NodeAfterType: what spawn_worker leaves in a node, wherever it returned.
LEMMA NodeAfterType ==
  ASSUME NEW old \in NodeType, NEW g \in Sessions, NEW ev \in {g, Failed},
         NEW outcome \in Outcomes
  PROVE  NodeAfter(old, g, ev, outcome) \in NodeType
<1> USE DEF NodeAfter, NodeType, Field
<1>1. CASE outcome = "memfd"
  BY <1>1
<1>2. CASE outcome = "ftruncate"
  BY <1>2
<1>3. CASE outcome = "mmap"
  BY <1>3
<1>4. CASE outcome = "socketpair"
  BY <1>4
<1>5. CASE outcome = "fork"
  BY <1>5
<1>6. CASE outcome = "ok"
  <2>1. TRUE \in BOOLEAN
    OBVIOUS
  <2> QED BY <1>6, <2>1
<1> QED BY <1>1, <1>2, <1>3, <1>4, <1>5, <1>6 DEF Outcomes

\* NodeAfterShape: a node that was inactive is active only after the last call
\* succeeded, and then all its fields are of the new session.
LEMMA NodeAfterShape ==
  ASSUME NEW old \in NodeType, ~old.active, NEW g \in Sessions, NEW ev \in {g, Failed},
         NEW outcome \in Outcomes
  PROVE  LET new == NodeAfter(old, g, ev, outcome)
         IN  /\ new.pid \in {old.pid, g, Failed}
             /\ new.pid = g /\ outcome = "memfd" => old.pid = g
             /\ new.active => /\ outcome = "ok" /\ new.shm = g /\ new.shmFd = g
                              /\ new.ev = ev /\ new.pid = g
<1> USE DEF NodeAfter, NodeType
<1>1. CASE outcome = "memfd"
  BY <1>1
<1>2. CASE outcome = "ftruncate"
  BY <1>2
<1>3. CASE outcome = "mmap"
  BY <1>3
<1>4. CASE outcome = "socketpair"
  BY <1>4
<1>5. CASE outcome = "fork"
  BY <1>5
<1>6. CASE outcome = "ok"
  BY <1>6
<1> QED BY <1>1, <1>2, <1>3, <1>4, <1>5, <1>6 DEF Outcomes

WorkersStay == \A g \in Sessions : worker[g] # "none" => worker'[g] # "none"

\* SpawnKeeps: spawn_worker on an inactive node keeps the nodes whole.
LEMMA SpawnKeeps ==
  ASSUME TypeOK, PidsGivenOut, ActiveIsWhole, NEW i \in Nodes, NEW old \in NodeType,
         ~old.active, old.pid <= spawned, NEW outcome \in Outcomes,
         SpawnWorker(i, old, outcome)
  PROVE  /\ node' \in [Nodes -> NodeType] /\ spawned' \in 0 .. MaxSpawns
         /\ kind' \in [Sessions -> Nodes]
         /\ worker' \in [Sessions -> {"none", "starting", "no_event", "running", "exited"}]
         /\ \A j \in Nodes : j # i => node'[j] = node[j]
         /\ WorkersStay /\ PidsGivenOut' /\ ActiveIsWhole'
<1> DEFINE g == spawned + 1
<1>1. /\ spawned \in 0 .. MaxSpawns /\ node \in [Nodes -> NodeType]
      /\ kind \in [Sessions -> Nodes]
      /\ worker \in [Sessions -> {"none", "starting", "no_event", "running", "exited"}]
  BY DEF TypeOK, NodeType
<1>2. spawned < MaxSpawns /\ MaxSpawns \in Nat
  BY SupervisorAssumption DEF SpawnWorker
<1>3. g \in Sessions /\ spawned < g /\ g \in Nat
  BY <1>1, <1>2 DEF Sessions
<1>4. /\ spawned' = IF outcome = "memfd" THEN spawned ELSE g
      /\ kind' = IF outcome = "memfd" THEN kind ELSE [kind EXCEPT ![g] = i]
  BY DEF SpawnWorker
<1>5. PICK ev \in {g, Failed} :
        /\ node' = [node EXCEPT ![i] = NodeAfter(old, g, ev, outcome)]
        /\ worker' = IF outcome # "ok" THEN worker
                     ELSE [worker EXCEPT ![g] = IF ev = g THEN "starting" ELSE "no_event"]
  BY DEF SpawnWorker
<1> HIDE DEF g
<1> DEFINE new == NodeAfter(old, g, ev, outcome)
<1>6. new \in NodeType
  BY <1>3, NodeAfterType
<1>7. /\ new.pid \in {old.pid, g, Failed}
      /\ new.pid = g /\ outcome = "memfd" => old.pid = g
      /\ new.active => /\ outcome = "ok" /\ new.shm = g /\ new.shmFd = g
                       /\ new.ev = ev /\ new.pid = g
  BY <1>3, NodeAfterShape
<1> HIDE DEF new
<1>8. /\ node' \in [Nodes -> NodeType] /\ node'[i] = new
      /\ \A j \in Nodes : j # i => node'[j] = node[j]
  BY <1>1, <1>5, <1>6 DEF new
<1>9. spawned' \in 0 .. MaxSpawns /\ spawned <= spawned'
  BY <1>1, <1>2, <1>3, <1>4 DEF Sessions
<1>10. kind' \in [Sessions -> Nodes]
  BY <1>1, <1>3, <1>4
<1>11. worker' \in [Sessions -> {"none", "starting", "no_event", "running", "exited"}]
       /\ WorkersStay
  BY <1>1, <1>3, <1>5 DEF WorkersStay
<1>12. old.pid \in Int /\ \A j \in Nodes : node[j].pid \in Int
  BY <1>1 DEF NodeType, Field, Sessions, Failed, Unset
<1>13. PidsGivenOut'
  <2>1. new.pid <= spawned'
    <3>1. CASE outcome = "memfd"
      <4>1. new.pid # g
        BY <1>1, <1>3, <1>7, <1>12, <3>1
      <4> QED BY <1>1, <1>4, <1>7, <3>1, <4>1 DEF Failed
    <3>2. CASE outcome # "memfd"
      BY <1>1, <1>3, <1>4, <1>7, <1>12, <3>2 DEF Failed
    <3> QED BY <3>1, <3>2
  <2>2. \A j \in Nodes : node[j].pid <= spawned'
    BY <1>1, <1>9, <1>12 DEF PidsGivenOut
  <2> QED BY <1>8, <2>1, <2>2 DEF PidsGivenOut
<1>14. ASSUME NEW j \in Nodes, node'[j].active
       PROVE  /\ node'[j].pid \in Sessions /\ worker'[node'[j].pid] # "none"
              /\ node'[j].shm = node'[j].pid /\ node'[j].shmFd = node'[j].pid
              /\ node'[j].ev \in {node'[j].pid, Failed}
              /\ \A k \in Nodes : node'[k].active /\ node'[k].pid = node'[j].pid => j = k
  <2>1. CASE j = i
    <3>1. new.active
      BY <1>8, <1>14, <2>1
    <3>2. /\ outcome = "ok" /\ new.shm = g /\ new.shmFd = g /\ new.ev = ev /\ new.pid = g
      BY <1>7, <3>1
    <3>3. worker'[g] # "none"
      BY <1>1, <1>3, <1>5, <3>2
    <3>4. \A k \in Nodes : k # i => node'[k].pid # g
      BY <1>1, <1>3, <1>8, <1>12 DEF PidsGivenOut
    <3> QED BY <1>3, <1>8, <2>1, <3>2, <3>3, <3>4
  <2>2. CASE j # i
    <3>1. node'[j] = node[j] /\ node[j].active
      BY <1>8, <1>14, <2>2
    <3>2. /\ node[j].pid \in Sessions /\ worker[node[j].pid] # "none"
          /\ node[j].shm = node[j].pid /\ node[j].shmFd = node[j].pid
          /\ node[j].ev \in {node[j].pid, Failed}
          /\ \A k \in Nodes : node[k].active /\ node[k].pid = node[j].pid => j = k
      BY <3>1 DEF ActiveIsWhole
    <3>3. worker'[node[j].pid] # "none"
      BY <1>11, <3>2 DEF WorkersStay
    <3>4. node[j].pid # g
      BY <1>1, <1>3, <1>12 DEF PidsGivenOut
    <3>5. ASSUME NEW k \in Nodes, node'[k].active, node'[k].pid = node[j].pid PROVE j = k
      <4>1. k # i
        BY <1>7, <1>8, <3>4, <3>5
      <4> QED BY <1>8, <3>2, <3>5, <4>1
    <3> QED BY <3>1, <3>2, <3>3, <3>5
  <2> QED BY <2>1, <2>2
<1>15. ActiveIsWhole'
  BY <1>14 DEF ActiveIsWhole
<1> QED BY <1>8, <1>9, <1>10, <1>11, <1>13, <1>15

\* PluginsKeep: the plugins that have a session keep its worker.
LEMMA PluginsKeep ==
  ASSUME PluginsHaveWorker, WorkersStay, session' = session
  PROVE  PluginsHaveWorker'
BY DEF PluginsHaveWorker, WorkersStay

\* NodesKeep: steps that leave the nodes alone.
LEMMA NodesKeep ==
  ASSUME ActiveIsWhole, PidsGivenOut, WorkersStay, node' = node, spawned' = spawned
  PROVE  ActiveIsWhole' /\ PidsGivenOut'
BY DEF ActiveIsWhole, WorkersStay, PidsGivenOut

\* InvInit: nothing is active when the module has just been loaded.
LEMMA InvInit == Init => Inv
<1> SUFFICES ASSUME Init PROVE Inv
  OBVIOUS
<1> USE SupervisorAssumption DEF Init
<1>1. NoNode \in NodeType
  <2>1. FALSE \in BOOLEAN
    OBVIOUS
  <2> QED BY <2>1 DEF NoNode, NodeType, Field
<1>2. node \in [Nodes -> NodeType] /\ \A i \in Nodes : node[i] = NoNode
  BY <1>1
<1>3. 0 \in Nodes
  BY DEF Nodes
<1>4. error \in [Sessions -> BOOLEAN]
  OBVIOUS
<1>5. session \in [Plugins -> [shmFd : Field, ev : Field]]
  BY DEF NoSession, Field
<1>6. TypeOK
  BY <1>2, <1>3, <1>4, <1>5 DEF TypeOK, NodeType
<1>7. PidsGivenOut /\ BootInactive /\ ActiveIsWhole
  BY <1>2 DEF PidsGivenOut, BootInactive, ActiveIsWhole, NoNode, Unset
<1>8. PluginsHaveWorker
  BY DEF PluginsHaveWorker
<1> QED BY <1>6, <1>7, <1>8 DEF Inv

\* InvNext: every handler and every step of a worker keeps the sessions whole.
LEMMA InvNext == Inv /\ [Next]_vars => Inv'
<1> SUFFICES ASSUME Inv, [Next]_vars PROVE Inv'
  OBVIOUS
<1> USE DEF Inv
<1>1. /\ N \in Nat \ {0} /\ MaxSpawns \in Nat /\ at \in Nodes /\ at \in Int
      /\ node \in [Nodes -> NodeType]
  BY SupervisorAssumption DEF TypeOK, NodeType, Nodes
<1>2. ASSUME NEW outcome \in Outcomes, Boot(outcome) PROVE Inv'
  <2>1. SpawnWorker(at, node[at], outcome) /\ error' = error /\ session' = session
    BY <1>2 DEF Boot
  <2>2. ~node[at].active /\ node[at].pid <= spawned /\ node[at] \in NodeType
    BY <1>1, <1>2 DEF Boot, BootInactive, PidsGivenOut
  <2>3. /\ node' \in [Nodes -> NodeType] /\ spawned' \in 0 .. MaxSpawns
        /\ kind' \in [Sessions -> Nodes]
        /\ worker' \in [Sessions -> {"none", "starting", "no_event", "running", "exited"}]
        /\ \A j \in Nodes : j # at => node'[j] = node[j]
        /\ WorkersStay /\ PidsGivenOut' /\ ActiveIsWhole'
    BY <1>1, <2>1, <2>2, SpawnKeeps
  <2>4. PluginsHaveWorker'
    BY <2>1, <2>3, PluginsKeep
  <2>5. at' \in Nodes /\ main' \in {"boot", "idle"}
        /\ (main' = "boot" => at' = at + 1)
    BY <1>1, <1>2 DEF Boot, Nodes
  <2>6. BootInactive'
    <3> SUFFICES ASSUME main' = "boot", NEW j \in Nodes, j >= at' PROVE ~node'[j].active
      BY DEF BootInactive
    <3>1. j # at /\ j >= at
      BY <1>1, <2>5 DEF Nodes
    <3> QED BY <1>2, <2>3, <3>1 DEF BootInactive, Boot
  <2>7. TypeOK'
    BY <2>1, <2>3, <2>5 DEF TypeOK, NodeType
  <2> QED BY <2>3, <2>4, <2>6, <2>7
<1>3. ASSUME NEW outcome \in Outcomes, RouteRestart(outcome) PROVE Inv'
  <2>1. SpawnWorker(at, Base(at), outcome) /\ error' = error /\ session' = session
    BY <1>3 DEF RouteRestart
  <2>2. ~Base(at).active /\ Base(at).pid <= spawned /\ Base(at) \in NodeType
    <3>1. node[at] \in NodeType /\ FALSE \in BOOLEAN
      BY <1>1
    <3>2. Base(at) \in NodeType /\ Base(at).active = FALSE /\ Base(at).pid = node[at].pid
      BY <3>1 DEF Base, NodeType
    <3> QED BY <1>1, <3>2 DEF PidsGivenOut
  <2>3. /\ node' \in [Nodes -> NodeType] /\ spawned' \in 0 .. MaxSpawns
        /\ kind' \in [Sessions -> Nodes]
        /\ worker' \in [Sessions -> {"none", "starting", "no_event", "running", "exited"}]
        /\ WorkersStay /\ PidsGivenOut' /\ ActiveIsWhole'
    BY <1>1, <2>1, <2>2, SpawnKeeps
  <2>4. PluginsHaveWorker'
    BY <2>1, <2>3, PluginsKeep
  <2>5. at' \in Nodes /\ main' \in {"route", "idle"}
    BY <1>1, <1>3 DEF RouteRestart, NextNode, Nodes
  <2>6. TypeOK'
    BY <2>1, <2>3, <2>5 DEF TypeOK, NodeType
  <2> QED BY <2>3, <2>4, <2>5, <2>6 DEF BootInactive
<1>4. ASSUME BeginRoute \/ (\E overloaded \in BOOLEAN : RouteSkip(overloaded)) \/ RouteFound
      PROVE  Inv'
  <2>1. UNCHANGED <<node, spawned, kind, worker, error, session>>
    BY <1>4 DEF BeginRoute, RouteSkip, RouteFound, procVars
  <2>2. at' \in Nodes /\ main' \in {"route", "idle"}
    BY <1>1, <1>4 DEF BeginRoute, RouteSkip, RouteFound, NextNode, Nodes
  <2>3. WorkersStay
    BY <2>1 DEF WorkersStay
  <2>4. ActiveIsWhole' /\ PidsGivenOut' /\ PluginsHaveWorker'
    BY <2>1, <2>3, PluginsKeep, NodesKeep
  <2>5. TypeOK'
    BY <2>1, <2>2 DEF TypeOK
  <2> QED BY <2>2, <2>4, <2>5 DEF BootInactive
<1>5. ASSUME NEW p \in Plugins, NEW type \in Nodes, Connect(p, type) PROVE Inv'
  <2>1. /\ UNCHANGED <<node, main, at, spawned, kind, worker, error>>
        /\ session' = [session EXCEPT ![p] = Received(type)]
    BY <1>5 DEF Connect, procVars
  <2>2. WorkersStay
    BY <2>1 DEF WorkersStay
  <2>3. /\ Received(type) \in [shmFd : Field, ev : Field]
        /\ Received(type) # NoSession =>
             /\ Received(type).shmFd = Received(type).ev
             /\ Received(type).shmFd \in Sessions /\ worker[Received(type).shmFd] # "none"
    <3>1. CASE node[type].active /\ node[type].shmFd # Failed /\ node[type].ev # Failed
      <4>1. Received(type) = [shmFd |-> node[type].shmFd, ev |-> node[type].ev]
        BY <3>1 DEF Received, Suitable, ValidDescriptors
      <4>2. /\ node[type].pid \in Sessions /\ worker[node[type].pid] # "none"
            /\ node[type].shmFd = node[type].pid /\ node[type].ev = node[type].pid
        BY <3>1 DEF ActiveIsWhole
      <4> QED BY <4>1, <4>2 DEF Field
    <3>2. CASE ~(node[type].active /\ node[type].shmFd # Failed /\ node[type].ev # Failed)
      <4>1. Received(type) = NoSession
        BY <3>2 DEF Received, Suitable, ValidDescriptors
      <4> QED BY <4>1 DEF NoSession, Field
    <3> QED BY <3>1, <3>2
  <2>4. session' \in [Plugins -> [shmFd : Field, ev : Field]]
    BY <2>1, <2>3 DEF TypeOK
  <2>5. TypeOK'
    BY <2>1, <2>4 DEF TypeOK
  <2>6. PluginsHaveWorker'
    <3>1. session'[p] = Received(type) /\ \A r \in Plugins : r # p => session'[r] = session[r]
      BY <2>1 DEF TypeOK
    <3> QED BY <2>1, <2>3, <3>1 DEF PluginsHaveWorker
  <2>7. ActiveIsWhole' /\ PidsGivenOut' /\ BootInactive'
    BY <2>1, <2>2, NodesKeep DEF BootInactive
  <2> QED BY <2>5, <2>6, <2>7
<1>6. ASSUME NEW p \in Plugins, Disconnect(p) PROVE Inv'
  <2>1. /\ UNCHANGED <<node, main, at, spawned, kind, worker, error>>
        /\ session' = [session EXCEPT ![p] = NoSession]
    BY <1>6 DEF Disconnect, procVars
  <2>2. WorkersStay
    BY <2>1 DEF WorkersStay
  <2>3. NoSession \in [shmFd : Field, ev : Field]
    BY DEF NoSession, Field
  <2>4. session' \in [Plugins -> [shmFd : Field, ev : Field]]
    BY <2>1, <2>3 DEF TypeOK
  <2>5. TypeOK'
    BY <2>1, <2>4 DEF TypeOK
  <2>6. PluginsHaveWorker'
    <3>1. session'[p] = NoSession /\ \A r \in Plugins : r # p => session'[r] = session[r]
      BY <2>1 DEF TypeOK
    <3> QED BY <2>1, <3>1 DEF PluginsHaveWorker
  <2>7. ActiveIsWhole' /\ PidsGivenOut' /\ BootInactive'
    BY <2>1, <2>2, NodesKeep DEF BootInactive
  <2> QED BY <2>5, <2>6, <2>7
<1>7. CASE ModuleDestroy
  <2>1. /\ UNCHANGED <<at, spawned, kind, worker, error, session>> /\ main' = "destroyed"
        /\ node' = [i \in Nodes |-> NoNode]
    BY <1>7 DEF ModuleDestroy, procVars
  <2>2. NoNode \in NodeType
    <3>1. FALSE \in BOOLEAN
      OBVIOUS
    <3> QED BY <3>1 DEF NoNode, NodeType, Field
  <2>3. node' \in [Nodes -> NodeType] /\ \A i \in Nodes : node'[i] = NoNode
    BY <2>1, <2>2
  <2>4. TypeOK'
    BY <2>1, <2>3 DEF TypeOK, NodeType
  <2>5. spawned \in Nat
    BY <1>1 DEF TypeOK
  <2>6. PidsGivenOut' /\ BootInactive' /\ ActiveIsWhole'
    BY <2>1, <2>3, <2>5 DEF PidsGivenOut, BootInactive, ActiveIsWhole, NoNode, Unset
  <2>7. PluginsHaveWorker'
    BY <2>1 DEF PluginsHaveWorker
  <2> QED BY <2>4, <2>6, <2>7
<1>8. ASSUME NEW g \in Sessions, Worker(g) PROVE Inv'
  <2>1. /\ UNCHANGED <<node, main, at, spawned, kind, session>>
    BY <1>8 DEF Worker, WorkerHandshakeFails, WorkerInit, WorkerFails, WorkerDies
  <2>2. worker' \in [Sessions -> {"none", "starting", "no_event", "running", "exited"}]
        /\ WorkersStay
    BY <1>8 DEF Worker, WorkerHandshakeFails, WorkerInit, WorkerFails, WorkerDies,
                WorkersStay, TypeOK
  <2>3. error' \in [Sessions -> BOOLEAN]
    BY <1>8, Zenon DEF Worker, WorkerHandshakeFails, WorkerInit, WorkerFails, WorkerDies,
                TypeOK
  <2>4. TypeOK'
    BY <2>1, <2>2, <2>3 DEF TypeOK
  <2>5. ActiveIsWhole' /\ PidsGivenOut' /\ PluginsHaveWorker' /\ BootInactive'
    BY <2>1, <2>2, NodesKeep, PluginsKeep DEF BootInactive
  <2> QED BY <2>4, <2>5
<1>9. CASE UNCHANGED vars
  <2>1. UNCHANGED <<node, main, at, spawned, kind, worker, error, session>>
    BY <1>9 DEF vars, procVars
  <2>2. WorkersStay
    BY <2>1 DEF WorkersStay
  <2>3. TypeOK' /\ BootInactive'
    BY <2>1 DEF TypeOK, BootInactive
  <2> QED BY <2>1, <2>2, <2>3, NodesKeep, PluginsKeep
<1> QED BY <1>2, <1>3, <1>4, <1>5, <1>6, <1>7, <1>8, <1>9 DEF Next, Route

-----------------------------------------------------------------------------
\* SupervisorTypes: the fields hold what they may, after any failure.
THEOREM SupervisorTypes == Spec => []TypeOK
BY InvInit, InvNext, PTL DEF Spec, Inv

\* NodesWhole: an active node is of one call of spawn_worker, and of no other node.
THEOREM NodesWhole == Spec => []ActiveIsWhole
BY InvInit, InvNext, PTL DEF Spec, Inv

\* SessionsWhole: a plugin never has the queues of one worker and the eventfds of
\* another.
THEOREM SessionsWhole == Spec => []PluginsHaveWorker
BY InvInit, InvNext, PTL DEF Spec, Inv
=============================================================================
