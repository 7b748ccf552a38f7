-------------------------- MODULE Handshake_proofs --------------------------
(***************************************************************************)
(* A plugin on the hardware path has a whole session of its own, none of   *)
(* its descriptors is ever lost and the daemon can always accept, for every *)
(* number of plugins and of calls, whoever dies and whatever fails.        *)
(***************************************************************************)
EXTENDS Handshake, FiniteSetTheorems, SequenceTheorems, TLAPS

(* The inductive invariant. *)

Idle == {"gone", "created", "connect", "hardware", "cpu"}
Waiting == {"send", "recvId", "recvShm", "recvSend", "recvRecv"}
Sending == {"reply", "sendShm", "sendSend", "sendRecv"}
Serving == {"meta", "create"} \cup Sending

\* Where the daemon has the connection of a client.
At(c) == IF serving = c THEN daemon
         ELSE IF Contains(backlog, c) THEN "queued" ELSE "away"

Distinct(q) == \A i, j \in 1 .. Len(q) : q[i] = q[j] => i = j

\* The connection being served has a descriptor, which is given back on the way to
\* the top of the loop: there is room for one more there.
TableHasRoom ==
  /\ daemon = "down" => open = 0 /\ serving = NoClient /\ backlog = << >>
  /\ daemon \in {"top", "accept"} => /\ open >= 1 /\ open < MaxFds
                                     /\ serving = NoClient
  /\ daemon \in Serving => open >= 2 /\ serving \in Clients

\* No client has two connections.
OneEach == Distinct(backlog) /\ ~Contains(backlog, serving)

\* What is handed out is of the newest session.
Handed ==
  daemon \in Sending =>
    /\ made >= 1
    /\ current.shm \in {Fd("shm", made), Fd("empty", made)}
    /\ current.send \in {NoFd, Fd("send", made)}
    /\ current.recv \in {NoFd, Fd("recv", made)}

\* A connection has two ends: a client waits on one that the daemon has, or that has
\* been hung up.
Linked(c) ==
  /\ pc[c] \in Idle => At(c) = "away" /\ ~hello[c] /\ inbox[c] = << >> /\ ~hungup[c]
  /\ pc[c] = "crashed" => inbox[c] = << >> /\ ~hungup[c]
  /\ pc[c] \in Waiting => (hungup[c] <=> At(c) = "away")
  /\ pc[c] = "map" => hungup[c] /\ At(c) = "away"
  /\ pc[c] = "send" => /\ At(c) \in {"queued", "meta", "away"}
                       /\ inbox[c] = << >> /\ ~hello[c]
  /\ At(c) \in {"queued", "meta"} => /\ pc[c] \in {"send", "recvId", "crashed"}
                                     /\ inbox[c] = << >>
  /\ hello[c] => /\ pc[c] \in {"recvId", "crashed"} /\ inbox[c] = << >>
                 /\ At(c) \in {"queued", "meta", "away"}

\* The context names what is open, and a field is filled in by its own call.
Kept(c) ==
  /\ fds[c] = Named(ctx[c]) /\ ctx[c].sock \in {NoFd, Sock}
  /\ pc[c] \in {"gone", "created", "crashed"} => ctx[c] = NoCtx
  /\ pc[c] \in {"connect", "send", "recvId", "recvShm", "cpu"} => ctx[c].shm = NoFd
  /\ pc[c] \in {"connect", "send", "recvId", "recvShm", "recvSend", "cpu"} =>
       ctx[c].send = NoFd
  /\ pc[c] \in {"connect", "send", "recvId", "recvShm", "recvSend", "recvRecv", "cpu"} =>
       ctx[c].recv = NoFd

\* What may come k-th on the connection that session s is sent on.
MayBe(m, k, s) ==
  /\ s > 0
  /\ \/ k = 1 /\ m = WorkerId
     \/ k = 2 /\ m \in {Fd("shm", s), Fd("empty", s)}
     \/ k = 3 /\ m \in {Fd("send", s), Fd("recv", s)}
     \/ k = 4 /\ m = Fd("recv", s)

\* How many messages a client has taken from its connection.
Taken(c) == CASE pc[c] = "recvShm" -> 1 [] pc[c] = "recvSend" -> 2
              [] pc[c] = "recvRecv" -> 3 [] pc[c] = "map" -> 4 [] OTHER -> 0

\* What a client has taken and what it has still to take is of session s.
Own(c, s) ==
  /\ ctx[c].shm = NoFd \/ MayBe(ctx[c].shm, 2, s)
  /\ ctx[c].send = NoFd \/ MayBe(ctx[c].send, 3, s)
  /\ ctx[c].recv = NoFd \/ MayBe(ctx[c].recv, 4, s)
  /\ \A j \in 1 .. Len(inbox[c]) : MayBe(inbox[c][j], Taken(c) + j, s)

\* The last eventfd is the last to come, also when it comes in the place of the other.
LastIsLast(c) ==
  /\ \A j \in 1 .. Len(inbox[c]) : inbox[c][j].role = "recv" =>
       j = Len(inbox[c]) /\ At(c) = "away"
  /\ ctx[c].send.role = "recv" =>
       inbox[c] = << >> /\ At(c) = "away" /\ ctx[c].recv = NoFd

\* How far the daemon is in sending, to a client that is there.
Sent(c) ==
  LET n == Taken(c) + Len(inbox[c])
  IN  pc[c] \in Waiting =>
        /\ At(c) \in {"create", "reply"} => n = 0
        /\ At(c) = "sendShm" => n = 1
        /\ At(c) = "sendSend" => n = 2
        /\ At(c) = "sendRecv" => n \in {2, 3}

\* A session that has been given to a client is given to no other.
Given(ses) ==
  /\ \A c \in Clients : ses[c] <= made
  /\ \A c, e \in Clients : c # e /\ ses[c] = ses[e] => ses[c] = 0
  /\ daemon \in Sending => ses[serving] = made

Good(c, s) == Linked(c) /\ Kept(c) /\ Own(c, s) /\ LastIsLast(c) /\ Sent(c)

Ghost(ses) == Given(ses) /\ \A c \in Clients : Good(c, ses[c])

Whole == \E ses \in [Clients -> 0 .. made] : Ghost(ses)

Base == TypeOK /\ TableHasRoom /\ Handed

Inv == Base /\ OneEach /\ ConnectedIsWhole /\ Whole

-----------------------------------------------------------------------------
\* FdType: every descriptor that is named by a role and a session is one.
LEMMA FdType ==
  /\ \A role \in Roles, s \in Nat : Fd(role, s) \in Fds
  /\ NoFd \in Fds /\ Sock \in Fds /\ WorkerId \in Fds
BY DEF Fd, Fds, Roles, NoFd, Sock, WorkerId

\* MissingCount: at least the memory has been opened when a session is made.
LEMMA MissingCount ==
  ASSUME NEW missing \in SUBSET {"send", "recv"}
  PROVE  Cardinality(missing) \in 0 .. 2
<1>1. IsFiniteSet({"recv"}) /\ Cardinality({"recv"}) = 1
  BY FS_Singleton
<1>2. IsFiniteSet({"send", "recv"}) /\ Cardinality({"send", "recv"}) = 2
  <2>1. {"send", "recv"} = {"recv"} \cup {"send"}
    OBVIOUS
  <2>2. "send" \notin {"recv"}
    OBVIOUS
  <2>3. Cardinality({"recv"} \cup {"send"}) = Cardinality({"recv"}) + 1
    BY <1>1, <2>2, FS_AddElement
  <2>4. IsFiniteSet({"recv"} \cup {"send"})
    BY <1>1, FS_AddElement
  <2> QED BY <1>1, <2>1, <2>3, <2>4
<1>3. IsFiniteSet(missing) /\ Cardinality(missing) <= Cardinality({"send", "recv"})
  BY <1>2, FS_Subset
<1>4. Cardinality(missing) \in Nat
  BY <1>3, FS_CardinalityType
<1> QED BY <1>2, <1>3, <1>4

\* InitBase: nothing is open before the daemon starts.
LEMMA InitBase == Init => Base
<1> SUFFICES ASSUME Init PROVE Base
  OBVIOUS
<1> USE HandshakeAssumption
<1>1. FALSE \in BOOLEAN
  OBVIOUS
<1>2. current \in [shm : Fds, send : Fds, recv : Fds]
  BY FdType DEF Init, NoSession
<1>3. NoCtx \in [sock : Fds, shm : Fds, send : Fds, recv : Fds]
  BY FdType DEF NoCtx
<1>4. /\ hello \in [Clients -> BOOLEAN] /\ hungup \in [Clients -> BOOLEAN]
      /\ stopping \in BOOLEAN
  BY <1>1, Zenon DEF Init
<1>5. /\ ctx \in [Clients -> [sock : Fds, shm : Fds, send : Fds, recv : Fds]]
      /\ fds \in [Clients -> SUBSET Fds]
  BY <1>3 DEF Init
<1>6. << >> \in Seq(Fds) /\ << >> \in Seq(Clients)
  OBVIOUS
<1>7. inbox \in [Clients -> Seq(Fds)] /\ backlog \in Seq(Clients)
  BY <1>6 DEF Init
<1>8. TypeOK
  BY <1>2, <1>4, <1>5, <1>7 DEF Init, TypeOK
<1>9. TableHasRoom /\ Handed
  BY DEF Init, TableHasRoom, Handed, Serving, Sending
<1> QED BY <1>8, <1>9 DEF Base

-----------------------------------------------------------------------------
(* The steps of a plugin leave the daemon alone. *)

Labels == {"gone", "created", "connect", "send", "recvId", "recvShm", "recvSend",
           "recvRecv", "map", "hardware", "cpu", "crashed"}

Contexts == [sock : Fds, shm : Fds, send : Fds, recv : Fds]

\* DiesTypes: a process that is gone has nothing open.
LEMMA DiesTypes ==
  ASSUME TypeOK, NEW c \in Clients, Dies(c)
  PROVE  /\ pc' \in [Clients -> Labels] /\ ctx' \in [Clients -> Contexts]
         /\ fds' \in [Clients -> SUBSET Fds] /\ hello' \in [Clients -> BOOLEAN]
         /\ inbox' \in [Clients -> Seq(Fds)] /\ hungup' \in [Clients -> BOOLEAN]
<1>1. NoCtx \in Contexts
  BY FdType DEF NoCtx, Contexts
<1>2. pc' \in [Clients -> Labels]
  BY DEF TypeOK, Dies, Goto, Labels
<1>3. ctx' \in [Clients -> Contexts]
  BY <1>1 DEF TypeOK, Dies, Contexts
<1>4. fds' \in [Clients -> SUBSET Fds]
  BY DEF TypeOK, Dies
<1>5. inbox' \in [Clients -> Seq(Fds)]
  BY DEF TypeOK, Dies
<1>6. hello' \in [Clients -> BOOLEAN] /\ hungup' \in [Clients -> BOOLEAN]
  BY Zenon DEF TypeOK, Dies
<1> QED BY <1>2, <1>3, <1>4, <1>5, <1>6

\* CloseAllTypes: safe_close of every descriptor.
LEMMA CloseAllTypes ==
  ASSUME TypeOK, NEW c \in Clients, CloseAll(c)
  PROVE  ctx' \in [Clients -> Contexts] /\ fds' \in [Clients -> SUBSET Fds]
<1>1. NoCtx \in Contexts
  BY FdType DEF NoCtx, Contexts
<1>2. ctx' \in [Clients -> Contexts]
  BY <1>1 DEF TypeOK, CloseAll, Contexts
<1>3. fds' \in [Clients -> SUBSET Fds]
  BY DEF TypeOK, CloseAll
<1> QED BY <1>2, <1>3

\* DisconnectedTypes: an empty connection.
LEMMA DisconnectedTypes ==
  ASSUME TypeOK, NEW c \in Clients, Disconnected(c)
  PROVE  /\ hello' \in [Clients -> BOOLEAN] /\ hungup' \in [Clients -> BOOLEAN]
         /\ inbox' \in [Clients -> Seq(Fds)]
<1>1. inbox' \in [Clients -> Seq(Fds)]
  BY DEF TypeOK, Disconnected
<1>2. hello' \in [Clients -> BOOLEAN] /\ hungup' \in [Clients -> BOOLEAN]
  BY Zenon DEF TypeOK, Disconnected
<1> QED BY <1>1, <1>2

\* CleanUpTypes: the label cleanup.
LEMMA CleanUpTypes ==
  ASSUME TypeOK, NEW c \in Clients, CleanUp(c)
  PROVE  /\ pc' \in [Clients -> Labels] /\ ctx' \in [Clients -> Contexts]
         /\ fds' \in [Clients -> SUBSET Fds] /\ hello' \in [Clients -> BOOLEAN]
         /\ inbox' \in [Clients -> Seq(Fds)] /\ hungup' \in [Clients -> BOOLEAN]
<1>1. pc' \in [Clients -> Labels]
  BY DEF TypeOK, CleanUp, Goto, Labels
<1> QED BY <1>1, CloseAllTypes, DisconnectedTypes DEF CleanUp

\* RecvFdTypes: a field of the context takes what comes.
LEMMA RecvFdTypes ==
  ASSUME TypeOK, NEW c \in Clients,
         NEW label \in {"recvShm", "recvSend", "recvRecv"},
         NEW role \in {"shm", "send", "recv"}, RecvFd(c, label, role)
  PROVE  /\ pc' \in [Clients -> Labels] /\ ctx' \in [Clients -> Contexts]
         /\ fds' \in [Clients -> SUBSET Fds] /\ inbox' \in [Clients -> Seq(Fds)]
<1>1. After(label) \in Labels
  BY DEF After, Labels
<1>2. pc' \in [Clients -> Labels]
  BY <1>1 DEF TypeOK, RecvFd, Goto, Labels
<1>3. CASE Arrived(c)
  <2>1. inbox[c] \in Seq(Fds) /\ inbox[c] # << >>
    BY <1>3 DEF TypeOK, Arrived
  <2>2. Head(inbox[c]) \in Fds /\ Tail(inbox[c]) \in Seq(Fds)
    BY <2>1
  <2>3. ctx' = [ctx EXCEPT ![c][role] = Head(inbox[c])]
    BY <1>3 DEF RecvFd
  <2>4. ctx' \in [Clients -> Contexts]
    <3>1. [ctx[c] EXCEPT ![role] = Head(inbox[c])] \in Contexts
      <4>1. ctx[c] \in Contexts
        BY DEF TypeOK, Contexts
      <4>2. CASE role = "shm"
        BY <2>2, <4>1, <4>2 DEF Contexts
      <4>3. CASE role = "send"
        BY <2>2, <4>1, <4>3 DEF Contexts
      <4>4. CASE role = "recv"
        BY <2>2, <4>1, <4>4 DEF Contexts
      <4> QED BY <4>2, <4>3, <4>4
    <3> QED BY <2>3, <3>1 DEF TypeOK, Contexts
  <2>5. fds' \in [Clients -> SUBSET Fds]
    <3>1. fds[c] \cup {Head(inbox[c])} \in SUBSET Fds
      BY <2>2 DEF TypeOK
    <3>2. fds' = [fds EXCEPT ![c] = fds[c] \cup {Head(inbox[c])}]
      BY <1>3 DEF RecvFd
    <3>3. fds \in [Clients -> SUBSET Fds]
      BY DEF TypeOK
    <3> QED BY <3>1, <3>2, <3>3
  <2>6. inbox' \in [Clients -> Seq(Fds)]
    BY <1>3, <2>2 DEF TypeOK, RecvFd
  <2> QED BY <1>2, <2>4, <2>5, <2>6
<1>4. CASE ~Arrived(c)
  BY <1>2, <1>4 DEF RecvFd, TypeOK, Contexts
<1> QED BY <1>3, <1>4

\* ClientBase: no step of a plugin disturbs the daemon.
LEMMA ClientBase ==
  ASSUME Base, NEW c \in Clients, ConnectStep(c) \/ HostStep(c)
  PROVE  Base'
<1> USE DEF Base
<1> DEFINE ClientTypes == /\ pc' \in [Clients -> Labels] /\ ctx' \in [Clients -> Contexts]
                          /\ fds' \in [Clients -> SUBSET Fds]
                          /\ hello' \in [Clients -> BOOLEAN]
                          /\ inbox' \in [Clients -> Seq(Fds)]
                          /\ hungup' \in [Clients -> BOOLEAN]
                          /\ attempts' \in 0 .. MaxAttempts
                          /\ backlog' \in Seq(Clients)
                          /\ daemon = "down" => backlog' = backlog
                          /\ UNCHANGED daemonVars
<1>0. SUFFICES ClientTypes
  <2>1. TypeOK'
    BY DEF TypeOK, daemonVars, Labels, Contexts
  <2>2. TableHasRoom' /\ Handed'
    BY DEF TableHasRoom, Handed, daemonVars, TypeOK
  <2> QED BY <2>1, <2>2
<1>1. TypeOK
  OBVIOUS
<1>2. CASE \/ CreatePlugin(c) \/ ConnectRefused(c)
  BY <1>2 DEF CreatePlugin, ConnectRefused, TypeOK, Goto, daemonVars, linkVars, Labels,
              Contexts
<1>3. ASSUME NEW ok \in BOOLEAN, PluginActivate(c, ok) PROVE ClientTypes
  <2>1. /\ [ctx[c] EXCEPT !.sock = Sock] \in Contexts /\ {Sock} \in SUBSET Fds
    <3>1. ctx[c] \in Contexts
      BY DEF TypeOK, Contexts
    <3> QED BY <3>1, FdType DEF Contexts
  <2>2. ctx' \in [Clients -> Contexts] /\ fds' \in [Clients -> SUBSET Fds]
    BY <1>3, <2>1 DEF PluginActivate, TypeOK, Contexts
  <2>3. pc' \in [Clients -> Labels] /\ attempts' \in 0 .. MaxAttempts
    BY <1>3, HandshakeAssumption DEF PluginActivate, TypeOK, Goto, Labels
  <2> QED BY <1>3, <2>2, <2>3 DEF PluginActivate, TypeOK, daemonVars, linkVars
<1>4. CASE Connect(c)
  BY <1>4 DEF Connect, TypeOK, Goto, daemonVars, Labels, Contexts
<1>5. CASE SendMeta(c)
  <2>1. hello' \in [Clients -> BOOLEAN]
    BY <1>5, Zenon DEF SendMeta, TypeOK
  <2> QED BY <1>5, <2>1 DEF SendMeta, TypeOK, Goto, daemonVars, Labels, Contexts
<1>6. CASE SendMetaFails(c)
  BY <1>6, CleanUpTypes, DiesTypes DEF SendMetaFails, TypeOK
<1>7. CASE RecvId(c)
  <2>1. Tail(inbox[c]) \in Seq(Fds)
    BY <1>7 DEF RecvId, Arrived, TypeOK
  <2> QED BY <1>7, <2>1 DEF RecvId, TypeOK, Goto, daemonVars, Labels, Contexts
<1>8. CASE RecvIdFails(c)
  BY <1>8, CleanUpTypes DEF RecvIdFails, TypeOK
<1>9. CASE \/ RecvFd(c, "recvShm", "shm") \/ RecvFd(c, "recvSend", "send")
           \/ RecvFd(c, "recvRecv", "recv")
  <2>1. PICK label \in {"recvShm", "recvSend", "recvRecv"}, role \in {"shm", "send", "recv"} :
          RecvFd(c, label, role)
    BY <1>9
  <2>2. /\ pc' \in [Clients -> Labels] /\ ctx' \in [Clients -> Contexts]
        /\ fds' \in [Clients -> SUBSET Fds] /\ inbox' \in [Clients -> Seq(Fds)]
    BY <1>1, <2>1, RecvFdTypes
  <2> QED BY <2>1, <2>2 DEF RecvFd, TypeOK
<1>10. CASE MapSession(c)
  <2>1. CASE ctx[c].shm.role # "empty"
    <3>1. pc' \in [Clients -> Labels] /\ ctx' = ctx /\ fds' = fds /\ Disconnected(c)
      BY <1>10, <2>1 DEF MapSession, TypeOK, Goto, Labels
    <3> QED BY <1>10, <3>1, DisconnectedTypes DEF MapSession, TypeOK, Contexts
  <2>2. CASE ctx[c].shm.role = "empty"
    BY <1>10, <2>2, DiesTypes DEF MapSession, TypeOK
  <2> QED BY <2>1, <2>2
<1>11. ASSUME NEW mapped \in BOOLEAN, MapFails(c, mapped) PROVE ClientTypes
  BY <1>11, CleanUpTypes DEF MapFails, TypeOK
<1>12. CASE PluginDeactivate(c) \/ PluginDestroy(c)
  <2>1. pc' \in [Clients -> Labels] /\ CloseAll(c)
    BY <1>12 DEF PluginDeactivate, PluginDestroy, TypeOK, Goto, Labels
  <2> QED BY <1>12, <2>1, CloseAllTypes DEF PluginDeactivate, PluginDestroy, TypeOK, linkVars
<1>13. CASE ClientKilled(c)
  BY <1>13, DiesTypes DEF ClientKilled, TypeOK
<1>14. ASSUME NEW label \in {"recvShm", "recvSend", "recvRecv"}, RecvNoFd(c, label)
       PROVE  ClientTypes
  <2>1. Tail(inbox[c]) \in Seq(Fds)
    BY <1>14 DEF RecvNoFd, Arrived, TypeOK
  <2>2. After(label) \in Labels
    BY DEF After, Labels
  <2>3. pc' \in [Clients -> Labels] /\ inbox' \in [Clients -> Seq(Fds)]
    BY <1>14, <2>1, <2>2 DEF RecvNoFd, TypeOK, Goto, Labels
  <2> QED BY <1>14, <2>3 DEF RecvNoFd, TypeOK, daemonVars, Contexts
<1> QED
  BY <1>2, <1>3, <1>4, <1>5, <1>6, <1>7, <1>8, <1>9, <1>10, <1>11, <1>12, <1>13, <1>14
     DEF ConnectStep, HostStep

-----------------------------------------------------------------------------
(* The steps of the daemon. *)

\* ClientServed: while it serves a connection, there is a client, and room.
LEMMA ClientServed ==
  ASSUME Base, daemon \in Serving
  PROVE  serving \in Clients /\ open \in 2 .. MaxFds
BY HandshakeAssumption DEF Base, TypeOK, TableHasRoom

\* HungupType: whom the daemon hangs up on.
LEMMA HungupType ==
  ASSUME TypeOK, NEW c \in Clients
  PROVE  [hungup EXCEPT ![c] = pc[c] # "crashed"] \in [Clients -> BOOLEAN]
<1>1. (pc[c] # "crashed") \in BOOLEAN
  OBVIOUS
<1> QED BY <1>1, Zenon DEF TypeOK

\* DaemonDiesBase: when it dies all is closed.
LEMMA DaemonDiesBase ==
  ASSUME Base, DaemonDies, made' \in Nat, UNCHANGED <<starts, clientVars, hello, inbox>>
  PROVE  Base'
<1> USE DEF Base
<1>1. hungup' \in [Clients -> BOOLEAN] /\ stopping' \in BOOLEAN
  <2> DEFINE cut == {c \in Clients : c = serving \/ Contains(backlog, c)}
  <2>1. hungup' = [c \in Clients |-> hungup[c] \/ (c \in cut /\ pc[c] # "crashed")]
    BY DEF DaemonDies
  <2>2. \A c \in Clients : (hungup[c] \/ (c \in cut /\ pc[c] # "crashed")) \in BOOLEAN
    OBVIOUS
  <2>3. FALSE \in BOOLEAN
    OBVIOUS
  <2> QED BY <2>1, <2>2, <2>3, Zenon DEF DaemonDies
<1>2. current' \in [shm : Fds, send : Fds, recv : Fds]
  BY FdType DEF DaemonDies, NoSession
<1>3. backlog' \in Seq(Clients)
  BY DEF DaemonDies
<1>4. open' \in 0 .. MaxFds
  BY HandshakeAssumption DEF DaemonDies
<1>5. TypeOK'
  BY <1>1, <1>2, <1>3, <1>4 DEF DaemonDies, TypeOK, clientVars
<1>6. TableHasRoom' /\ Handed'
  BY DEF DaemonDies, TableHasRoom, Handed, Serving, Sending
<1> QED BY <1>5, <1>6

\* CloseClientBase: a connection that is closed gives its descriptor back.
LEMMA CloseClientBase ==
  ASSUME Base, daemon \in Serving, CloseClient, inbox' \in [Clients -> Seq(Fds)],
         current' = current \/ current' = NoSession,
         UNCHANGED <<stopping, starts, made, clientVars, backlog, hello>>
  PROVE  Base'
<1> USE DEF Base
<1>1. serving \in Clients /\ open \in 2 .. MaxFds
  BY ClientServed
<1>2. hungup' \in [Clients -> BOOLEAN]
  BY <1>1, HungupType DEF CloseClient
<1>3. current' \in [shm : Fds, send : Fds, recv : Fds]
  BY FdType DEF NoSession, TypeOK
<1>4. open' = open - 1 /\ open' \in 0 .. MaxFds /\ open' >= 1 /\ open' < MaxFds
  BY <1>1, HandshakeAssumption DEF CloseClient
<1>5. TypeOK'
  BY <1>2, <1>3, <1>4 DEF CloseClient, TypeOK, clientVars
<1>6. TableHasRoom' /\ Handed'
  BY <1>4 DEF CloseClient, TableHasRoom, Handed, Serving, Sending
<1> QED BY <1>5, <1>6

\* DeliverType: what is sent are descriptors.
LEMMA DeliverType ==
  ASSUME Base, NEW label \in Sending, daemon = label, Deliver(Sends[label])
  PROVE  inbox' \in [Clients -> Seq(Fds)]
<1>1. serving \in Clients
  BY ClientServed DEF Serving
<1>2. current.shm \in Fds /\ current.send \in Fds /\ current.recv \in Fds
  BY DEF Base, TypeOK
<1>3. Sends[label] \in Fds
  BY <1>2, FdType DEF Sends, Sending
<1>4. inbox[serving] \in Seq(Fds)
  BY <1>1 DEF Base, TypeOK
<1>5. Append(inbox[serving], Sends[label]) \in Seq(Fds)
  BY <1>3, <1>4
<1>6. inbox \in [Clients -> Seq(Fds)]
  BY DEF Base, TypeOK
<1>7. \/ inbox' = inbox
      \/ inbox' = [inbox EXCEPT ![serving] = Append(inbox[serving], Sends[label])]
  BY DEF Deliver
<1> HIDE DEF Sends
<1> QED BY <1>1, <1>5, <1>6, <1>7

\* CreateBase: a session has its descriptors, or the daemon has died.
LEMMA CreateBase ==
  ASSUME Base, NEW missing \in SUBSET {"send", "recv"}, NEW truncated \in BOOLEAN,
         NEW mapped \in BOOLEAN, CreateSession(missing, truncated, mapped)
  PROVE  Base'
<1> USE DEF Base
<1>1. made' = made + 1 /\ made \in Nat /\ daemon = "create"
  BY DEF CreateSession, TypeOK
<1>2. CASE ~truncated /\ mapped
  BY <1>1, <1>2, DaemonDiesBase DEF CreateSession
<1>3. CASE ~(~truncated /\ mapped)
  <2> DEFINE shm == IF truncated THEN "shm" ELSE "empty"
             opened == 3 - Cardinality(missing)
  <2>1. /\ daemon' = "reply" /\ open' = open + opened /\ open + opened <= MaxFds
        /\ current' = NewSession(made + 1, shm, missing)
        /\ UNCHANGED <<starts, clientVars, hello, inbox, stopping, serving, backlog, hungup>>
    BY <1>3 DEF CreateSession
  <2>2. opened \in 1 .. 3
    BY MissingCount
  <2>3. serving \in Clients /\ open \in 2 .. MaxFds
    BY <1>1, ClientServed DEF Serving
  <2>4. open' \in 0 .. MaxFds /\ open' >= 2
    <3> HIDE DEF opened
    <3> QED BY <2>1, <2>2, <2>3, HandshakeAssumption
  <2>5. /\ current'.shm \in {Fd("shm", made + 1), Fd("empty", made + 1)}
        /\ current'.send \in {NoFd, Fd("send", made + 1)}
        /\ current'.recv \in {NoFd, Fd("recv", made + 1)}
        /\ current' = [shm |-> current'.shm, send |-> current'.send, recv |-> current'.recv]
    BY <2>1 DEF NewSession
  <2>6. /\ current'.shm \in Fds /\ current'.send \in Fds /\ current'.recv \in Fds
    BY <1>1, <2>5, FdType DEF Roles
  <2>7. current' \in [shm : Fds, send : Fds, recv : Fds]
    BY <2>5, <2>6
  <2>8. TypeOK'
    BY <1>1, <2>1, <2>4, <2>7 DEF TypeOK, clientVars
  <2>9. TableHasRoom'
    BY <2>1, <2>3, <2>4 DEF TableHasRoom
  <2>10. Handed'
    BY <1>1, <2>5 DEF Handed
  <2> QED BY <2>8, <2>9, <2>10
<1> QED BY <1>2, <1>3

\* DaemonBase: no step of the daemon takes it out of its table.
LEMMA DaemonBase ==
  ASSUME Base, \/ DaemonStep \/ HandleSig \/ DaemonKilled
               \/ \E ok \in BOOLEAN : Starting(ok)
  PROVE  Base'
<1> USE DEF Base
<1>1. ASSUME NEW ok \in BOOLEAN, Starting(ok) PROVE Base'
  <2>1. open' \in 0 .. MaxFds /\ starts' \in 0 .. MaxStarts
    BY <1>1, HandshakeAssumption DEF Starting, TypeOK
  <2>2. TypeOK'
    BY <1>1, <2>1 DEF Starting, TypeOK, clientVars, linkVars
  <2>3. TableHasRoom'
    BY <1>1, HandshakeAssumption DEF Starting, TableHasRoom, Serving, Sending, linkVars
  <2>4. Handed'
    BY <1>1 DEF Starting, Handed, Sending
  <2> QED BY <2>2, <2>3, <2>4
<1>2. CASE HandleSig
  <2>1. stopping' \in BOOLEAN
    BY <1>2, Zenon DEF HandleSig
  <2>2. TypeOK'
    BY <1>2, <2>1 DEF HandleSig, TypeOK, clientVars, linkVars
  <2>3. TableHasRoom' /\ Handed'
    BY <1>2 DEF HandleSig, TableHasRoom, Handed, linkVars
  <2> QED BY <2>2, <2>3
<1>3. CASE LoopTop
  <2>1. TypeOK'
    BY <1>3 DEF LoopTop, TypeOK, clientVars, linkVars
  <2>2. TableHasRoom' /\ Handed'
    BY <1>3 DEF LoopTop, TableHasRoom, Handed, Serving, Sending, linkVars
  <2> QED BY <2>1, <2>2
<1>4. CASE LoopEnds \/ SendFails \/ DaemonKilled
  <2>1. made' \in Nat
    BY <1>4 DEF LoopEnds, SendFails, DaemonKilled, TypeOK
  <2> QED BY <1>4, <2>1, DaemonDiesBase DEF LoopEnds, SendFails, DaemonKilled
<1>5. CASE Accept
  <2>1. backlog \in Seq(Clients) /\ backlog # << >>
    BY <1>5 DEF Accept, TypeOK
  <2>2. Head(backlog) \in Clients /\ Tail(backlog) \in Seq(Clients)
    BY <2>1
  <2>3. open' \in 0 .. MaxFds /\ open' >= 2
    BY <1>5, HandshakeAssumption DEF Accept, TypeOK, TableHasRoom
  <2>4. TypeOK'
    BY <1>5, <2>2, <2>3 DEF Accept, TypeOK, clientVars
  <2>5. TableHasRoom' /\ Handed'
    BY <1>5, <2>2, <2>3 DEF Accept, TableHasRoom, Handed, Sending
  <2> QED BY <2>4, <2>5
<1>6. CASE AcceptFails
  <2>1. TypeOK'
    BY <1>6 DEF AcceptFails, TypeOK, clientVars, linkVars
  <2>2. TableHasRoom' /\ Handed'
    BY <1>6 DEF AcceptFails, TableHasRoom, Handed, Serving, Sending, linkVars
  <2> QED BY <2>1, <2>2
<1>7. CASE RecvMeta
  <2>1. hello' \in [Clients -> BOOLEAN]
    BY <1>7, Zenon DEF RecvMeta, TypeOK
  <2>2. TypeOK'
    BY <1>7, <2>1 DEF RecvMeta, TypeOK, clientVars
  <2>3. TableHasRoom' /\ Handed'
    BY <1>7 DEF RecvMeta, TableHasRoom, Handed, Serving, Sending
  <2> QED BY <2>2, <2>3
<1>8. CASE RecvMetaFails \/ MemfdFails
  <2>1. daemon \in Serving /\ inbox' \in [Clients -> Seq(Fds)]
    BY <1>8 DEF RecvMetaFails, MemfdFails, TypeOK, Serving
  <2> QED BY <1>8, <2>1, CloseClientBase DEF RecvMetaFails, MemfdFails
<1>9. CASE \E missing \in SUBSET {"send", "recv"}, truncated, mapped \in BOOLEAN :
             CreateSession(missing, truncated, mapped)
  BY <1>9, CreateBase
<1>10. ASSUME NEW label \in {"reply", "sendShm", "sendSend"}, Send(label) PROVE Base'
  <2>1. inbox' \in [Clients -> Seq(Fds)]
    BY <1>10, DeliverType DEF Send, Sending
  <2>2. daemon' \in {"sendShm", "sendSend", "sendRecv"}
    BY <1>10 DEF Send, Following
  <2>3. daemon \in Sending
    BY <1>10 DEF Send, Sending
  <2>4. UNCHANGED <<stopping, starts, serving, open, made, current, clientVars,
                    backlog, hello, hungup>>
    BY <1>10 DEF Send
  <2>5. TypeOK'
    BY <2>1, <2>2, <2>4 DEF TypeOK, clientVars
  <2>6. TableHasRoom' /\ Handed'
    BY <2>2, <2>3, <2>4 DEF TableHasRoom, Handed, Serving, Sending
  <2> QED BY <2>5, <2>6
<1>11. CASE SendLast
  <2>1. inbox' \in [Clients -> Seq(Fds)] /\ daemon \in Serving
    BY <1>11, DeliverType DEF SendLast, Sending, Serving
  <2> QED BY <1>11, <2>1, CloseClientBase DEF SendLast
<1>12. CASE SendNothing
  <2>1. CASE daemon = "sendRecv"
    <3>1. inbox' \in [Clients -> Seq(Fds)] /\ daemon \in Serving
      BY <1>12, <2>1 DEF SendNothing, TypeOK, Serving, Sending
    <3> QED BY <1>12, <2>1, <3>1, CloseClientBase DEF SendNothing
  <2>2. CASE daemon = "sendSend"
    <3>1. TypeOK'
      BY <1>12, <2>2 DEF SendNothing, TypeOK, clientVars
    <3>2. TableHasRoom' /\ Handed'
      BY <1>12, <2>2 DEF SendNothing, TableHasRoom, Handed, Serving, Sending
    <3> QED BY <3>1, <3>2
  <2> QED BY <1>12, <2>1, <2>2 DEF SendNothing
<1> QED
  BY <1>1, <1>2, <1>3, <1>4, <1>5, <1>6, <1>7, <1>8, <1>9, <1>10, <1>11, <1>12
     DEF DaemonStep

\* StepBase: every step keeps the daemon within its table.
LEMMA StepBase == Base /\ [Next]_vars => Base'
<1> SUFFICES ASSUME Base, [Next]_vars PROVE Base'
  OBVIOUS
<1>1. CASE UNCHANGED vars
  BY <1>1 DEF Base, TypeOK, TableHasRoom, Handed, vars, daemonVars, clientVars, linkVars
<1>2. CASE Next
  BY <1>2, ClientBase, DaemonBase DEF Next
<1> QED BY <1>1, <1>2

-----------------------------------------------------------------------------
(* Connections and sessions: a plugin's steps. *)

\* Same: a client whose connection and context are as before is as good as before.
LEMMA Same ==
  ASSUME NEW c \in Clients, NEW s, Good(c, s), At(c)' = At(c),
         pc'[c] = pc[c], ctx'[c] = ctx[c], fds'[c] = fds[c], hello'[c] = hello[c],
         inbox'[c] = inbox[c], hungup'[c] = hungup[c]
  PROVE  Good(c, s)'
<1>1. Taken(c)' = Taken(c)
  BY DEF Taken
<1>2. Linked(c)'
  BY DEF Good, Linked
<1>3. Kept(c)'
  BY DEF Good, Kept
<1>4. Own(c, s)'
  BY <1>1 DEF Good, Own
<1>5. LastIsLast(c)'
  BY DEF Good, LastIsLast
<1>6. Sent(c)'
  BY <1>1 DEF Good, Sent
<1> QED BY <1>2, <1>3, <1>4, <1>5, <1>6 DEF Good

\* Apart: descriptors of different roles are different.
LEMMA Apart ==
  /\ \A s : Fd("shm", s) # NoFd /\ Fd("empty", s) # NoFd
  /\ \A s : Fd("send", s) # NoFd /\ Fd("recv", s) # NoFd
  /\ Sock # NoFd /\ WorkerId # NoFd
  /\ \A r, s : Fd(r, s).role = r /\ Fd(r, s).session = s
BY DEF Fd, NoFd, Sock, WorkerId

\* NothingNamed: a context that is closed names nothing.
LEMMA NothingNamed ==
  /\ Named(NoCtx) = {} /\ NoCtx.sock = NoFd /\ NoCtx.shm = NoFd /\ NoCtx.send = NoFd
  /\ NoCtx.recv = NoFd /\ NoFd.role = "none"
BY DEF Named, NoCtx, NoFd, Fd

\* Emptied: a client with a closed context and no connection.
LEMMA Emptied ==
  ASSUME NEW c \in Clients, NEW s, At(c)' = "away",
         pc'[c] \in {"gone", "created", "cpu"}, ctx'[c] = NoCtx, fds'[c] = {},
         hello'[c] = FALSE, inbox'[c] = << >>, hungup'[c] = FALSE
  PROVE  Good(c, s)'
<1>1. Linked(c)'
  BY DEF Linked, Idle, Waiting
<1>2. Kept(c)'
  BY NothingNamed DEF Kept
<1>3. Own(c, s)' /\ LastIsLast(c)'
  BY NothingNamed DEF Own, LastIsLast
<1>4. Sent(c)'
  BY DEF Sent, Waiting
<1> QED BY <1>1, <1>2, <1>3, <1>4 DEF Good

\* Dead: a client that is gone, whose metadata may still be received.
LEMMA Dead ==
  ASSUME NEW c \in Clients, NEW s, pc'[c] = "crashed", ctx'[c] = NoCtx, fds'[c] = {},
         hello'[c] = TRUE => At(c)' \in {"queued", "meta", "away"},
         hello'[c] \in BOOLEAN, inbox'[c] = << >>, hungup'[c] = FALSE
  PROVE  Good(c, s)'
<1>1. Linked(c)'
  BY DEF Linked, Idle, Waiting
<1>2. Kept(c)'
  BY NothingNamed DEF Kept
<1>3. Own(c, s)' /\ LastIsLast(c)'
  BY NothingNamed DEF Own, LastIsLast
<1>4. Sent(c)'
  BY DEF Sent, Waiting
<1> QED BY <1>1, <1>2, <1>3, <1>4 DEF Good

\* CleanUpGood: the label cleanup, on a connection that has been hung up.
LEMMA CleanUpGood ==
  ASSUME TypeOK, NEW c \in Clients, NEW s, Good(c, s), At(c)' = At(c), At(c) = "away",
         CleanUp(c)
  PROVE  Good(c, s)'
<1>1. /\ pc'[c] = "cpu" /\ ctx'[c] = NoCtx /\ hello'[c] = FALSE
      /\ inbox'[c] = << >> /\ hungup'[c] = FALSE
  BY DEF CleanUp, CloseAll, Disconnected, Goto, TypeOK
<1>2. fds'[c] = {}
  BY DEF CleanUp, CloseAll, TypeOK, Good, Kept
<1> QED BY <1>1, <1>2, Emptied

\* DiesGood: the process ends.
LEMMA DiesGood ==
  ASSUME TypeOK, NEW c \in Clients, NEW s, Good(c, s), At(c)' = At(c), Dies(c)
  PROVE  Good(c, s)'
<1>1. /\ pc'[c] = "crashed" /\ ctx'[c] = NoCtx /\ hello'[c] = hello[c] /\ fds'[c] = {}
      /\ inbox'[c] = << >> /\ hungup'[c] = FALSE
  BY DEF Dies, Goto, TypeOK
<1>2. hello[c] \in BOOLEAN
  BY DEF TypeOK
<1>3. hello'[c] = TRUE => At(c)' \in {"queued", "meta", "away"}
  BY <1>1 DEF Good, Linked
<1> QED BY <1>1, <1>2, <1>3, Dead

\* HostGood: the steps of the host, without a connection.
LEMMA HostGood ==
  ASSUME TypeOK, NEW c \in Clients, NEW s, Good(c, s), At(c)' = At(c), HostStep(c)
  PROVE  Good(c, s)'
<1>1. CASE CreatePlugin(c)
  <2>1. /\ pc[c] = "gone" /\ pc'[c] = "created" /\ ctx'[c] = ctx[c] /\ fds'[c] = fds[c]
        /\ hello'[c] = hello[c] /\ inbox'[c] = inbox[c] /\ hungup'[c] = hungup[c]
    BY <1>1 DEF CreatePlugin, Goto, TypeOK, linkVars
  <2>2. /\ ctx[c] = NoCtx /\ fds[c] = {} /\ inbox[c] = << >> /\ At(c) = "away"
    BY <2>1, NothingNamed DEF Good, Kept, Linked, Idle
  <2>3. hello[c] = FALSE /\ hungup[c] = FALSE
    BY <2>1 DEF Good, Linked, Idle, TypeOK
  <2> QED BY <2>1, <2>2, <2>3, Emptied
<1>2. ASSUME NEW ok \in BOOLEAN, PluginActivate(c, ok) PROVE Good(c, s)'
  <2>1. /\ pc[c] = "created" /\ pc'[c] \in {"connect", "cpu"}
        /\ hello'[c] = hello[c] /\ inbox'[c] = inbox[c] /\ hungup'[c] = hungup[c]
    BY <1>2 DEF PluginActivate, Goto, TypeOK, linkVars
  <2>2. /\ ctx[c] = NoCtx /\ fds[c] = {} /\ inbox[c] = << >> /\ At(c) = "away"
        /\ ~hello[c] /\ ~hungup[c]
    BY <2>1, NothingNamed DEF Good, Kept, Linked, Idle
  <2>3. \/ ctx'[c] = NoCtx /\ fds'[c] = {}
        \/ ctx'[c] = [NoCtx EXCEPT !.sock = Sock] /\ fds'[c] = {Sock}
    BY <1>2, <2>2 DEF PluginActivate, TypeOK
  <2>4. /\ ctx'[c].shm = NoFd /\ ctx'[c].send = NoFd /\ ctx'[c].recv = NoFd
        /\ ctx'[c].sock \in {NoFd, Sock} /\ fds'[c] = Named(ctx'[c])
    BY <2>3, Apart DEF NoCtx, Named
  <2>5. Linked(c)'
    BY <2>1, <2>2 DEF Linked, Idle, Waiting
  <2>6. Kept(c)'
    BY <2>1, <2>4 DEF Kept
  <2>7. Own(c, s)' /\ LastIsLast(c)' /\ Sent(c)'
    BY <2>1, <2>2, <2>4, NothingNamed DEF Own, LastIsLast, Sent, Waiting
  <2> QED BY <2>5, <2>6, <2>7 DEF Good
<1>3. CASE PluginDeactivate(c) \/ PluginDestroy(c)
  <2>1. /\ pc[c] \in {"created", "hardware", "cpu"} /\ pc'[c] \in {"created", "gone"}
        /\ ctx'[c] = NoCtx /\ fds'[c] = fds[c] \ Named(ctx[c])
        /\ hello'[c] = hello[c] /\ inbox'[c] = inbox[c] /\ hungup'[c] = hungup[c]
    BY <1>3 DEF PluginDeactivate, PluginDestroy, Goto, CloseAll, TypeOK, linkVars
  <2>2. fds'[c] = {} /\ inbox[c] = << >> /\ At(c) = "away"
    BY <2>1 DEF Good, Kept, Linked, Idle
  <2>3. hello[c] = FALSE /\ hungup[c] = FALSE
    BY <2>1 DEF Good, Linked, Idle, TypeOK
  <2> QED BY <2>1, <2>2, <2>3, Emptied
<1>4. CASE ClientKilled(c)
  BY <1>4, DiesGood DEF ClientKilled
<1> QED BY <1>1, <1>2, <1>3, <1>4 DEF HostStep

\* ConnectGood: a client that connects is in the backlog, and was not.
LEMMA ConnectGood ==
  ASSUME TypeOK, NEW c \in Clients, NEW s, Good(c, s), At(c)' = "queued", Connect(c)
  PROVE  Good(c, s)'
<1>1. /\ pc[c] = "connect" /\ pc'[c] = "send" /\ ctx'[c] = ctx[c] /\ fds'[c] = fds[c]
      /\ hello'[c] = hello[c] /\ inbox'[c] = inbox[c] /\ hungup'[c] = hungup[c]
  BY DEF Connect, Goto, TypeOK
<1>2. /\ inbox[c] = << >> /\ ~hello[c] /\ ~hungup[c]
      /\ ctx[c].shm = NoFd /\ ctx[c].send = NoFd /\ ctx[c].recv = NoFd
      /\ ctx[c].sock \in {NoFd, Sock} /\ fds[c] = Named(ctx[c])
  BY <1>1 DEF Good, Linked, Kept, Idle
<1>3. Linked(c)'
  BY <1>1, <1>2 DEF Linked, Idle, Waiting
<1>4. Kept(c)'
  BY <1>1, <1>2 DEF Kept
<1>5. Own(c, s)' /\ LastIsLast(c)' /\ Sent(c)'
  BY <1>1, <1>2, NothingNamed DEF Own, LastIsLast, Sent
<1> QED BY <1>3, <1>4, <1>5 DEF Good

\* RefusedGood: nobody listens.
LEMMA RefusedGood ==
  ASSUME TypeOK, NEW c \in Clients, NEW s, Good(c, s), At(c)' = At(c), ConnectRefused(c)
  PROVE  Good(c, s)'
<1>1. /\ pc[c] = "connect" /\ pc'[c] = "cpu" /\ ctx'[c] = ctx[c] /\ fds'[c] = fds[c]
      /\ hello'[c] = hello[c] /\ inbox'[c] = inbox[c] /\ hungup'[c] = hungup[c]
  BY DEF ConnectRefused, Goto, TypeOK, linkVars
<1>2. Linked(c)'
  BY <1>1 DEF Good, Linked, Idle, Waiting
<1>3. Kept(c)'
  BY <1>1 DEF Good, Kept
<1>4. inbox[c] = << >>
  BY <1>1 DEF Good, Linked, Idle
<1>5. Own(c, s)' /\ LastIsLast(c)' /\ Sent(c)'
  BY <1>1, <1>4 DEF Good, Own, LastIsLast, Sent, Waiting
<1> QED BY <1>2, <1>3, <1>5 DEF Good

\* SendMetaGood: the metadata is on its way to a daemon that has not received it.
LEMMA SendMetaGood ==
  ASSUME TypeOK, NEW c \in Clients, NEW s, Good(c, s), At(c)' = At(c), SendMeta(c)
  PROVE  Good(c, s)'
<1>1. /\ pc[c] = "send" /\ pc'[c] = "recvId" /\ ctx'[c] = ctx[c] /\ fds'[c] = fds[c]
      /\ inbox'[c] = inbox[c] /\ hungup'[c] = hungup[c] /\ ~hungup[c]
  BY DEF SendMeta, Goto, TypeOK
<1>2. /\ inbox[c] = << >> /\ At(c) \in {"queued", "meta"}
  BY <1>1 DEF Good, Linked, Waiting
<1>3. Linked(c)'
  BY <1>1, <1>2 DEF Linked, Idle, Waiting
<1>4. Kept(c)'
  BY <1>1 DEF Good, Kept
<1>5. Own(c, s)' /\ LastIsLast(c)' /\ Sent(c)'
  BY <1>1, <1>2 DEF Good, Own, LastIsLast, Sent
<1> QED BY <1>3, <1>4, <1>5 DEF Good

\* TakeOne: what is left after the first message has been taken.
LEMMA TakeOne ==
  ASSUME TypeOK, NEW c \in Clients, NEW s, Good(c, s), inbox[c] # << >>,
         inbox'[c] = Tail(inbox[c]), Taken(c) \in Nat, Taken(c)' = Taken(c) + 1
  PROVE  /\ MayBe(Head(inbox[c]), Taken(c) + 1, s)
         /\ \A j \in 1 .. Len(inbox'[c]) : MayBe(inbox'[c][j], Taken(c)' + j, s)
         /\ \A j \in 1 .. Len(inbox'[c]) : inbox'[c][j].role = "recv" =>
              j = Len(inbox'[c]) /\ At(c) = "away"
         /\ Head(inbox[c]).role = "recv" => inbox'[c] = << >> /\ At(c) = "away"
         /\ Taken(c)' + Len(inbox'[c]) = Taken(c) + Len(inbox[c])
<1> DEFINE q == inbox[c]
<1>1. q \in Seq(Fds) /\ q # << >>
  BY DEF TypeOK
<1>2. /\ Len(q) \in Nat /\ Len(q) >= 1 /\ Len(Tail(q)) = Len(q) - 1 /\ Head(q) = q[1]
      /\ Tail(q) \in Seq(Fds)
  BY <1>1
<1>3. \A j \in 1 .. Len(q) - 1 : Tail(q)[j] = q[j + 1] /\ j + 1 \in 1 .. Len(q)
  BY <1>1, <1>2
<1>4. \A j \in 1 .. Len(q) : MayBe(q[j], Taken(c) + j, s)
  BY DEF Good, Own
<1>5. \A j \in 1 .. Len(q) : q[j].role = "recv" => j = Len(q) /\ At(c) = "away"
  BY DEF Good, LastIsLast
<1> DEFINE n == Taken(c)
           t == Tail(q)
<1>6. n \in Nat /\ Taken(c)' = n + 1 /\ inbox'[c] = t
  OBVIOUS
<1>7. \A j \in 1 .. Len(q) : MayBe(q[j], n + j, s)
  BY <1>4
<1> HIDE DEF n, q, t
<1>8. MayBe(Head(q), n + 1, s)
  BY <1>2, <1>7
<1>9. Len(t) = Len(q) - 1 /\ Len(q) \in Nat /\ Len(q) >= 1 /\ t \in Seq(Fds)
  BY <1>2 DEF t
<1>10. \A j \in 1 .. Len(q) - 1 : t[j] = q[j + 1] /\ j + 1 \in 1 .. Len(q)
  BY <1>3 DEF t
<1>11. ASSUME NEW j \in 1 .. Len(t)
       PROVE  /\ MayBe(t[j], (n + 1) + j, s)
              /\ t[j].role = "recv" => j = Len(t) /\ At(c) = "away"
  <2>1. j \in 1 .. Len(q) - 1 /\ j \in Int
    BY <1>9
  <2>2. j + 1 \in 1 .. Len(q) /\ t[j] = q[j + 1]
    BY <2>1, <1>10
  <2>3. (n + 1) + j = n + (j + 1)
    BY <2>1, <1>6
  <2>4. MayBe(q[j + 1], n + (j + 1), s)
    BY <1>7, <2>2
  <2>5. q[j + 1].role = "recv" => j + 1 = Len(q) /\ At(c) = "away"
    BY <1>5, <2>2 DEF q
  <2>6. j + 1 = Len(q) => j = Len(t)
    BY <1>9, <2>1
  <2> QED BY <2>2, <2>3, <2>4, <2>5, <2>6
<1>12. Head(q).role = "recv" => t = << >> /\ At(c) = "away"
  <2>1. Head(q).role = "recv" => 1 = Len(q) /\ At(c) = "away"
    <3>1. 1 \in 1 .. Len(q) /\ Head(q) = q[1]
      BY <1>2, <1>9
    <3>2. q[1].role = "recv" => 1 = Len(q) /\ At(c) = "away"
      BY <1>5, <3>1 DEF q
    <3> QED BY <3>1, <3>2
  <2>2. Len(q) = 1 => Len(t) = 0
    BY <1>9
  <2>3. Len(t) = 0 => t = << >>
    BY <1>9
  <2> QED BY <2>1, <2>2, <2>3
<1>13. (n + 1) + Len(t) = n + Len(q)
  BY <1>6, <1>9
<1> QED BY <1>6, <1>8, <1>11, <1>12, <1>13 DEF n, q

\* RecvIdGood: the response has been taken.
LEMMA RecvIdGood ==
  ASSUME TypeOK, NEW c \in Clients, NEW s, Good(c, s), At(c)' = At(c), RecvId(c)
  PROVE  Good(c, s)'
<1>1. /\ pc[c] = "recvId" /\ pc'[c] = "recvShm" /\ ctx'[c] = ctx[c] /\ fds'[c] = fds[c]
      /\ hello'[c] = hello[c] /\ hungup'[c] = hungup[c]
      /\ inbox[c] # << >> /\ inbox'[c] = Tail(inbox[c])
  BY DEF RecvId, Arrived, Goto, TypeOK
<1>2. Taken(c) = 0 /\ Taken(c)' = 1
  BY <1>1 DEF Taken
<1>3. /\ \A j \in 1 .. Len(inbox'[c]) : MayBe(inbox'[c][j], Taken(c)' + j, s)
      /\ \A j \in 1 .. Len(inbox'[c]) : inbox'[c][j].role = "recv" =>
           j = Len(inbox'[c]) /\ At(c) = "away"
      /\ Taken(c)' + Len(inbox'[c]) = Taken(c) + Len(inbox[c])
  <2>1. Taken(c) \in Nat /\ Taken(c)' = Taken(c) + 1
    BY <1>2
  <2> HIDE DEF Taken
  <2> QED BY <1>1, <2>1, TakeOne
<1>4. Linked(c)'
  BY <1>1 DEF Good, Linked, Idle, Waiting
<1>5. Kept(c)'
  BY <1>1 DEF Good, Kept
<1>6. ctx[c].shm = NoFd /\ ctx[c].send = NoFd /\ ctx[c].recv = NoFd
  BY <1>1 DEF Good, Kept
<1>7. Own(c, s)'
  BY <1>1, <1>3, <1>6 DEF Own
<1>8. LastIsLast(c)'
  BY <1>1, <1>3, <1>6, NothingNamed DEF LastIsLast
<1>9. Sent(c)'
  BY <1>1, <1>3 DEF Good, Sent, Waiting
<1> QED BY <1>4, <1>5, <1>7, <1>8, <1>9 DEF Good

\* EndOfFileGood: at the end of the stream recv_fd leaves its field alone.
LEMMA EndOfFileGood ==
  ASSUME TypeOK, NEW c \in Clients, NEW s, Good(c, s), At(c)' = At(c),
         NEW label \in {"recvShm", "recvSend", "recvRecv"}, NEW role,
         RecvFd(c, label, role), ~Arrived(c)
  PROVE  Good(c, s)'
<1>1. /\ pc[c] = label /\ pc'[c] = After(label) /\ ctx'[c] = ctx[c] /\ fds'[c] = fds[c]
      /\ hello'[c] = hello[c] /\ hungup'[c] = hungup[c] /\ inbox'[c] = inbox[c]
      /\ inbox[c] = << >> /\ hungup[c]
  BY DEF RecvFd, Arrived, EndOfFile, Goto, TypeOK
<1>2. At(c) = "away"
  BY <1>1 DEF Good, Linked, Waiting
<1>3. /\ label = "recvShm" => pc'[c] = "recvSend"
      /\ label = "recvSend" => pc'[c] = "recvRecv"
      /\ label = "recvRecv" => pc'[c] = "map"
  BY <1>1 DEF After
<1>4. Linked(c)'
  BY <1>1, <1>2, <1>3 DEF Good, Linked, Idle, Waiting
<1>5. Kept(c)'
  BY <1>1, <1>3 DEF Good, Kept
<1>6. Own(c, s)' /\ LastIsLast(c)'
  BY <1>1, <1>2 DEF Good, Own, LastIsLast
<1>7. Sent(c)'
  BY <1>2 DEF Sent
<1> QED BY <1>4, <1>5, <1>6, <1>7 DEF Good

\* ArrivedGood: what comes for a field is of the session of this client, and not NoFd.
LEMMA ArrivedGood ==
  ASSUME TypeOK, NEW c \in Clients, NEW s, Good(c, s), At(c)' = At(c),
         NEW label \in {"recvShm", "recvSend", "recvRecv"}, NEW role,
         \/ label = "recvShm" /\ role = "shm"
         \/ label = "recvSend" /\ role = "send"
         \/ label = "recvRecv" /\ role = "recv",
         RecvFd(c, label, role), Arrived(c)
  PROVE  Good(c, s)'
<1> DEFINE m == Head(inbox[c])
           x == ctx[c]
<1>1. /\ pc[c] = label /\ pc'[c] = After(label)
      /\ hello'[c] = hello[c] /\ hungup'[c] = hungup[c]
      /\ inbox[c] # << >> /\ inbox'[c] = Tail(inbox[c])
  BY DEF RecvFd, Arrived, Goto, TypeOK
<1>2. fds'[c] = fds[c] \cup {m}
  BY DEF RecvFd, TypeOK
<1>3. x \in Contexts
  BY DEF TypeOK, Contexts
<1>4. /\ role = "shm" => ctx'[c] = [x EXCEPT !.shm = m]
      /\ role = "send" => ctx'[c] = [x EXCEPT !.send = m]
      /\ role = "recv" => ctx'[c] = [x EXCEPT !.recv = m]
  BY DEF RecvFd, TypeOK
<1>5. /\ label = "recvShm" => Taken(c) = 1 /\ pc'[c] = "recvSend" /\ Taken(c)' = 2
      /\ label = "recvSend" => Taken(c) = 2 /\ pc'[c] = "recvRecv" /\ Taken(c)' = 3
      /\ label = "recvRecv" => Taken(c) = 3 /\ pc'[c] = "map" /\ Taken(c)' = 4
  BY <1>1 DEF Taken, After
<1>6. /\ MayBe(m, Taken(c) + 1, s)
      /\ \A j \in 1 .. Len(inbox'[c]) : MayBe(inbox'[c][j], Taken(c)' + j, s)
      /\ \A j \in 1 .. Len(inbox'[c]) : inbox'[c][j].role = "recv" =>
           j = Len(inbox'[c]) /\ At(c) = "away"
      /\ m.role = "recv" => inbox'[c] = << >> /\ At(c) = "away"
      /\ Taken(c)' + Len(inbox'[c]) = Taken(c) + Len(inbox[c])
  <2>1. Taken(c) \in Nat /\ Taken(c)' = Taken(c) + 1
    BY <1>5
  <2> QED BY <1>1, <2>1, TakeOne
<1>7. /\ role = "shm" => MayBe(m, 2, s)
      /\ role = "send" => MayBe(m, 3, s)
      /\ role = "recv" => MayBe(m, 4, s)
  BY <1>5, <1>6
<1>8. m # NoFd
  BY <1>7, Apart DEF MayBe
<1>9. role = "recv" => m.role = "recv"
  BY <1>7, Apart DEF MayBe
<1>10. /\ x.sock \in {NoFd, Sock} /\ fds[c] = Named(x)
       /\ label = "recvShm" => x.shm = NoFd /\ x.send = NoFd /\ x.recv = NoFd
       /\ label = "recvSend" => x.send = NoFd /\ x.recv = NoFd
       /\ label = "recvRecv" => x.recv = NoFd
  BY <1>1 DEF Good, Kept
<1> HIDE DEF m, x
<1>11. /\ ctx'[c].sock = x.sock
       /\ role = "shm" => ctx'[c].shm = m /\ ctx'[c].send = NoFd /\ ctx'[c].recv = NoFd
       /\ role = "send" => ctx'[c].shm = x.shm /\ ctx'[c].send = m /\ ctx'[c].recv = NoFd
       /\ role = "recv" => ctx'[c].shm = x.shm /\ ctx'[c].send = x.send /\ ctx'[c].recv = m
  BY <1>3, <1>4, <1>10 DEF Contexts
<1>12. Linked(c)'
  <2>1. /\ ~hello[c] /\ At(c) \notin {"queued", "meta"} /\ (hungup[c] <=> At(c) = "away")
    BY <1>1 DEF Good, Linked, Waiting
  <2>2. label = "recvRecv" => At(c) = "away"
    BY <1>6, <1>9
  <2> QED BY <1>1, <1>5, <2>1, <2>2 DEF Linked, Idle, Waiting
<1>13. Kept(c)'
  <2>1. Named(ctx'[c]) = fds'[c]
    BY <1>2, <1>8, <1>10, <1>11 DEF Named
  <2> QED BY <2>1, <1>5, <1>10, <1>11 DEF Kept
<1>14. Own(c, s)'
  <2>1. /\ x.shm = NoFd \/ MayBe(x.shm, 2, s)
        /\ x.send = NoFd \/ MayBe(x.send, 3, s)
    BY DEF Good, Own, x
  <2> QED BY <2>1, <1>6, <1>7, <1>11 DEF Own
<1>15. LastIsLast(c)'
  <2>1. role = "recv" => x.send.role # "recv"
    BY <1>1 DEF Good, LastIsLast, x
  <2>2. ctx'[c].send.role = "recv" => role = "send"
    BY <2>1, <1>11, NothingNamed
  <2>3. ctx'[c].send.role = "recv" =>
          inbox'[c] = << >> /\ At(c) = "away" /\ ctx'[c].recv = NoFd
    BY <2>2, <1>6, <1>11
  <2> QED BY <2>3, <1>6 DEF LastIsLast
<1>16. Sent(c)'
  <2>1. pc[c] \in Waiting
    BY <1>1 DEF Waiting
  <2> QED BY <2>1, <1>6 DEF Good, Sent
<1> QED BY <1>12, <1>13, <1>14, <1>15, <1>16 DEF Good

\* NoFdGood: a message whose descriptor did not come is taken all the same, so that what
\* is still to come is in its place.
LEMMA NoFdGood ==
  ASSUME TypeOK, NEW c \in Clients, NEW s, Good(c, s), At(c)' = At(c),
         NEW label \in {"recvShm", "recvSend", "recvRecv"}, RecvNoFd(c, label)
  PROVE  Good(c, s)'
<1>1. /\ pc[c] = label /\ pc'[c] = After(label) /\ ctx'[c] = ctx[c] /\ fds'[c] = fds[c]
      /\ hello'[c] = hello[c] /\ hungup'[c] = hungup[c]
      /\ inbox[c] # << >> /\ inbox'[c] = Tail(inbox[c])
  BY DEF RecvNoFd, Arrived, Goto, TypeOK
<1>2. /\ label = "recvShm" => Taken(c) = 1 /\ pc'[c] = "recvSend" /\ Taken(c)' = 2
      /\ label = "recvSend" => Taken(c) = 2 /\ pc'[c] = "recvRecv" /\ Taken(c)' = 3
      /\ label = "recvRecv" => Taken(c) = 3 /\ pc'[c] = "map" /\ Taken(c)' = 4
  BY <1>1 DEF Taken, After
<1>3. /\ MayBe(Head(inbox[c]), Taken(c) + 1, s)
      /\ \A j \in 1 .. Len(inbox'[c]) : MayBe(inbox'[c][j], Taken(c)' + j, s)
      /\ \A j \in 1 .. Len(inbox'[c]) : inbox'[c][j].role = "recv" =>
           j = Len(inbox'[c]) /\ At(c) = "away"
      /\ Head(inbox[c]).role = "recv" => inbox'[c] = << >> /\ At(c) = "away"
      /\ Taken(c)' + Len(inbox'[c]) = Taken(c) + Len(inbox[c])
  <2>1. Taken(c) \in Nat /\ Taken(c)' = Taken(c) + 1
    BY <1>2
  <2> QED BY <1>1, <2>1, TakeOne
<1>4. Linked(c)'
  <2>1. /\ ~hello[c] /\ At(c) \notin {"queued", "meta"} /\ (hungup[c] <=> At(c) = "away")
    BY <1>1 DEF Good, Linked, Waiting
  <2>2. label = "recvRecv" => MayBe(Head(inbox[c]), 4, s)
    BY <1>2, <1>3
  <2>3. label = "recvRecv" => Head(inbox[c]).role = "recv"
    BY <2>2, Apart DEF MayBe
  <2>4. label = "recvRecv" => At(c) = "away"
    BY <1>3, <2>3
  <2> QED BY <1>1, <1>2, <2>1, <2>4 DEF Linked, Idle, Waiting
<1>5. Kept(c)'
  BY <1>1, <1>2 DEF Good, Kept
<1>6. Own(c, s)'
  <2>1. /\ ctx[c].shm = NoFd \/ MayBe(ctx[c].shm, 2, s)
        /\ ctx[c].send = NoFd \/ MayBe(ctx[c].send, 3, s)
        /\ ctx[c].recv = NoFd \/ MayBe(ctx[c].recv, 4, s)
    BY DEF Good, Own
  <2> QED BY <1>1, <1>3, <2>1 DEF Own
<1>7. LastIsLast(c)'
  <2>1. ctx[c].send.role # "recv"
    BY <1>1 DEF Good, LastIsLast
  <2> QED BY <1>1, <1>3, <2>1 DEF LastIsLast
<1>8. Sent(c)'
  <2>1. pc[c] \in Waiting
    BY <1>1 DEF Waiting
  <2> QED BY <2>1, <1>3 DEF Good, Sent
<1> QED BY <1>4, <1>5, <1>6, <1>7, <1>8 DEF Good

\* ConnectStepGood: the other steps of dsp_accel_sdk_connect.
LEMMA ConnectStepGood ==
  ASSUME TypeOK, NEW c \in Clients, NEW s, Good(c, s), At(c)' = At(c),
         ConnectStep(c), ~Connect(c)
  PROVE  Good(c, s)'
<1>1. CASE ConnectRefused(c)
  BY <1>1, RefusedGood
<1>2. CASE SendMeta(c)
  BY <1>2, SendMetaGood
<1>3. CASE SendMetaFails(c)
  <2>1. At(c) = "away"
    BY <1>3 DEF SendMetaFails, Good, Linked, Waiting
  <2> QED BY <1>3, <2>1, CleanUpGood, DiesGood DEF SendMetaFails
<1>4. CASE RecvId(c)
  BY <1>4, RecvIdGood
<1>5. CASE RecvIdFails(c)
  <2>1. At(c) = "away"
    BY <1>5 DEF RecvIdFails, EndOfFile, Good, Linked, Waiting
  <2> QED BY <1>5, <2>1, CleanUpGood DEF RecvIdFails
<1>6. CASE \/ RecvFd(c, "recvShm", "shm") \/ RecvFd(c, "recvSend", "send")
           \/ RecvFd(c, "recvRecv", "recv")
  BY <1>6, EndOfFileGood, ArrivedGood
<1>7. CASE MapSession(c)
  <2>1. At(c) = "away"
    BY <1>7 DEF MapSession, Good, Linked
  <2>2. CASE ctx[c].shm.role = "empty"
    BY <1>7, <2>2, DiesGood DEF MapSession
  <2>3. CASE ctx[c].shm.role # "empty"
    <3>1. /\ pc[c] = "map" /\ pc'[c] = "hardware" /\ ctx'[c] = ctx[c] /\ fds'[c] = fds[c]
          /\ hello'[c] = FALSE /\ hungup'[c] = FALSE /\ inbox'[c] = << >>
      BY <1>7, <2>3 DEF MapSession, Disconnected, Goto, TypeOK
    <3>2. Linked(c)'
      BY <2>1, <3>1 DEF Linked, Idle, Waiting
    <3>3. Kept(c)'
      BY <3>1 DEF Good, Kept
    <3>4. Own(c, s)' /\ LastIsLast(c)'
      BY <2>1, <3>1 DEF Good, Own, LastIsLast
    <3>5. Sent(c)'
      BY <3>1 DEF Sent, Waiting
    <3> QED BY <3>2, <3>3, <3>4, <3>5 DEF Good
  <2> QED BY <2>2, <2>3
<1>8. ASSUME NEW mapped \in BOOLEAN, MapFails(c, mapped) PROVE Good(c, s)'
  <2>1. At(c) = "away"
    BY <1>8 DEF MapFails, Good, Linked
  <2> QED BY <1>8, <2>1, CleanUpGood DEF MapFails
<1>9. CASE \E label \in {"recvShm", "recvSend", "recvRecv"} : RecvNoFd(c, label)
  BY <1>9, NoFdGood
<1> QED BY <1>1, <1>2, <1>3, <1>4, <1>5, <1>6, <1>7, <1>8, <1>9 DEF ConnectStep

\* Untouched: a step of one plugin changes nothing of another.
LEMMA Untouched ==
  ASSUME TypeOK, NEW c \in Clients, NEW e \in Clients, c # e,
         ConnectStep(c) \/ HostStep(c)
  PROVE  /\ pc'[e] = pc[e] /\ ctx'[e] = ctx[e] /\ fds'[e] = fds[e]
         /\ hello'[e] = hello[e] /\ inbox'[e] = inbox[e] /\ hungup'[e] = hungup[e]
<1> USE DEF Goto, TypeOK
<1>1. CASE \/ CreatePlugin(c) \/ ConnectRefused(c) \/ Connect(c) \/ SendMeta(c) \/ RecvId(c)
  BY <1>1 DEF CreatePlugin, ConnectRefused, Connect, SendMeta, RecvId, linkVars
<1>2. ASSUME NEW ok \in BOOLEAN, PluginActivate(c, ok)
      PROVE  /\ pc'[e] = pc[e] /\ ctx'[e] = ctx[e] /\ fds'[e] = fds[e]
             /\ hello'[e] = hello[e] /\ inbox'[e] = inbox[e] /\ hungup'[e] = hungup[e]
  BY <1>2 DEF PluginActivate, linkVars
<1>3. CASE CleanUp(c)
  BY <1>3 DEF CleanUp, CloseAll, Disconnected
<1>4. CASE Dies(c)
  BY <1>4 DEF Dies
<1>5. CASE \/ RecvFd(c, "recvShm", "shm") \/ RecvFd(c, "recvSend", "send")
           \/ RecvFd(c, "recvRecv", "recv")
  BY <1>5 DEF RecvFd
<1>6. CASE MapSession(c)
  BY <1>4, <1>6 DEF MapSession, Disconnected
<1>7. CASE PluginDeactivate(c) \/ PluginDestroy(c)
  BY <1>7 DEF PluginDeactivate, PluginDestroy, CloseAll, linkVars
<1>8. CASE \E label \in {"recvShm", "recvSend", "recvRecv"} : RecvNoFd(c, label)
  BY <1>8 DEF RecvNoFd
<1> HIDE DEF Goto, TypeOK
<1> QED
  BY <1>1, <1>2, <1>3, <1>4, <1>5, <1>6, <1>7, <1>8
     DEF ConnectStep, HostStep, SendMetaFails, RecvIdFails, MapFails, ClientKilled

\* DaemonUntouched: the daemon only finds one more in the backlog.
LEMMA DaemonUntouched ==
  ASSUME TypeOK, NEW c \in Clients, ConnectStep(c) \/ HostStep(c)
  PROVE  /\ daemon' = daemon /\ serving' = serving /\ made' = made
         /\ ~Connect(c) => backlog' = backlog
BY DEF ConnectStep, HostStep, Connect, CreatePlugin, PluginActivate, ConnectRefused,
       SendMeta, SendMetaFails, RecvId, RecvIdFails, RecvFd, RecvNoFd, MapSession, MapFails,
       PluginDeactivate, PluginDestroy, ClientKilled, daemonVars, linkVars

\* ContainsAppend: the backlog with one more.
LEMMA ContainsAppend ==
  ASSUME NEW q \in Seq(Clients), NEW c \in Clients, NEW e
  PROVE  Contains(Append(q, c), e) <=> (Contains(q, e) \/ e = c)
<1>1. /\ Len(Append(q, c)) = Len(q) + 1 /\ Len(q) \in Nat
      /\ \A i \in 1 .. Len(q) : Append(q, c)[i] = q[i]
      /\ Append(q, c)[Len(q) + 1] = c
  OBVIOUS
<1> DEFINE r == Append(q, c)
<1>2. /\ Len(r) = Len(q) + 1 /\ Len(q) \in Nat
      /\ \A i \in 1 .. Len(q) : r[i] = q[i]
      /\ r[Len(q) + 1] = c
  BY <1>1
<1> HIDE DEF r
<1>3. ASSUME Contains(q, e) PROVE Contains(r, e)
  BY <1>2, <1>3 DEF Contains
<1>4. Contains(r, c)
  BY <1>2 DEF Contains
<1>5. ASSUME Contains(r, e), e # c PROVE Contains(q, e)
  <2>1. PICK i \in 1 .. Len(r) : r[i] = e
    BY <1>5 DEF Contains
  <2>2. i # Len(q) + 1
    BY <1>2, <1>5, <2>1
  <2>3. i \in 1 .. Len(q)
    BY <1>2, <2>1, <2>2
  <2> QED BY <1>2, <2>1, <2>3 DEF Contains
<1> QED BY <1>3, <1>4, <1>5 DEF r

\* DistinctAppend: a client that is not in the backlog joins it.
LEMMA DistinctAppend ==
  ASSUME NEW q \in Seq(Clients), NEW c \in Clients, Distinct(q), ~Contains(q, c)
  PROVE  Distinct(Append(q, c))
<1> DEFINE r == Append(q, c)
<1>1. /\ Len(r) = Len(q) + 1 /\ Len(q) \in Nat
      /\ \A i \in 1 .. Len(q) : r[i] = q[i]
      /\ r[Len(q) + 1] = c
  OBVIOUS
<1> HIDE DEF r
<1>2. SUFFICES ASSUME NEW i \in 1 .. Len(r), NEW j \in 1 .. Len(r), r[i] = r[j]
               PROVE  i = j
  BY DEF Distinct, r
<1>3. CASE i \in 1 .. Len(q) /\ j \in 1 .. Len(q)
  BY <1>1, <1>2, <1>3 DEF Distinct
<1>4. CASE i \in 1 .. Len(q) /\ j = Len(q) + 1
  BY <1>1, <1>2, <1>4 DEF Contains
<1>5. CASE i = Len(q) + 1 /\ j \in 1 .. Len(q)
  BY <1>1, <1>2, <1>5 DEF Contains
<1> QED BY <1>1, <1>3, <1>4, <1>5

\* ClientGhost: a step of a plugin leaves every session with its owner.
LEMMA ClientGhost ==
  ASSUME Base, OneEach, NEW ses \in [Clients -> Nat], Ghost(ses), NEW c \in Clients,
         ConnectStep(c) \/ HostStep(c)
  PROVE  OneEach' /\ Ghost(ses)'
<1>1. TypeOK /\ c # NoClient /\ Good(c, ses[c])
  BY HandshakeAssumption DEF Base, Ghost
<1>2. daemon' = daemon /\ serving' = serving /\ made' = made
  BY <1>1, DaemonUntouched
<1>3. Given(ses)'
  BY <1>2 DEF Ghost, Given
<1>4. ASSUME NEW e \in Clients, e # c, At(e)' = At(e) PROVE Good(e, ses[e])'
  BY <1>1, <1>4, Untouched, Same DEF Ghost
<1>5. CASE Connect(c)
  <2>1. backlog' = Append(backlog, c) /\ backlog \in Seq(Clients) /\ pc[c] = "connect"
    BY <1>1, <1>5 DEF Connect, TypeOK
  <2>2. At(c) = "away"
    BY <1>1, <2>1 DEF Good, Linked, Idle
  <2>3. ~Contains(backlog, c) /\ serving # c
    <3>1. daemon # "away"
      BY <1>1 DEF TypeOK
    <3> QED BY <2>2, <3>1 DEF At
  <2>4. OneEach'
    <3>1. Distinct(backlog)'
      BY <2>1, <2>3, DistinctAppend DEF OneEach, Distinct
    <3>2. ~Contains(backlog, serving)'
      BY <1>2, <2>1, <2>3, ContainsAppend DEF OneEach
    <3> QED BY <3>1, <3>2 DEF OneEach
  <2>5. \A e \in Clients : Contains(backlog', e) <=> (Contains(backlog, e) \/ e = c)
    BY <2>1, ContainsAppend
  <2>6. At(c)' = "queued"
    BY <1>2, <2>3, <2>5 DEF At
  <2>7. \A e \in Clients : e # c => At(e)' = At(e)
    BY <1>2, <2>5 DEF At
  <2>8. Good(c, ses[c])'
    BY <1>1, <1>5, <2>6, ConnectGood
  <2> QED BY <1>3, <1>4, <2>4, <2>7, <2>8 DEF Ghost
<1>6. CASE ~Connect(c)
  <2>1. backlog' = backlog
    BY <1>1, <1>6, DaemonUntouched
  <2>2. \A e \in Clients : At(e)' = At(e)
    BY <1>2, <2>1 DEF At
  <2>3. OneEach'
    BY <1>2, <2>1 DEF OneEach, Distinct
  <2>4. Good(c, ses[c])'
    BY <1>1, <1>6, <2>2, ConnectStepGood, HostGood
  <2> QED BY <1>3, <1>4, <2>2, <2>3, <2>4 DEF Ghost
<1> QED BY <1>5, <1>6

-----------------------------------------------------------------------------
(* Connections and sessions: the daemon's steps. *)

\* NoBacklogOfNone: NoClient is in no backlog.
LEMMA NoBacklogOfNone ==
  ASSUME Base
  PROVE  ~Contains(backlog, NoClient)
<1>1. backlog \in Seq(Clients)
  BY DEF Base, TypeOK
<1>2. \A i \in 1 .. Len(backlog) : backlog[i] \in Clients
  BY <1>1
<1> QED BY <1>2, HandshakeAssumption DEF Contains

\* DaemonDiesGood: who was connected is hung up on.
LEMMA DaemonDiesGood ==
  ASSUME Base, NEW ses \in [Clients -> Nat], Ghost(ses), DaemonDies, made' \in Nat, made' >= made,
         UNCHANGED <<clientVars, hello, inbox>>
  PROVE  OneEach' /\ Ghost(ses)'
<1>1. daemon' = "down" /\ serving' = NoClient /\ backlog' = << >>
  BY DEF DaemonDies
<1>2. \A e \in Clients : ~Contains(backlog', e)
  BY <1>1 DEF Contains
<1>3. OneEach'
  BY <1>1 DEF OneEach, Distinct, Contains
<1>4. made \in Nat
  BY DEF Base, TypeOK
<1>5. Given(ses)'
  <2>1. \A c \in Clients : ses[c] <= made
    BY DEF Ghost, Given
  <2>2. \A c \in Clients : ses[c] <= made'
    BY <2>1, <1>4
  <2> QED BY <2>2, <1>1 DEF Ghost, Given, Sending
<1>6. ASSUME NEW e \in Clients PROVE Good(e, ses[e])'
  <2>1. At(e)' = "away"
    BY <1>1, <1>2, HandshakeAssumption DEF At
  <2>2. /\ pc'[e] = pc[e] /\ ctx'[e] = ctx[e] /\ fds'[e] = fds[e]
        /\ hello'[e] = hello[e] /\ inbox'[e] = inbox[e]
    BY DEF clientVars
  <2>3. hungup'[e] = (hungup[e] \/ ((e = serving \/ Contains(backlog, e)) /\ pc[e] # "crashed"))
    BY DEF DaemonDies
  <2>4. (e = serving \/ Contains(backlog, e)) <=> At(e) # "away"
    BY DEF At, Base, TypeOK
  <2>5. Good(e, ses[e])
    BY DEF Ghost
  <2>6. Linked(e)'
    BY <2>1, <2>2, <2>3, <2>4, <2>5 DEF Good, Linked, Idle, Waiting
  <2>7. Kept(e)'
    BY <2>2, <2>5 DEF Good, Kept
  <2>8. Taken(e)' = Taken(e)
    BY <2>2 DEF Taken
  <2>9. Own(e, ses[e])'
    BY <2>2, <2>5, <2>8 DEF Good, Own
  <2>10. LastIsLast(e)' /\ Sent(e)'
    BY <2>1, <2>2, <2>5 DEF Good, LastIsLast, Sent
  <2> QED BY <2>6, <2>7, <2>9, <2>10 DEF Good
<1> QED BY <1>3, <1>5, <1>6 DEF Ghost

\* Others: a step about one connection leaves the others where they are.
LEMMA Others ==
  ASSUME Base, NEW ses \in [Clients -> Nat], Ghost(ses), serving \in Clients, NEW e \in Clients, e # serving,
         serving' = serving \/ serving' = NoClient, backlog' = backlog,
         UNCHANGED clientVars, hello'[e] = hello[e], inbox'[e] = inbox[e],
         hungup'[e] = hungup[e]
  PROVE  Good(e, ses[e])'
<1>1. At(e)' = At(e)
  BY HandshakeAssumption DEF At
<1>2. pc'[e] = pc[e] /\ ctx'[e] = ctx[e] /\ fds'[e] = fds[e]
  BY DEF clientVars
<1>3. Good(e, ses[e])
  BY DEF Ghost
<1> QED BY <1>1, <1>2, <1>3, Same

\* ServedState: what is known of the client being served.
LEMMA ServedState ==
  ASSUME Base, NEW ses \in [Clients -> Nat], Ghost(ses), daemon \in Serving
  PROVE  /\ serving \in Clients /\ At(serving) = daemon /\ Good(serving, ses[serving])
         /\ At(serving) # "away"
         /\ pc[serving] \in Waiting \/ pc[serving] = "crashed"
         /\ pc[serving] = "crashed" =>
              /\ ctx[serving] = NoCtx /\ fds[serving] = {} /\ inbox[serving] = << >>
              /\ ~hungup[serving]
<1>1. serving \in Clients
  BY ClientServed
<1>2. At(serving) = daemon /\ Good(serving, ses[serving])
  BY <1>1 DEF At, Ghost
<1>3. At(serving) # "away"
  BY <1>2 DEF Serving, Sending
<1>4. pc[serving] \in Waiting \/ pc[serving] = "crashed"
  BY <1>1, <1>2, <1>3 DEF Good, Linked, Idle, Waiting, Base, TypeOK
<1>5. pc[serving] = "crashed" => /\ ctx[serving] = NoCtx /\ fds[serving] = {}
                                 /\ inbox[serving] = << >> /\ ~hungup[serving]
  BY <1>2, NothingNamed DEF Good, Kept, Linked
<1> QED BY <1>1, <1>2, <1>3, <1>4, <1>5

\* CloseClientGood: a connection is closed on the way back to the top of the loop.
LEMMA CloseClientGood ==
  ASSUME Base, OneEach, NEW ses \in [Clients -> Nat], Ghost(ses), daemon \in Serving, CloseClient,
         UNCHANGED <<made, clientVars, backlog, hello, inbox>>
  PROVE  OneEach' /\ Ghost(ses)'
<1>0. PICK c \in Clients : c = serving
  BY ServedState
<1>1. /\ Good(c, ses[c]) /\ (pc[c] \in Waiting \/ pc[c] = "crashed") /\ At(c) # "away"
  BY <1>0, ServedState
<1>2. daemon' = "top" /\ serving' = NoClient
  BY DEF CloseClient
<1>3. \A e \in Clients : e # c => hungup'[e] = hungup[e]
  BY <1>0 DEF CloseClient, Base, TypeOK
<1>4. hungup'[c] = (pc[c] # "crashed")
  BY <1>0 DEF CloseClient, Base, TypeOK
<1>5. /\ pc'[c] = pc[c] /\ ctx'[c] = ctx[c] /\ fds'[c] = fds[c]
      /\ hello'[c] = hello[c] /\ inbox'[c] = inbox[c]
  BY DEF clientVars
<1>6. OneEach'
  BY <1>2, NoBacklogOfNone DEF OneEach, Distinct
<1>7. Given(ses)'
  BY <1>2 DEF Ghost, Given, Sending
<1>8. ASSUME NEW e \in Clients, e # c PROVE Good(e, ses[e])'
  BY <1>0, <1>2, <1>3, <1>8, Others
<1>9. Good(c, ses[c])'
  <2>1. ~Contains(backlog, c) /\ c # NoClient
    BY <1>0, HandshakeAssumption DEF OneEach
  <2>2. At(c)' = "away"
    BY <1>2, <2>1 DEF At
  <2>3. Linked(c)'
    BY <1>1, <1>4, <1>5, <2>2 DEF Good, Linked, Idle, Waiting
  <2>4. Kept(c)'
    BY <1>1, <1>5 DEF Good, Kept
  <2>5. Taken(c)' = Taken(c)
    BY <1>5 DEF Taken
  <2>6. Own(c, ses[c])'
    BY <1>1, <1>5, <2>5 DEF Good, Own
  <2>7. LastIsLast(c)' /\ Sent(c)'
    BY <1>1, <1>5, <2>2 DEF Good, LastIsLast, Sent
  <2> QED BY <2>3, <2>4, <2>6, <2>7 DEF Good
<1> QED BY <1>6, <1>7, <1>8, <1>9 DEF Ghost

\* AppendOne: a stream with one more message.
LEMMA AppendOne ==
  ASSUME NEW q \in Seq(Fds), NEW m \in Fds, NEW n \in Nat, NEW s,
         \A j \in 1 .. Len(q) : MayBe(q[j], n + j, s), MayBe(m, n + Len(q) + 1, s),
         \A j \in 1 .. Len(q) : q[j].role # "recv"
  PROVE  LET r == Append(q, m)
         IN  /\ Len(r) = Len(q) + 1
             /\ \A j \in 1 .. Len(r) : MayBe(r[j], n + j, s)
             /\ \A j \in 1 .. Len(r) : r[j].role = "recv" => j = Len(r) /\ m.role = "recv"
<1> DEFINE r == Append(q, m)
<1>1. /\ Len(r) = Len(q) + 1 /\ Len(q) \in Nat
      /\ \A j \in 1 .. Len(q) : r[j] = q[j]
      /\ r[Len(q) + 1] = m
  OBVIOUS
<1> HIDE DEF r
<1>2. ASSUME NEW j \in 1 .. Len(r)
      PROVE  /\ MayBe(r[j], n + j, s)
             /\ r[j].role = "recv" => j = Len(r) /\ m.role = "recv"
  <2>1. CASE j \in 1 .. Len(q)
    <3>1. r[j] = q[j]
      BY <1>1, <2>1
    <3>2. MayBe(q[j], n + j, s) /\ q[j].role # "recv"
      BY <2>1
    <3> QED BY <3>1, <3>2
  <2>2. CASE j = Len(q) + 1
    <3>1. r[j] = m /\ n + j = n + Len(q) + 1 /\ j = Len(r)
      BY <1>1, <2>2
    <3> QED BY <3>1
  <2> QED BY <1>1, <2>1, <2>2
<1> QED BY <1>1, <1>2 DEF r

\* SentGood: the client being served, with what has just been sent to it.
LEMMA SentGood ==
  ASSUME TypeOK, NEW c \in Clients, NEW s, Good(c, s), pc[c] \in Waiting,
         At(c) \in Sending, UNCHANGED <<clientVars, hello>>, NEW m \in Fds,
         NEW k \in Nat, Taken(c) + Len(inbox[c]) + 1 = k,
         \/ m = NoFd /\ inbox'[c] = inbox[c]
         \/ m # NoFd /\ MayBe(m, k, s) /\ inbox'[c] = Append(inbox[c], m),
         m.role = "recv" => At(c)' = "away",
         hungup'[c] <=> At(c)' = "away", At(c)' \notin {"queued", "meta", "create", "reply"},
         At(c)' = "sendShm" => m # NoFd /\ k = 1,
         At(c)' = "sendSend" => m # NoFd /\ k = 2,
         At(c)' = "sendRecv" => k = 3
  PROVE  Good(c, s)'
<1>1. /\ pc'[c] = pc[c] /\ ctx'[c] = ctx[c] /\ fds'[c] = fds[c] /\ hello'[c] = hello[c]
  BY DEF clientVars
<1>2. pc[c] # "send" /\ ~hello[c] /\ At(c) # "away"
  BY DEF Good, Linked, Sending
<1>3. Linked(c)'
  BY <1>1, <1>2 DEF Linked, Idle, Waiting
<1>4. Kept(c)'
  BY <1>1 DEF Good, Kept
<1>5. Taken(c)' = Taken(c) /\ Taken(c) \in Nat
  BY <1>1 DEF Taken
<1>6. /\ inbox[c] \in Seq(Fds)
      /\ \A j \in 1 .. Len(inbox[c]) : inbox[c][j].role # "recv"
      /\ \A j \in 1 .. Len(inbox[c]) : MayBe(inbox[c][j], Taken(c) + j, s)
      /\ ctx[c].send.role # "recv"
  BY <1>2 DEF Good, LastIsLast, Own, TypeOK
<1>7. /\ Len(inbox'[c]) = Len(inbox[c]) + (IF m = NoFd THEN 0 ELSE 1)
      /\ \A j \in 1 .. Len(inbox'[c]) : MayBe(inbox'[c][j], Taken(c) + j, s)
      /\ \A j \in 1 .. Len(inbox'[c]) : inbox'[c][j].role = "recv" =>
           j = Len(inbox'[c]) /\ m.role = "recv"
  <2>1. CASE m = NoFd /\ inbox'[c] = inbox[c]
    <3>1. Len(inbox[c]) \in Nat
      BY <1>6
    <3> QED BY <1>6, <2>1, <3>1
  <2>2. CASE m # NoFd /\ MayBe(m, k, s) /\ inbox'[c] = Append(inbox[c], m)
    <3> DEFINE q == inbox[c]
               n == Taken(c)
    <3>1. /\ q \in Seq(Fds) /\ n \in Nat /\ MayBe(m, n + Len(q) + 1, s)
          /\ \A j \in 1 .. Len(q) : q[j].role # "recv"
          /\ \A j \in 1 .. Len(q) : MayBe(q[j], n + j, s)
      BY <1>5, <1>6, <2>2
    <3> HIDE DEF q, n
    <3>2. /\ Len(Append(q, m)) = Len(q) + 1
          /\ \A j \in 1 .. Len(Append(q, m)) : MayBe(Append(q, m)[j], n + j, s)
          /\ \A j \in 1 .. Len(Append(q, m)) : Append(q, m)[j].role = "recv" =>
               j = Len(Append(q, m)) /\ m.role = "recv"
      BY <3>1, AppendOne
    <3>3. inbox'[c] = Append(q, m)
      BY <2>2 DEF q
    <3>4. /\ Len(inbox'[c]) = Len(q) + 1
          /\ \A j \in 1 .. Len(inbox'[c]) : MayBe(inbox'[c][j], n + j, s)
          /\ \A j \in 1 .. Len(inbox'[c]) : inbox'[c][j].role = "recv" =>
               j = Len(inbox'[c]) /\ m.role = "recv"
      BY <3>2, <3>3
    <3> QED BY <2>2, <3>4 DEF q, n
  <2> QED BY <2>1, <2>2
<1>8. Own(c, s)'
  BY <1>1, <1>5, <1>7 DEF Good, Own
<1>9. LastIsLast(c)'
  BY <1>1, <1>6, <1>7 DEF LastIsLast
<1>10. Sent(c)'
  <2>1. Len(inbox[c]) \in Nat
    BY <1>6
  <2>2. /\ At(c)' = "sendShm" => Taken(c) + Len(inbox'[c]) = 1
        /\ At(c)' = "sendSend" => Taken(c) + Len(inbox'[c]) = 2
        /\ At(c)' = "sendRecv" => Taken(c) + Len(inbox'[c]) \in {2, 3}
    <3> DEFINE l == Len(inbox[c])
               k2 == Len(inbox'[c])
               n == Taken(c)
    <3>1. l \in Nat /\ n \in Nat /\ n + l + 1 = k
      BY <1>5, <2>1
    <3>2. k2 = l \/ k2 = l + 1
      BY <1>7
    <3>3. m # NoFd => k2 = l + 1
      BY <1>7
    <3> HIDE DEF l, k2, n
    <3>4. n + k2 = k - 1 \/ n + k2 = k
      BY <3>1, <3>2
    <3>5. m # NoFd => n + k2 = k
      BY <3>1, <3>3
    <3> QED BY <3>4, <3>5 DEF k2, n
  <2>3. At(c)' # "create" /\ At(c)' # "reply"
    OBVIOUS
  <2> QED BY <1>5, <2>2, <2>3 DEF Sent
<1> QED BY <1>3, <1>4, <1>8, <1>9, <1>10 DEF Good

\* Delivered: what each call sends, as far as it sends anything.
LEMMA Delivered ==
  ASSUME Base, NEW ses \in [Clients -> Nat], Ghost(ses), NEW label \in Sending,
         daemon = label, NEW c \in Clients, c = serving, Deliver(Sends[label])
  PROVE  \E m \in Fds :
           /\ m = Sends[label]
           /\ label = "reply" => MayBe(m, 1, ses[c]) /\ m.role = "id"
           /\ label = "sendShm" => MayBe(m, 2, ses[c]) /\ m.role # "recv"
           /\ label = "sendSend" => m = NoFd \/ (MayBe(m, 3, ses[c]) /\ m.role = "send")
           /\ label = "sendRecv" => m = NoFd \/ (MayBe(m, 3, ses[c]) /\ MayBe(m, 4, ses[c]))
           /\ \/ m = NoFd /\ inbox'[c] = inbox[c]
              \/ m # NoFd /\ inbox'[c] = Append(inbox[c], m)
           /\ \A e \in Clients : e # c => inbox'[e] = inbox[e]
<1>1. /\ made >= 1 /\ made \in Nat
      /\ current.shm \in {Fd("shm", made), Fd("empty", made)}
      /\ current.send \in {NoFd, Fd("send", made)}
      /\ current.recv \in {NoFd, Fd("recv", made)}
  BY DEF Base, Handed, TypeOK
<1>2. ses[c] = made /\ ses[c] > 0
  BY <1>1 DEF Ghost, Given
<1>3. PICK m : m = Sends[label]
  OBVIOUS
<1>4. /\ label = "reply" => m = WorkerId
      /\ label = "sendShm" => m \in {Fd("shm", made), Fd("empty", made)}
      /\ label = "sendSend" => m \in {NoFd, Fd("send", made)}
      /\ label = "sendRecv" => m \in {NoFd, Fd("recv", made)}
  BY <1>1, <1>3 DEF Sends
<1>5. m \in Fds
  BY <1>1, <1>4, FdType DEF Sending, Roles
<1>6. /\ label = "reply" => MayBe(m, 1, ses[c]) /\ m.role = "id"
      /\ label = "sendShm" => MayBe(m, 2, ses[c]) /\ m.role # "recv"
      /\ label = "sendSend" => m = NoFd \/ (MayBe(m, 3, ses[c]) /\ m.role = "send")
      /\ label = "sendRecv" => m = NoFd \/ (MayBe(m, 3, ses[c]) /\ MayBe(m, 4, ses[c]))
  BY <1>2, <1>4, Apart DEF MayBe, WorkerId
<1>7. inbox' = IF m = NoFd THEN inbox ELSE [inbox EXCEPT ![c] = Append(@, m)]
  BY <1>3 DEF Deliver
<1>8. inbox \in [Clients -> Seq(Fds)]
  BY DEF Base, TypeOK
<1>9. /\ \/ m = NoFd /\ inbox'[c] = inbox[c]
         \/ m # NoFd /\ inbox'[c] = Append(inbox[c], m)
      /\ \A e \in Clients : e # c => inbox'[e] = inbox[e]
  BY <1>7, <1>8
<1> QED BY <1>3, <1>5, <1>6, <1>9

\* SendGood: the response and the first two descriptors.
LEMMA SendGood ==
  ASSUME Base, OneEach, NEW ses \in [Clients -> Nat], Ghost(ses),
         NEW label \in {"reply", "sendShm", "sendSend"}, Send(label)
  PROVE  OneEach' /\ Ghost(ses)'
<1>1. /\ daemon = label /\ label \in Sending /\ pc[serving] # "crashed"
      /\ Deliver(Sends[label]) /\ daemon \in Serving
      /\ UNCHANGED <<stopping, starts, serving, open, made, current, clientVars,
                     backlog, hello, hungup>>
  BY DEF Send, Sending, Serving
<1>2. /\ label = "reply" => daemon' = "sendShm"
      /\ label = "sendShm" => daemon' = "sendSend"
      /\ label = "sendSend" => daemon' = "sendRecv"
  BY DEF Send, Following
<1>3. PICK c \in Clients : c = serving
  BY <1>1, ServedState
<1>4. /\ At(c) = daemon /\ Good(c, ses[c]) /\ pc[c] \in Waiting /\ TypeOK
  BY <1>1, <1>3, ServedState DEF Base
<1>5. PICK m \in Fds :
           /\ label = "reply" => MayBe(m, 1, ses[c]) /\ m.role = "id"
           /\ label = "sendShm" => MayBe(m, 2, ses[c]) /\ m.role # "recv"
           /\ label = "sendSend" => m = NoFd \/ (MayBe(m, 3, ses[c]) /\ m.role = "send")
           /\ \/ m = NoFd /\ inbox'[c] = inbox[c]
              \/ m # NoFd /\ inbox'[c] = Append(inbox[c], m)
           /\ \A e \in Clients : e # c => inbox'[e] = inbox[e]
  BY <1>1, <1>3, Delivered
<1>6. At(c)' = daemon'
  BY <1>1, <1>3 DEF At
<1>7. /\ label = "reply" => Taken(c) + Len(inbox[c]) = 0
      /\ label = "sendShm" => Taken(c) + Len(inbox[c]) = 1
      /\ label = "sendSend" => Taken(c) + Len(inbox[c]) = 2
  BY <1>1, <1>4 DEF Good, Sent
<1>8. hungup'[c] <=> At(c)' = "away"
  <2>1. ~hungup[c]
    BY <1>1, <1>4 DEF Good, Linked, Sending
  <2> QED BY <1>1, <1>2, <1>6, <2>1
<1>9. /\ m.role # "recv" /\ (label # "sendSend" => m # NoFd)
  BY <1>5, Apart, NothingNamed DEF MayBe
<1>10. Good(c, ses[c])'
  <2>1. CASE label = "reply"
    <3>1. MayBe(m, 1, ses[c]) /\ Taken(c) + Len(inbox[c]) + 1 = 1 /\ At(c)' = "sendShm"
      BY <1>2, <1>5, <1>6, <1>7, <2>1
    <3> QED BY <1>1, <1>4, <1>5, <1>8, <1>9, <2>1, <3>1, SentGood
  <2>2. CASE label = "sendShm"
    <3>1. MayBe(m, 2, ses[c]) /\ Taken(c) + Len(inbox[c]) + 1 = 2 /\ At(c)' = "sendSend"
      BY <1>2, <1>5, <1>6, <1>7, <2>2
    <3> QED BY <1>1, <1>4, <1>5, <1>8, <1>9, <2>2, <3>1, SentGood
  <2>3. CASE label = "sendSend"
    <3>1. /\ m = NoFd \/ MayBe(m, 3, ses[c])
          /\ Taken(c) + Len(inbox[c]) + 1 = 3 /\ At(c)' = "sendRecv"
      BY <1>2, <1>5, <1>6, <1>7, <2>3
    <3> QED BY <1>1, <1>4, <1>5, <1>8, <1>9, <2>3, <3>1, SentGood
  <2> QED BY <2>1, <2>2, <2>3
<1>11. ASSUME NEW e \in Clients, e # c PROVE Good(e, ses[e])'
  BY <1>1, <1>3, <1>5, <1>11, Others
<1>12. OneEach'
  BY <1>1 DEF OneEach, Distinct
<1>13. Given(ses)'
  BY <1>1 DEF Ghost, Given
<1> QED BY <1>10, <1>11, <1>12, <1>13 DEF Ghost

\* SendLastGood: the last descriptor, and the connection is closed.
LEMMA SendLastGood ==
  ASSUME Base, OneEach, NEW ses \in [Clients -> Nat], Ghost(ses), SendLast
  PROVE  OneEach' /\ Ghost(ses)'
<1>1. /\ daemon = "sendRecv" /\ pc[serving] # "crashed" /\ Deliver(Sends["sendRecv"])
      /\ CloseClient /\ UNCHANGED <<made, clientVars, backlog, hello>>
  BY DEF SendLast
<1>2. daemon \in Sending /\ daemon \in Serving
  BY <1>1 DEF Sending, Serving
<1>3. PICK c \in Clients : c = serving
  BY <1>2, ServedState
<1>4. /\ At(c) = daemon /\ Good(c, ses[c]) /\ pc[c] \in Waiting /\ TypeOK
  BY <1>1, <1>2, <1>3, ServedState DEF Base
<1>5. PICK m \in Fds :
           /\ m = NoFd \/ (MayBe(m, 3, ses[c]) /\ MayBe(m, 4, ses[c]))
           /\ \/ m = NoFd /\ inbox'[c] = inbox[c]
              \/ m # NoFd /\ inbox'[c] = Append(inbox[c], m)
           /\ \A e \in Clients : e # c => inbox'[e] = inbox[e]
  BY <1>1, <1>2, <1>3, Delivered
<1>6. daemon' = "top" /\ serving' = NoClient
  BY <1>1 DEF CloseClient
<1>7. At(c)' = "away"
  BY <1>1, <1>3, <1>6, HandshakeAssumption DEF At, OneEach
<1>8. /\ hungup'[c] = TRUE /\ \A e \in Clients : e # c => hungup'[e] = hungup[e]
  BY <1>1, <1>3, <1>4 DEF CloseClient, TypeOK
<1>9. Good(c, ses[c])'
  <2>1. Taken(c) + Len(inbox[c]) \in {2, 3}
    BY <1>1, <1>4 DEF Good, Sent
  <2>2. CASE Taken(c) + Len(inbox[c]) = 2
    <3>1. Taken(c) + Len(inbox[c]) + 1 = 3
      BY <2>2
    <3> QED BY <1>1, <1>2, <1>4, <1>5, <1>7, <1>8, <3>1, SentGood
  <2>3. CASE Taken(c) + Len(inbox[c]) = 3
    <3>1. Taken(c) + Len(inbox[c]) + 1 = 4
      BY <2>3
    <3> QED BY <1>1, <1>2, <1>4, <1>5, <1>7, <1>8, <3>1, SentGood
  <2> QED BY <2>1, <2>2, <2>3
<1>10. ASSUME NEW e \in Clients, e # c PROVE Good(e, ses[e])'
  BY <1>1, <1>3, <1>5, <1>6, <1>8, <1>10, Others
<1>11. OneEach'
  BY <1>1, <1>6, NoBacklogOfNone DEF OneEach, Distinct
<1>12. Given(ses)'
  BY <1>1, <1>6 DEF Ghost, Given, Sending
<1> QED BY <1>9, <1>10, <1>11, <1>12 DEF Ghost

\* HeadAndTail: the first of the backlog is not in the rest of it.
LEMMA HeadAndTail ==
  ASSUME NEW q \in Seq(Clients), q # << >>, Distinct(q)
  PROVE  /\ Distinct(Tail(q)) /\ ~Contains(Tail(q), Head(q)) /\ Contains(q, Head(q))
         /\ \A e : e # Head(q) => (Contains(Tail(q), e) <=> Contains(q, e))
<1> DEFINE t == Tail(q)
<1>1. /\ Len(q) \in Nat /\ Len(q) >= 1 /\ Len(t) = Len(q) - 1 /\ Head(q) = q[1]
      /\ \A i \in 1 .. Len(q) - 1 : t[i] = q[i + 1]
  OBVIOUS
<1> HIDE DEF t
<1>2. Distinct(t)
  <2> SUFFICES ASSUME NEW i \in 1 .. Len(t), NEW j \in 1 .. Len(t), t[i] = t[j]
               PROVE  i = j
    BY DEF Distinct
  <2>1. i + 1 \in 1 .. Len(q) /\ j + 1 \in 1 .. Len(q) /\ q[i + 1] = q[j + 1]
    BY <1>1
  <2>2. i + 1 = j + 1
    BY <2>1 DEF Distinct
  <2> QED BY <1>1, <2>2
<1>3. ~Contains(t, Head(q))
  <2> SUFFICES ASSUME NEW i \in 1 .. Len(t), t[i] = Head(q) PROVE FALSE
    BY DEF Contains
  <2>1. i + 1 \in 1 .. Len(q) /\ 1 \in 1 .. Len(q) /\ q[i + 1] = q[1] /\ i + 1 # 1
    BY <1>1
  <2> QED BY <2>1 DEF Distinct
<1>4. Contains(q, Head(q))
  BY <1>1 DEF Contains
<1>5. ASSUME NEW e, e # Head(q) PROVE Contains(t, e) <=> Contains(q, e)
  <2>1. ASSUME NEW i \in 1 .. Len(t), t[i] = e PROVE Contains(q, e)
    <3>1. i + 1 \in 1 .. Len(q) /\ q[i + 1] = e
      BY <1>1, <2>1
    <3> QED BY <3>1 DEF Contains
  <2>2. ASSUME NEW i \in 1 .. Len(q), q[i] = e PROVE Contains(t, e)
    <3>1. i # 1
      BY <1>1, <1>5, <2>2
    <3>2. i - 1 \in 1 .. Len(t) /\ (i - 1) + 1 = i
      BY <1>1, <3>1
    <3>3. t[i - 1] = e
      BY <1>1, <2>2, <3>2
    <3> QED BY <3>2, <3>3 DEF Contains
  <2> QED BY <2>1, <2>2 DEF Contains
<1> QED BY <1>2, <1>3, <1>4, <1>5 DEF t

\* AcceptGood: the first of the backlog is served.
LEMMA AcceptGood ==
  ASSUME Base, OneEach, NEW ses \in [Clients -> Nat], Ghost(ses), Accept
  PROVE  OneEach' /\ Ghost(ses)'
<1>1. /\ daemon = "accept" /\ backlog # << >> /\ backlog \in Seq(Clients)
      /\ daemon' = "meta" /\ serving' = Head(backlog) /\ backlog' = Tail(backlog)
      /\ UNCHANGED <<made, clientVars, hello, inbox, hungup>> /\ Distinct(backlog)
  BY DEF Accept, Base, TypeOK, OneEach
<1>2. serving = NoClient
  BY <1>1 DEF Base, TableHasRoom
<1>3. PICK c \in Clients : c = Head(backlog)
  BY <1>1
<1>4. /\ Distinct(Tail(backlog)) /\ ~Contains(Tail(backlog), c) /\ Contains(backlog, c)
      /\ \A e : e # c => (Contains(Tail(backlog), e) <=> Contains(backlog, e))
  BY <1>1, <1>3, HeadAndTail
<1>5. OneEach'
  BY <1>1, <1>3, <1>4 DEF OneEach, Distinct
<1>6. Given(ses)'
  BY <1>1 DEF Ghost, Given, Sending
<1>7. ASSUME NEW e \in Clients, e # c PROVE Good(e, ses[e])'
  <2>1. At(e)' = At(e)
    BY <1>1, <1>2, <1>3, <1>4, <1>7, HandshakeAssumption DEF At
  <2>2. Good(e, ses[e])
    BY DEF Ghost
  <2> QED BY <1>1, <2>1, <2>2, Same DEF clientVars
<1>8. Good(c, ses[c])'
  <2>1. At(c) = "queued" /\ At(c)' = "meta"
    BY <1>1, <1>2, <1>3, <1>4, HandshakeAssumption DEF At
  <2>2. Good(c, ses[c])
    BY DEF Ghost
  <2>3. /\ pc'[c] = pc[c] /\ ctx'[c] = ctx[c] /\ fds'[c] = fds[c] /\ hello'[c] = hello[c]
        /\ inbox'[c] = inbox[c] /\ hungup'[c] = hungup[c]
    BY <1>1 DEF clientVars
  <2>4. Linked(c)'
    BY <2>1, <2>2, <2>3 DEF Good, Linked, Idle, Waiting
  <2>5. Kept(c)'
    BY <2>2, <2>3 DEF Good, Kept
  <2>6. Taken(c)' = Taken(c)
    BY <2>3 DEF Taken
  <2>7. Own(c, ses[c])'
    BY <2>2, <2>3, <2>6 DEF Good, Own
  <2>8. LastIsLast(c)' /\ Sent(c)'
    BY <2>1, <2>2, <2>3 DEF Good, LastIsLast, Sent
  <2> QED BY <2>4, <2>5, <2>7, <2>8 DEF Good
<1> QED BY <1>5, <1>6, <1>7, <1>8 DEF Ghost

\* RecvMetaGood: the metadata has been received.
LEMMA RecvMetaGood ==
  ASSUME Base, OneEach, NEW ses \in [Clients -> Nat], Ghost(ses), RecvMeta
  PROVE  OneEach' /\ Ghost(ses)'
<1>1. /\ daemon = "meta" /\ daemon' = "create" /\ hello[serving]
      /\ UNCHANGED <<serving, made, clientVars, backlog, inbox, hungup>>
  BY DEF RecvMeta
<1>2. daemon \in Serving
  BY <1>1 DEF Serving
<1>3. PICK c \in Clients : c = serving
  BY <1>2, ServedState
<1>4. /\ At(c) = "meta" /\ Good(c, ses[c])
  BY <1>1, <1>2, <1>3, ServedState
<1>5. /\ hello'[c] = FALSE /\ \A e \in Clients : e # c => hello'[e] = hello[e]
  BY <1>3 DEF RecvMeta, Base, TypeOK
<1>6. At(c)' = "create"
  BY <1>1, <1>3 DEF At
<1>7. /\ pc'[c] = pc[c] /\ ctx'[c] = ctx[c] /\ fds'[c] = fds[c]
      /\ inbox'[c] = inbox[c] /\ hungup'[c] = hungup[c]
  BY <1>1 DEF clientVars
<1>8. pc[c] \in {"recvId", "crashed"} /\ inbox[c] = << >>
  BY <1>1, <1>3, <1>4 DEF Good, Linked
<1>9. Good(c, ses[c])'
  <2>1. Linked(c)'
    BY <1>4, <1>5, <1>6, <1>7, <1>8 DEF Good, Linked, Idle, Waiting
  <2>2. Kept(c)'
    BY <1>4, <1>7 DEF Good, Kept
  <2>3. Taken(c)' = Taken(c) /\ Taken(c)' = 0
    BY <1>7, <1>8 DEF Taken
  <2>4. Own(c, ses[c])'
    BY <1>4, <1>7, <2>3 DEF Good, Own
  <2>5. LastIsLast(c)'
    BY <1>4, <1>7, <1>8 DEF Good, LastIsLast
  <2>6. Sent(c)'
    BY <1>6, <1>7, <1>8, <2>3 DEF Sent
  <2> QED BY <2>1, <2>2, <2>4, <2>5, <2>6 DEF Good
<1>10. ASSUME NEW e \in Clients, e # c PROVE Good(e, ses[e])'
  BY <1>1, <1>3, <1>5, <1>10, Others
<1>11. OneEach' /\ Given(ses)'
  BY <1>1 DEF OneEach, Distinct, Ghost, Given, Sending
<1> QED BY <1>9, <1>10, <1>11 DEF Ghost

\* CreateGood: a new session is given to the client being served, which has nothing
\* of an earlier one.
LEMMA CreateGood ==
  ASSUME Base, OneEach, NEW ses \in [Clients -> 0 .. made], Ghost(ses),
         NEW missing \in SUBSET {"send", "recv"}, NEW truncated \in BOOLEAN,
         NEW mapped \in BOOLEAN, CreateSession(missing, truncated, mapped)
  PROVE  OneEach' /\ Whole'
<1>1. made \in Nat /\ made' = made + 1 /\ daemon = "create"
  BY DEF CreateSession, Base, TypeOK
<1>2. ses \in [Clients -> Nat] /\ ses \in [Clients -> 0 .. made']
  BY <1>1
<1>3. CASE ~truncated /\ mapped
  <2>1. OneEach' /\ Ghost(ses)'
    BY <1>1, <1>2, <1>3, DaemonDiesGood DEF CreateSession
  <2> QED BY <1>2, <2>1 DEF Whole
<1>4. CASE ~(~truncated /\ mapped)
  <2>1. /\ daemon' = "reply"
        /\ UNCHANGED <<clientVars, hello, inbox, serving, backlog, hungup>>
    BY <1>4 DEF CreateSession
  <2>2. daemon \in Serving
    BY <1>1 DEF Serving
  <2>3. PICK c \in Clients : c = serving
    BY <1>2, <2>2, ServedState
  <2>4. /\ At(c) = "create" /\ Good(c, ses[c]) /\ (pc[c] \in Waiting \/ pc[c] = "crashed")
        /\ (pc[c] = "crashed" => ctx[c] = NoCtx /\ fds[c] = {} /\ inbox[c] = << >> /\ ~hungup[c])
    BY <1>1, <1>2, <2>2, <2>3, ServedState
  <2>5. PICK g : g = [ses EXCEPT ![c] = made + 1]
    OBVIOUS
  <2>6. g \in [Clients -> 0 .. made']
    BY <1>1, <2>5
  <2>7. g[c] = made + 1 /\ \A e \in Clients : e # c => g[e] = ses[e]
    BY <2>5
  <2>8. OneEach'
    BY <2>1 DEF OneEach, Distinct
  <2>9. Given(g)'
    <3>1. \A e \in Clients : ses[e] \in Nat /\ ses[e] <= made
      BY <1>1
    <3>2. \A e \in Clients : g[e] <= made'
      BY <1>1, <2>6
    <3>3. ASSUME NEW d \in Clients, NEW e \in Clients, d # e, g[d] = g[e] PROVE g[d] = 0
      <4>1. d # c /\ e # c
        BY <1>1, <2>7, <3>1, <3>3
      <4> QED BY <2>7, <3>3, <4>1 DEF Ghost, Given
    <3>4. g[serving'] = made'
      BY <1>1, <2>1, <2>3, <2>7
    <3> QED BY <3>2, <3>3, <3>4 DEF Given
  <2>10. ASSUME NEW e \in Clients, e # c PROVE Good(e, g[e])'
    BY <1>2, <2>1, <2>3, <2>7, <2>10, Others
  <2>11. Good(c, g[c])'
    <3>1. /\ pc'[c] = pc[c] /\ ctx'[c] = ctx[c] /\ fds'[c] = fds[c] /\ hello'[c] = hello[c]
          /\ inbox'[c] = inbox[c] /\ hungup'[c] = hungup[c]
      BY <2>1 DEF clientVars
    <3>2. At(c)' = "reply"
      BY <2>1, <2>3 DEF At
    <3>3. Taken(c)' = Taken(c) /\ Taken(c) \in Nat
      BY <3>1 DEF Taken
    <3>4. inbox[c] = << >> /\ (pc[c] # "crashed" => pc[c] = "recvId" /\ Taken(c) = 0)
      <4>1. CASE pc[c] = "crashed"
        BY <2>4, <4>1
      <4>2. CASE pc[c] \in Waiting
        <5>1. Taken(c) + Len(inbox[c]) = 0
          BY <2>4, <4>2 DEF Good, Sent
        <5>2. inbox[c] \in Seq(Fds) /\ Len(inbox[c]) \in Nat
          BY DEF Base, TypeOK
        <5>3. Taken(c) = 0 /\ Len(inbox[c]) = 0
          BY <3>3, <5>1, <5>2
        <5>4. inbox[c] = << >>
          BY <5>2, <5>3
        <5>5. pc[c] \in {"send", "recvId"}
          BY <4>2, <5>3 DEF Taken, Waiting
        <5>6. pc[c] # "send"
          BY <2>4 DEF Good, Linked
        <5> QED BY <5>3, <5>4, <5>5, <5>6
      <4> QED BY <2>4, <4>1, <4>2
    <3>5. ctx[c].shm = NoFd /\ ctx[c].send = NoFd /\ ctx[c].recv = NoFd
      BY <2>4, <3>4, NothingNamed DEF Good, Kept
    <3>6. Linked(c)'
      BY <2>4, <3>1, <3>2, <3>4 DEF Good, Linked, Idle, Waiting
    <3>7. Kept(c)'
      BY <2>4, <3>1 DEF Good, Kept
    <3>8. Own(c, g[c])' /\ LastIsLast(c)'
      BY <3>1, <3>4, <3>5, NothingNamed DEF Own, LastIsLast
    <3>9. Sent(c)'
      BY <3>1, <3>2, <3>3, <3>4 DEF Sent, Waiting
    <3> QED BY <3>6, <3>7, <3>8, <3>9 DEF Good
  <2>12. Ghost(g)'
    BY <2>9, <2>10, <2>11 DEF Ghost
  <2> QED BY <2>6, <2>8, <2>12 DEF Whole
<1> QED BY <1>3, <1>4

\* SendNothingGood: a client that is gone, and nothing to send to it.
LEMMA SendNothingGood ==
  ASSUME Base, OneEach, NEW ses \in [Clients -> Nat], Ghost(ses), SendNothing
  PROVE  OneEach' /\ Ghost(ses)'
<1>1. /\ daemon \in {"sendSend", "sendRecv"} /\ pc[serving] = "crashed"
      /\ UNCHANGED <<made, clientVars, backlog, hello, inbox>>
  BY DEF SendNothing
<1>2. daemon \in Serving
  BY <1>1 DEF Serving, Sending
<1>3. CASE daemon = "sendRecv"
  BY <1>1, <1>2, <1>3, CloseClientGood DEF SendNothing
<1>4. CASE daemon = "sendSend"
  <2>1. daemon' = "sendRecv" /\ serving' = serving /\ hungup' = hungup
    BY <1>4 DEF SendNothing
  <2>2. PICK c \in Clients : c = serving
    BY <1>2, ServedState
  <2>3. /\ At(c) = "sendSend" /\ Good(c, ses[c]) /\ ctx[c] = NoCtx /\ fds[c] = {}
        /\ inbox[c] = << >> /\ ~hungup[c]
    BY <1>1, <1>2, <1>4, <2>2, ServedState
  <2>4. hello[c] = FALSE /\ hungup[c] = FALSE
    BY <2>3 DEF Good, Linked, Base, TypeOK
  <2>5. /\ pc'[c] = "crashed" /\ ctx'[c] = NoCtx /\ fds'[c] = {} /\ hello'[c] = FALSE
        /\ inbox'[c] = << >> /\ hungup'[c] = FALSE
    BY <1>1, <2>1, <2>2, <2>3, <2>4 DEF clientVars
  <2>6. Good(c, ses[c])'
    BY <2>5, Dead
  <2>7. ASSUME NEW e \in Clients, e # c PROVE Good(e, ses[e])'
    BY <1>1, <2>1, <2>2, <2>7, Others
  <2>8. OneEach'
    BY <1>1, <2>1 DEF OneEach, Distinct
  <2>9. Given(ses)'
    BY <1>1, <1>4, <2>1 DEF Ghost, Given, Sending
  <2> QED BY <2>6, <2>7, <2>8, <2>9 DEF Ghost
<1> QED BY <1>1, <1>3, <1>4

\* IdleGood: the steps of the daemon that are about no connection.
LEMMA IdleGood ==
  ASSUME Base, OneEach, NEW ses \in [Clients -> Nat], Ghost(ses),
         \/ HandleSig \/ LoopTop \/ AcceptFails \/ \E ok \in BOOLEAN : Starting(ok)
  PROVE  OneEach' /\ Ghost(ses)'
<1>1. /\ UNCHANGED <<serving, made, clientVars, linkVars>>
      /\ daemon' = daemon \/ (serving = NoClient /\ daemon' \notin Sending)
  BY DEF HandleSig, LoopTop, AcceptFails, Starting, Base, TableHasRoom, Sending
<1>2. OneEach'
  BY <1>1 DEF OneEach, Distinct, linkVars
<1>3. Given(ses)'
  BY <1>1 DEF Ghost, Given
<1>4. ASSUME NEW e \in Clients PROVE Good(e, ses[e])'
  <2>1. At(e)' = At(e)
    BY <1>1, HandshakeAssumption DEF At, linkVars
  <2>2. Good(e, ses[e])
    BY DEF Ghost
  <2> QED BY <1>1, <2>1, <2>2, Same DEF clientVars, linkVars
<1> QED BY <1>2, <1>3, <1>4 DEF Ghost

-----------------------------------------------------------------------------
(* The whole of it. *)

\* WholeStep: every step leaves every session with its owner.
LEMMA WholeStep ==
  ASSUME Base, OneEach, Whole, Next
  PROVE  OneEach' /\ Whole'
<1>1. PICK ses \in [Clients -> 0 .. made] : Ghost(ses)
  BY DEF Whole
<1>2. made \in Nat
  BY DEF Base, TypeOK
<1>3. ses \in [Clients -> Nat]
  BY <1>1, <1>2
<1>4. ASSUME made' = made, OneEach' /\ Ghost(ses)' PROVE OneEach' /\ Whole'
  BY <1>1, <1>4 DEF Whole
<1>5. CASE \E c \in Clients : ConnectStep(c) \/ HostStep(c)
  <2>1. PICK c \in Clients : ConnectStep(c) \/ HostStep(c)
    BY <1>5
  <2>2. made' = made
    BY <2>1, DaemonUntouched DEF Base
  <2>3. OneEach' /\ Ghost(ses)'
    BY <1>1, <1>3, <2>1, ClientGhost
  <2> QED BY <1>4, <2>2, <2>3
<1>6. CASE \/ HandleSig \/ LoopTop \/ AcceptFails \/ \E ok \in BOOLEAN : Starting(ok)
  <2>1. made' = made
    BY <1>6 DEF HandleSig, LoopTop, AcceptFails, Starting
  <2>2. OneEach' /\ Ghost(ses)'
    BY <1>1, <1>3, <1>6, IdleGood
  <2> QED BY <1>4, <2>1, <2>2
<1>7. CASE LoopEnds \/ SendFails \/ DaemonKilled
  <2>1. /\ made' = made /\ DaemonDies /\ UNCHANGED <<clientVars, hello, inbox>>
    BY <1>7 DEF LoopEnds, SendFails, DaemonKilled
  <2>2. made' \in Nat /\ made' >= made
    BY <1>2, <2>1
  <2>3. OneEach' /\ Ghost(ses)'
    BY <1>1, <1>3, <2>1, <2>2, DaemonDiesGood
  <2> QED BY <1>4, <2>1, <2>3
<1>8. CASE RecvMetaFails \/ MemfdFails
  <2>1. /\ daemon \in Serving /\ CloseClient
        /\ UNCHANGED <<made, clientVars, backlog, hello, inbox>>
    BY <1>8 DEF RecvMetaFails, MemfdFails, Serving
  <2>2. OneEach' /\ Ghost(ses)'
    BY <1>1, <1>3, <2>1, CloseClientGood
  <2> QED BY <1>4, <2>1, <2>2
<1>9. CASE Accept \/ RecvMeta \/ SendLast \/ SendNothing
  <2>1. made' = made
    BY <1>9 DEF Accept, RecvMeta, SendLast, SendNothing
  <2>2. OneEach' /\ Ghost(ses)'
    BY <1>1, <1>3, <1>9, AcceptGood, RecvMetaGood, SendLastGood, SendNothingGood
  <2> QED BY <1>4, <2>1, <2>2
<1>10. ASSUME NEW label \in {"reply", "sendShm", "sendSend"}, Send(label)
       PROVE  OneEach' /\ Whole'
  <2>1. made' = made
    BY <1>10 DEF Send
  <2>2. OneEach' /\ Ghost(ses)'
    BY <1>1, <1>3, <1>10, SendGood
  <2> QED BY <1>4, <2>1, <2>2
<1>11. CASE \E missing \in SUBSET {"send", "recv"}, truncated, mapped \in BOOLEAN :
              CreateSession(missing, truncated, mapped)
  BY <1>1, <1>11, CreateGood
<1> QED
  BY <1>5, <1>6, <1>7, <1>8, <1>9, <1>10, <1>11 DEF Next, DaemonStep

\* MadeGrows: sessions are numbered on.
LEMMA MadeGrows ==
  ASSUME TypeOK, [Next]_vars
  PROVE  made \in Nat /\ made' \in Nat /\ made' >= made
<1>1. made \in Nat
  BY DEF TypeOK
<1>2. made' = made \/ made' = made + 1
  <2>1. CASE UNCHANGED vars
    BY <2>1 DEF vars, daemonVars
  <2>2. ASSUME NEW c \in Clients, ConnectStep(c) \/ HostStep(c) PROVE made' = made
    BY <2>2, DaemonUntouched
  <2>3. CASE DaemonStep
    BY <2>3 DEF DaemonStep, LoopTop, LoopEnds, Accept, AcceptFails, RecvMeta, RecvMetaFails,
                MemfdFails, CreateSession, Send, SendLast, SendFails, SendNothing
  <2>4. CASE HandleSig \/ DaemonKilled \/ \E ok \in BOOLEAN : Starting(ok)
    BY <2>4 DEF HandleSig, DaemonKilled, Starting
  <2> QED BY <2>1, <2>2, <2>3, <2>4 DEF Next
<1> QED BY <1>1, <1>2

\* MappedIsWhole: three descriptors that have come are the three of one session.
LEMMA MappedIsWhole ==
  ASSUME Base, Whole, NEW c \in Clients, AllArrived(c), ctx[c].shm.role # "empty"
  PROVE  \E s \in 1 .. made : /\ ctx[c].shm = Fd("shm", s)
                             /\ ctx[c].send = Fd("send", s) /\ ctx[c].recv = Fd("recv", s)
<1>1. PICK ses \in [Clients -> 0 .. made] : Ghost(ses)
  BY DEF Whole
<1>2. PICK s : s = ses[c]
  OBVIOUS
<1>3. Good(c, s)
  BY <1>1, <1>2 DEF Ghost
<1>4. /\ MayBe(ctx[c].shm, 2, s) /\ MayBe(ctx[c].send, 3, s) /\ MayBe(ctx[c].recv, 4, s)
  BY <1>3 DEF AllArrived, Good, Own
<1>5. ctx[c].send.role # "recv"
  BY <1>3 DEF AllArrived, Good, LastIsLast
<1>6. s \in 1 .. made
  BY <1>1, <1>2, <1>4 DEF MayBe, Base, TypeOK
<1>7. /\ ctx[c].shm = Fd("shm", s) /\ ctx[c].send = Fd("send", s) /\ ctx[c].recv = Fd("recv", s)
  BY <1>4, <1>5, Apart DEF MayBe
<1> QED BY <1>6, <1>7

\* ConnectedStep: the only way to the hardware path is with a whole session.
LEMMA ConnectedStep ==
  ASSUME Base, Whole, ConnectedIsWhole, [Next]_vars
  PROVE  ConnectedIsWhole'
<1> SUFFICES ASSUME NEW e \in Clients, pc'[e] = "hardware"
             PROVE  \E s \in 1 .. made' :
                      /\ ctx'[e].shm = Fd("shm", s)
                      /\ ctx'[e].send = Fd("send", s) /\ ctx'[e].recv = Fd("recv", s)
  BY DEF ConnectedIsWhole
<1>1. TypeOK /\ made \in Nat /\ made' \in Nat /\ made' >= made
  BY MadeGrows DEF Base
<1>2. ASSUME pc[e] = "hardware", ctx'[e] = ctx[e]
      PROVE  \E s \in 1 .. made' :
                      /\ ctx'[e].shm = Fd("shm", s)
                      /\ ctx'[e].send = Fd("send", s) /\ ctx'[e].recv = Fd("recv", s)
  <2>1. PICK s \in 1 .. made : /\ ctx[e].shm = Fd("shm", s)
                              /\ ctx[e].send = Fd("send", s) /\ ctx[e].recv = Fd("recv", s)
    BY <1>2 DEF ConnectedIsWhole
  <2>2. s \in 1 .. made'
    BY <1>1
  <2> QED BY <1>2, <2>1, <2>2
<1>3. CASE UNCHANGED clientVars
  BY <1>2, <1>3 DEF clientVars
<1>4. CASE \E c \in Clients : c # e /\ (ConnectStep(c) \/ HostStep(c))
  BY <1>1, <1>2, <1>4, Untouched
<1>5. CASE ConnectStep(e) \/ HostStep(e)
  <2>1. /\ pc[e] = "map" /\ AllArrived(e) /\ ctx[e].shm.role # "empty" /\ ctx' = ctx
    <3>1. CASE MapSession(e)
      BY <1>1, <3>1 DEF MapSession, Dies, Goto, TypeOK
    <3>2. CASE CleanUp(e) \/ Dies(e)
      BY <1>1, <3>2 DEF CleanUp, Dies, Goto, TypeOK
    <3>3. CASE \/ CreatePlugin(e) \/ ConnectRefused(e) \/ Connect(e) \/ SendMeta(e)
               \/ RecvId(e) \/ PluginDeactivate(e) \/ PluginDestroy(e)
               \/ \E ok \in BOOLEAN : PluginActivate(e, ok)
      BY <1>1, <3>3 DEF CreatePlugin, ConnectRefused, Connect, SendMeta, RecvId,
                        PluginDeactivate, PluginDestroy, PluginActivate, Goto, TypeOK
    <3>4. CASE \/ RecvFd(e, "recvShm", "shm") \/ RecvFd(e, "recvSend", "send")
               \/ RecvFd(e, "recvRecv", "recv")
               \/ \E label \in {"recvShm", "recvSend", "recvRecv"} : RecvNoFd(e, label)
      BY <1>1, <3>4 DEF RecvFd, RecvNoFd, After, Goto, TypeOK
    <3> QED
      BY <1>5, <3>1, <3>2, <3>3, <3>4
         DEF ConnectStep, HostStep, SendMetaFails, RecvIdFails, MapFails, ClientKilled
  <2>2. PICK s \in 1 .. made : /\ ctx[e].shm = Fd("shm", s)
                              /\ ctx[e].send = Fd("send", s) /\ ctx[e].recv = Fd("recv", s)
    BY <2>1, MappedIsWhole
  <2>3. s \in 1 .. made'
    BY <1>1
  <2> QED BY <2>1, <2>2, <2>3
<1>6. CASE \/ DaemonStep \/ HandleSig \/ DaemonKilled \/ \E ok \in BOOLEAN : Starting(ok)
  <2>1. UNCHANGED clientVars
    BY <1>6 DEF DaemonStep, LoopTop, LoopEnds, Accept, AcceptFails, RecvMeta, RecvMetaFails,
                MemfdFails, CreateSession, Send, SendLast, SendFails, SendNothing, HandleSig,
                DaemonKilled, Starting
  <2> QED BY <1>3, <2>1
<1> QED BY <1>3, <1>4, <1>5, <1>6 DEF Next, vars

\* InitInv: nobody has anything.
LEMMA InitInv == Init => Inv
<1> SUFFICES ASSUME Init PROVE Inv
  OBVIOUS
<1>1. Base
  BY InitBase
<1>2. OneEach /\ ConnectedIsWhole
  BY DEF Init, OneEach, Distinct, Contains, ConnectedIsWhole
<1>3. PICK ses : ses = [c \in Clients |-> 0]
  OBVIOUS
<1>4. ses \in [Clients -> 0 .. made]
  BY <1>3 DEF Init
<1>5. Given(ses)
  BY <1>3 DEF Init, Given, Sending
<1>6. ASSUME NEW c \in Clients PROVE Good(c, ses[c])
  <2>1. At(c) = "away"
    BY HandshakeAssumption DEF Init, At, Contains
  <2>2. /\ pc[c] = "gone" /\ ctx[c] = NoCtx /\ fds[c] = {} /\ ~hello[c]
        /\ inbox[c] = << >> /\ ~hungup[c]
    BY DEF Init
  <2>3. Linked(c)
    BY <2>1, <2>2 DEF Linked, Idle, Waiting
  <2>4. Kept(c)
    BY <2>2, NothingNamed DEF Kept
  <2>5. Own(c, ses[c]) /\ LastIsLast(c) /\ Sent(c)
    BY <2>2, NothingNamed DEF Own, LastIsLast, Sent, Waiting
  <2> QED BY <2>3, <2>4, <2>5 DEF Good
<1> QED BY <1>1, <1>2, <1>4, <1>5, <1>6 DEF Inv, Whole, Ghost

\* StepInv: the invariant is inductive.
LEMMA StepInv == Inv /\ [Next]_vars => Inv'
<1> SUFFICES ASSUME Inv, [Next]_vars PROVE Inv'
  OBVIOUS
<1>1. Base'
  BY StepBase DEF Inv
<1>2. ConnectedIsWhole'
  BY ConnectedStep DEF Inv
<1>3. CASE Next
  BY <1>1, <1>2, <1>3, WholeStep DEF Inv
<1>4. CASE UNCHANGED vars
  <2>1. PICK ses \in [Clients -> 0 .. made] : Ghost(ses)
    BY DEF Inv, Whole
  <2>2. UNCHANGED <<daemon, serving, made, backlog, pc, ctx, fds, hello, inbox, hungup>>
    BY <1>4 DEF vars, daemonVars, clientVars, linkVars
  <2>3. Given(ses)' /\ OneEach'
    BY <2>1, <2>2 DEF Ghost, Given, Inv, OneEach, Distinct
  <2>4. ASSUME NEW c \in Clients PROVE Good(c, ses[c])'
    <3>1. At(c)' = At(c)
      BY <2>2 DEF At
    <3> QED BY <2>1, <2>2, <3>1, Same DEF Ghost
  <2>5. Whole'
    BY <2>1, <2>2, <2>3, <2>4 DEF Whole, Ghost
  <2> QED BY <1>1, <1>2, <2>3, <2>5 DEF Inv
<1> QED BY <1>3, <1>4

\* Invariance: it holds in every behaviour.
LEMMA Invariance == Spec => []Inv
BY InitInv, StepInv, PTL DEF Spec

\* HandshakeTypes: the variables have their types, and the daemon never counts more
\* descriptors than its table has, nor closes one that is not open.
THEOREM HandshakeTypes == Spec => []TypeOK
<1>1. Inv => TypeOK
  BY DEF Inv, Base
<1> QED BY <1>1, Invariance, PTL

\* AlwaysRoom: the daemon's loop of main.cpp has a descriptor left whenever it calls accept,
\* although it never closes a session.
THEOREM AlwaysRoom == Spec => []RoomToAccept
<1>1. Inv => RoomToAccept
  BY DEF Inv, Base, TableHasRoom, RoomToAccept
<1> QED BY <1>1, Invariance, PTL

\* WholeSession: a plugin that dsp_accel_sdk_connect has put on the hardware path has
\* the three descriptors of one session, each in its place.
THEOREM WholeSession == Spec => []ConnectedIsWhole
<1>1. Inv => ConnectedIsWhole
  BY DEF Inv
<1> QED BY <1>1, Invariance, PTL

\* NoDescriptorLost: what a plugin's process has open is what its SDK context names, each
\* in one field, and every way out of dsp_accel_sdk_connect that failed has closed it,
\* whichever of the three descriptors recv_fd came back without.
THEOREM NoDescriptorLost == Spec => []NoneLost
<1>1. ASSUME Inv PROVE NoneLost
  <2>1. PICK ses \in [Clients -> 0 .. made] : Ghost(ses)
    BY <1>1 DEF Inv, Whole
  <2> SUFFICES ASSUME NEW c \in Clients
               PROVE  /\ fds[c] = Named(ctx[c])
                      /\ \A f, g \in DOMAIN ctx[c] :
                           f # g /\ ctx[c][f] = ctx[c][g] => ctx[c][f] = NoFd
                      /\ pc[c] \in {"gone", "created", "crashed"} => fds[c] = {}
                      /\ pc[c] = "cpu" => fds[c] \subseteq {Sock}
    BY DEF NoneLost
  <2>2. Kept(c) /\ Own(c, ses[c]) /\ LastIsLast(c)
    BY <2>1 DEF Ghost, Good
  <2>3. fds[c] = Named(ctx[c])
    BY <2>2 DEF Kept
  <2>6. \A f, g \in DOMAIN ctx[c] : f # g /\ ctx[c][f] = ctx[c][g] => ctx[c][f] = NoFd
    <3> DEFINE x == ctx[c]
    <3>1. x \in Contexts
      BY <1>1 DEF Inv, Base, TypeOK, Contexts
    <3>2. /\ x.sock = NoFd \/ x.sock.role = "sock"
          /\ x.shm = NoFd \/ x.shm.role \in {"shm", "empty"}
          /\ x.send = NoFd \/ x.send.role \in {"send", "recv"}
          /\ x.recv = NoFd \/ x.recv.role = "recv"
      BY <2>2, Apart DEF Kept, Own, MayBe, Sock
    <3>3. x.send.role = "recv" => x.recv = NoFd
      BY <2>2 DEF LastIsLast
    <3> HIDE DEF x
    <3>4. DOMAIN x = {"sock", "shm", "send", "recv"}
      BY <3>1 DEF Contexts
    <3>5. \A f, g \in DOMAIN x : f # g /\ x[f] = x[g] => x[f] = NoFd
      BY <3>2, <3>3, <3>4, NothingNamed
    <3> QED BY <3>5 DEF x
  <2>4. pc[c] \in {"gone", "created", "crashed"} => fds[c] = {}
    BY <2>2, NothingNamed DEF Kept
  <2>5. pc[c] = "cpu" => fds[c] \subseteq {Sock}
    BY <2>2 DEF Kept, Named
  <2> QED BY <2>3, <2>4, <2>5, <2>6
<1> QED BY <1>1, Invariance, PTL

\* SessionNotShared: the daemon hands no descriptor of a session to two plugins.
THEOREM SessionNotShared == Spec => []SessionIsOwn
<1>1. ASSUME Inv PROVE SessionIsOwn
  <2>1. PICK ses \in [Clients -> 0 .. made] : Ghost(ses)
    BY <1>1 DEF Inv, Whole
  <2> SUFFICES ASSUME NEW c \in Clients, NEW e \in Clients, c # e,
                      NEW d \in fds[c] \cap fds[e]
               PROVE  d = Sock
    BY DEF SessionIsOwn
  <2>2. Kept(c) /\ Own(c, ses[c]) /\ Kept(e) /\ Own(e, ses[e])
    BY <2>1 DEF Ghost, Good
  <2>3. d = Sock \/ (d.session = ses[c] /\ ses[c] > 0)
    BY <2>2, Apart DEF Kept, Named, Own, MayBe
  <2>4. d = Sock \/ d.session = ses[e]
    BY <2>2, Apart DEF Kept, Named, Own, MayBe
  <2>5. ses[c] = ses[e] => ses[c] = 0
    BY <2>1 DEF Ghost, Given
  <2> QED BY <2>3, <2>4, <2>5
<1> QED BY <1>1, Invariance, PTL
=============================================================================
