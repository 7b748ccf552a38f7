------------------------------ MODULE Handshake ------------------------------
(***************************************************************************)
(* How a plugin comes by its session: the life cycle of the CLAP example   *)
(* plugin (clap/plugin_example/src/plugin.cpp), dsp_accel_sdk_connect and  *)
(* _disconnect, and the stand-alone daemon (daemon/main.cpp), which makes  *)
(* a new session for every connection.  Plugins and daemon are processes   *)
(* that may die at any point.                                              *)
(*                                                                         *)
(* The daemon serves one connection at a time, without a timeout, and the  *)
(* plugin waits for it without a timeout.  Descriptors count: the daemon   *)
(* keeps the three of every session open, and its table is finite.  What   *)
(* is in a socket goes with it: hello, inbox and hungup are those of the   *)
(* connection of a call in progress.                                       *)
(***************************************************************************)
EXTENDS Integers, Sequences, FiniteSets, SequencesExt

CONSTANTS Clients,      \* plugin instances, each in a process of its own
          NoClient,
          MaxFds,       \* descriptors the daemon may have open
          Backlog,      \* listen(server_fd, 5)
          MaxAttempts,  \* bound: calls of dsp_accel_sdk_connect
          MaxStarts     \* bound: starts of the daemon

ASSUME HandshakeAssumption ==
  /\ NoClient \notin Clients /\ MaxFds \in Nat /\ MaxFds >= 2
  /\ Backlog \in Nat /\ MaxAttempts \in Nat /\ MaxStarts \in Nat

\* A descriptor: what it is, and of which session.
Fd(role, s) == [role |-> role, session |-> s]
NoFd == Fd("none", 0)
Sock == Fd("sock", 0)
WorkerId == Fd("id", 0)     \* the handshake response, which is no descriptor

VARIABLES
  daemon,    \* where the daemon is: "down", "top" (of its loop), "accept", "meta",
             \* "create", "reply", "sendShm", "sendSend", "sendRecv"
  stopping,  \* running = false
  starts,
  serving,   \* the client whose connection it holds, or NoClient
  backlog,   \* clients waiting to be accepted
  open,      \* descriptors open in the daemon
  made,      \* sessions made
  current,   \* the descriptors of the session being handed out
  pc,        \* a plugin: "gone", "created", "connect", "send", "recvId", "recvShm",
             \* "recvSend", "recvRecv", "map", "hardware", "cpu", "crashed"
  ctx,       \* the descriptors in its SDK context
  fds,       \* the descriptors its process has open
  hello,     \* its metadata has been sent and not been received
  inbox,     \* what the daemon has sent it
  hungup,    \* the daemon's end of its connection is closed
  attempts

daemonVars == <<daemon, stopping, starts, serving, open, made, current>>
clientVars == <<pc, ctx, fds, attempts>>
linkVars == <<backlog, hello, inbox, hungup>>
vars == <<daemonVars, clientVars, linkVars>>

NoCtx == [sock |-> NoFd, shm |-> NoFd, send |-> NoFd, recv |-> NoFd]
NoSession == [shm |-> NoFd, send |-> NoFd, recv |-> NoFd]

Init ==
  /\ daemon = "down" /\ stopping = FALSE /\ starts = 0 /\ serving = NoClient
  /\ backlog = << >> /\ open = 0 /\ made = 0 /\ current = NoSession
  /\ pc = [c \in Clients |-> "gone"]
  /\ ctx = [c \in Clients |-> NoCtx] /\ fds = [c \in Clients |-> {}]
  /\ hello = [c \in Clients |-> FALSE] /\ inbox = [c \in Clients |-> << >>]
  /\ hungup = [c \in Clients |-> FALSE] /\ attempts = 0

-----------------------------------------------------------------------------
(* The plugin and its SDK context. *)

Goto(c, label) == pc' = [pc EXCEPT ![c] = label]

\* create_plugin and plugin_init
CreatePlugin(c) ==
  /\ pc[c] = "gone"
  /\ Goto(c, "created")
  /\ UNCHANGED <<daemonVars, linkVars, ctx, fds, attempts>>

\* plugin_activate: dsp_accel_sdk_connect up to socket(); without a socket, or
\* without a context, the plugin is active all the same.
PluginActivate(c, ok) ==
  /\ pc[c] = "created" /\ attempts < MaxAttempts
  /\ attempts' = attempts + 1
  /\ Goto(c, IF ok THEN "connect" ELSE "cpu")
  /\ ctx' = IF ok THEN [ctx EXCEPT ![c].sock = Sock] ELSE ctx
  /\ fds' = IF ok THEN [fds EXCEPT ![c] = {Sock}] ELSE fds
  /\ UNCHANGED <<daemonVars, linkVars>>

\* connect(): waits for room in the backlog.
Connect(c) ==
  /\ pc[c] = "connect" /\ daemon # "down" /\ Len(backlog) <= Backlog
  /\ Goto(c, "send")
  /\ backlog' = Append(backlog, c)
  /\ UNCHANGED <<daemonVars, ctx, fds, attempts, hello, inbox, hungup>>

\* Nobody listens: the CPU fallback, with the socket still open.
ConnectRefused(c) ==
  /\ pc[c] = "connect" /\ daemon = "down"
  /\ Goto(c, "cpu")
  /\ UNCHANGED <<daemonVars, linkVars, ctx, fds, attempts>>

Named(x) == {x.sock, x.shm, x.send, x.recv} \ {NoFd}

\* mutant: cleanup forgets one of the eventfds
CloseAllButOne(c) ==
  /\ fds' = [fds EXCEPT ![c] = @ \ (Named(ctx[c]) \ {ctx[c].recv})]
  /\ ctx' = [ctx EXCEPT ![c] = NoCtx]

\* safe_close of every descriptor in the context, which marks it as closed.
CloseAll(c) ==
  /\ fds' = [fds EXCEPT ![c] = @ \ Named(ctx[c])]
  /\ ctx' = [ctx EXCEPT ![c] = NoCtx]

\* Nothing is left to read on the connection of a call that has ended.
Disconnected(c) ==
  /\ hello' = [hello EXCEPT ![c] = FALSE]
  /\ inbox' = [inbox EXCEPT ![c] = << >>]
  /\ hungup' = [hungup EXCEPT ![c] = FALSE]

\* The label cleanup of dsp_accel_sdk_connect.
CleanUp(c) == CloseAll(c) /\ Disconnected(c) /\ Goto(c, "cpu")

\* The process is gone, and with it all it had open.  What it has sent can still
\* be received.
Dies(c) ==
  /\ Goto(c, "crashed")
  /\ inbox' = [inbox EXCEPT ![c] = << >>]
  /\ hungup' = [hungup EXCEPT ![c] = FALSE] /\ UNCHANGED hello
  /\ fds' = [fds EXCEPT ![c] = {}] /\ ctx' = [ctx EXCEPT ![c] = NoCtx]

SendMeta(c) ==
  /\ pc[c] = "send" /\ ~hungup[c]
  /\ Goto(c, "recvId")
  /\ hello' = [hello EXCEPT ![c] = TRUE]
  /\ UNCHANGED <<daemonVars, backlog, inbox, hungup, ctx, fds, attempts>>

\* send() to a daemon that has died: SIGPIPE, which ends a host that has not
\* asked for it to be ignored; otherwise EPIPE.
SendMetaFails(c) ==
  /\ pc[c] = "send" /\ hungup[c]
  /\ CleanUp(c) \/ Dies(c)
  /\ UNCHANGED <<daemonVars, backlog, attempts>>

Arrived(c) == inbox[c] # << >>
EndOfFile(c) == hungup[c] /\ ~Arrived(c)

RecvId(c) ==
  /\ pc[c] = "recvId" /\ Arrived(c)
  /\ Goto(c, "recvShm")
  /\ inbox' = [inbox EXCEPT ![c] = Tail(@)]
  /\ UNCHANGED <<daemonVars, backlog, hello, hungup, ctx, fds, attempts>>

RecvIdFails(c) ==
  /\ pc[c] = "recvId" /\ EndOfFile(c)
  /\ CleanUp(c)
  /\ UNCHANGED <<daemonVars, backlog, attempts>>

After(label) == CASE label = "recvShm" -> "recvSend"
                  [] label = "recvSend" -> "recvRecv"
                  [] label = "recvRecv" -> "map"

\* recv_fd into the field for role: the next descriptor in the stream, whatever
\* it is; -1 at the end of the stream, and the calls go on.  A failure with a message
\* there is RecvNoFd.
RecvFd(c, label, role) ==
  /\ pc[c] = label /\ (Arrived(c) \/ EndOfFile(c))
  /\ Goto(c, After(label))
  /\ IF Arrived(c)
     THEN /\ ctx' = [ctx EXCEPT ![c][role] = Head(inbox[c])]
          /\ fds' = [fds EXCEPT ![c] = @ \cup {Head(inbox[c])}]
          /\ inbox' = [inbox EXCEPT ![c] = Tail(@)]
     ELSE UNCHANGED <<ctx, fds, inbox>>
  /\ UNCHANGED <<daemonVars, backlog, hello, hungup, attempts>>

\* The message is there but not its descriptor: the plugin's process has no room for
\* one more, and the kernel has closed it.  The byte is taken, the field stays at -1,
\* and the next call may well succeed.
RecvNoFd(c, label) ==
  /\ pc[c] = label /\ Arrived(c)
  /\ Goto(c, After(label))
  /\ inbox' = [inbox EXCEPT ![c] = Tail(@)]
  /\ UNCHANGED <<daemonVars, backlog, hello, hungup, ctx, fds, attempts>>

\* mutant: only the shared memory is looked at
ShmArrived(c) == ctx[c].shm # NoFd

AllArrived(c) ==
  ctx[c].shm # NoFd /\ ctx[c].send # NoFd /\ ctx[c].recv # NoFd

\* All three are there and mmap succeeds.  The first look at the heartbeat ends
\* the process (SIGBUS) if the memory has no size.
MapSession(c) ==
  /\ pc[c] = "map" /\ AllArrived(c)
  /\ IF ctx[c].shm.role # "empty"
     THEN Goto(c, "hardware") /\ Disconnected(c) /\ UNCHANGED <<ctx, fds>>
     ELSE Dies(c)
  /\ UNCHANGED <<daemonVars, backlog, attempts>>

MapFails(c, mapped) ==
  /\ pc[c] = "map" /\ (AllArrived(c) => ~mapped)
  /\ CleanUp(c)
  /\ UNCHANGED <<daemonVars, backlog, attempts>>

\* plugin_deactivate: dsp_accel_sdk_disconnect
PluginDeactivate(c) ==
  /\ pc[c] \in {"hardware", "cpu"}
  /\ CloseAll(c) /\ Goto(c, "created")
  /\ UNCHANGED <<daemonVars, linkVars, attempts>>

\* plugin_destroy, which disconnects if plugin_deactivate has not.
PluginDestroy(c) ==
  /\ pc[c] \in {"created", "hardware", "cpu"}
  /\ CloseAll(c) /\ Goto(c, "gone")
  /\ UNCHANGED <<daemonVars, linkVars, attempts>>

ClientKilled(c) ==
  /\ pc[c] \notin {"gone", "crashed"}
  /\ Dies(c)
  /\ UNCHANGED <<daemonVars, backlog, attempts>>

-----------------------------------------------------------------------------
(* The daemon.  Only what fails with a client's connection open hangs up;   *)
(* a session stays open for good.                                          *)

Starting(ok) ==
  /\ daemon = "down" /\ starts < MaxStarts
  /\ starts' = starts + 1
  /\ daemon' = IF ok THEN "top" ELSE "down"
  /\ open' = IF ok THEN 1 ELSE 0
  /\ UNCHANGED <<stopping, serving, made, current, clientVars, linkVars>>

\* Its process ends: all connections are closed.
DaemonDies ==
  /\ daemon' = "down" /\ serving' = NoClient /\ open' = 0
  /\ stopping' = FALSE /\ current' = NoSession
  /\ backlog' = << >>
  /\ LET cut == {c \in Clients : c = serving \/ Contains(backlog, c)}
     IN  hungup' = [c \in Clients |-> hungup[c] \/ (c \in cut /\ pc[c] # "crashed")]

HandleSig ==
  /\ daemon # "down" /\ ~stopping
  /\ stopping' = TRUE
  /\ UNCHANGED <<daemon, starts, serving, open, made, current, clientVars, linkVars>>

LoopTop ==
  /\ daemon = "top" /\ ~stopping
  /\ daemon' = "accept"
  /\ UNCHANGED <<stopping, starts, serving, open, made, current, clientVars, linkVars>>

LoopEnds ==
  /\ daemon = "top" /\ stopping
  /\ DaemonDies
  /\ UNCHANGED <<starts, made, clientVars, hello, inbox>>

Accept ==
  /\ daemon = "accept" /\ backlog # << >> /\ open < MaxFds
  /\ daemon' = "meta" /\ serving' = Head(backlog) /\ open' = open + 1
  /\ backlog' = Tail(backlog)
  /\ UNCHANGED <<stopping, starts, made, current, clientVars, hello, inbox, hungup>>

\* No descriptor can be made for the connection (of the process, EMFILE, or of
\* the whole system, ENFILE), which stays in the backlog: continue.
AcceptFails ==
  /\ daemon = "accept" /\ backlog # << >>
  /\ daemon' = "top"
  /\ UNCHANGED <<stopping, starts, serving, open, made, current, clientVars, linkVars>>

\* mutant: the connection is closed once more by an owner of its own
CloseTwice ==
  /\ daemon' = "top" /\ serving' = NoClient /\ open' = open - 2
  /\ hungup' = [hungup EXCEPT ![serving] = pc[serving] # "crashed"]

\* mutant: the connection is not closed when something fails
KeepClient ==
  /\ daemon' = "top" /\ serving' = NoClient
  /\ UNCHANGED <<open, hungup>>

\* close(client_fd)
CloseClient ==
  /\ daemon' = "top" /\ serving' = NoClient /\ open' = open - 1
  /\ hungup' = [hungup EXCEPT ![serving] = pc[serving] # "crashed"]

RecvMeta ==
  /\ daemon = "meta" /\ hello[serving]
  /\ daemon' = "create"
  /\ hello' = [hello EXCEPT ![serving] = FALSE]
  /\ UNCHANGED <<stopping, starts, serving, open, made, current, clientVars,
                 backlog, inbox, hungup>>

RecvMetaFails ==
  /\ daemon = "meta" /\ ~hello[serving] /\ pc[serving] = "crashed"
  /\ CloseClient
  /\ UNCHANGED <<stopping, starts, made, current, clientVars, backlog, hello, inbox>>

MemfdFails ==
  /\ daemon = "create"
  /\ CloseClient
  /\ UNCHANGED <<stopping, starts, made, current, clientVars, backlog, hello, inbox>>

\* mutant: the descriptors come from a pool of one
Pooled(s, shm, missing) ==
  [shm |-> Fd(shm, 1),
   send |-> IF "send" \in missing THEN NoFd ELSE Fd("send", 1),
   recv |-> IF "recv" \in missing THEN NoFd ELSE Fd("recv", 1)]

\* The session: the memory and those of the two eventfds that could be made,
\* which nobody looks at.
NewSession(s, shm, missing) ==
  [shm |-> Fd(shm, s),
   send |-> IF "send" \in missing THEN NoFd ELSE Fd("send", s),
   recv |-> IF "recv" \in missing THEN NoFd ELSE Fd("recv", s)]

\* memfd_create, ftruncate, eventfd twice, mmap and memset.  Of these only the
\* first is checked.  Without its size, the memory cannot be cleared: the
\* daemon dies (SIGBUS), unless mmap failed as well.
CreateSession(missing, truncated, mapped) ==
  LET s == made + 1
      opened == 3 - Cardinality(missing)
  IN  /\ daemon = "create" /\ open + opened <= MaxFds
      /\ made' = s
      /\ IF ~truncated /\ mapped
         THEN DaemonDies
         ELSE /\ daemon' = "reply" /\ open' = open + opened
              /\ current' = NewSession(s, IF truncated THEN "shm" ELSE "empty", missing)
              /\ UNCHANGED <<stopping, serving, backlog, hungup>>
      /\ UNCHANGED <<starts, clientVars, hello, inbox>>

\* send or sendmsg to a client that is there; a descriptor of -1 is not sent.
Deliver(m) == inbox' = IF m = NoFd THEN inbox ELSE [inbox EXCEPT ![serving] = Append(@, m)]

\* What each of the four calls sends.
Sends == [reply |-> WorkerId, sendShm |-> current.shm,
          sendSend |-> current.send, sendRecv |-> current.recv]

Following == [reply |-> "sendShm", sendShm |-> "sendSend", sendSend |-> "sendRecv"]

Send(label) ==
  /\ daemon = label /\ pc[serving] # "crashed"
  /\ Deliver(Sends[label])
  /\ daemon' = Following[label]
  /\ UNCHANGED <<stopping, starts, serving, open, made, current, clientVars,
                 backlog, hello, hungup>>

\* The last descriptor and close(client_fd); the session is not closed.
SendLast ==
  /\ daemon = "sendRecv" /\ pc[serving] # "crashed"
  /\ Deliver(Sends["sendRecv"])
  /\ CloseClient
  /\ current' = NoSession
  /\ UNCHANGED <<stopping, starts, made, clientVars, backlog, hello>>

\* The client is gone: SIGPIPE ends the daemon.
SendFails ==
  /\ daemon \in {"reply", "sendShm", "sendSend", "sendRecv"}
  /\ pc[serving] = "crashed" /\ Sends[daemon] # NoFd
  /\ DaemonDies
  /\ UNCHANGED <<starts, made, clientVars, hello, inbox>>

\* Nothing to send to a client that is gone.
SendNothing ==
  /\ daemon \in {"sendSend", "sendRecv"}
  /\ pc[serving] = "crashed" /\ Sends[daemon] = NoFd
  /\ IF daemon = "sendRecv"
     THEN CloseClient /\ current' = NoSession
     ELSE daemon' = "sendRecv" /\ UNCHANGED <<serving, open, hungup, current>>
  /\ UNCHANGED <<stopping, starts, made, clientVars, backlog, hello, inbox>>

DaemonKilled ==
  /\ daemon # "down"
  /\ DaemonDies
  /\ UNCHANGED <<starts, made, clientVars, hello, inbox>>

-----------------------------------------------------------------------------
\* The steps of a call of dsp_accel_sdk_connect.
ConnectStep(c) ==
  \/ Connect(c) \/ ConnectRefused(c) \/ SendMeta(c) \/ SendMetaFails(c)
  \/ RecvId(c) \/ RecvIdFails(c)
  \/ RecvFd(c, "recvShm", "shm") \/ RecvFd(c, "recvSend", "send")
  \/ RecvFd(c, "recvRecv", "recv")
  \/ \E label \in {"recvShm", "recvSend", "recvRecv"} : RecvNoFd(c, label)
  \/ MapSession(c) \/ \E mapped \in BOOLEAN : MapFails(c, mapped)

HostStep(c) ==
  \/ CreatePlugin(c) \/ \E ok \in BOOLEAN : PluginActivate(c, ok)
  \/ PluginDeactivate(c) \/ PluginDestroy(c) \/ ClientKilled(c)

DaemonStep ==
  \/ LoopTop \/ LoopEnds \/ Accept \/ AcceptFails
  \/ RecvMeta \/ RecvMetaFails \/ MemfdFails
  \/ \E missing \in SUBSET {"send", "recv"}, truncated, mapped \in BOOLEAN :
       CreateSession(missing, truncated, mapped)
  \/ Send("reply") \/ Send("sendShm") \/ Send("sendSend") \/ SendLast
  \/ SendFails \/ SendNothing

Next ==
  \/ \E c \in Clients : ConnectStep(c) \/ HostStep(c)
  \/ DaemonStep
  \/ \E ok \in BOOLEAN : Starting(ok)
  \/ HandleSig \/ DaemonKilled

Spec == Init /\ [][Next]_vars

\* A thread in connect goes on when what it waits for is there, and so does the
\* daemon as long as it lives; accept does not fail for ever.
FairSpec ==
  /\ Spec /\ WF_vars(DaemonStep) /\ SF_vars(Accept)
  /\ \A c \in Clients : WF_vars(ConnectStep(c))

-----------------------------------------------------------------------------
(* Properties. *)

Roles == {"none", "sock", "id", "shm", "empty", "send", "recv"}
Fds == [role : Roles, session : Nat]

\* TypeOK: the variables have their types; the daemon stays within its table.
TypeOK ==
  /\ daemon \in {"down", "top", "accept", "meta", "create", "reply", "sendShm",
                 "sendSend", "sendRecv"}
  /\ stopping \in BOOLEAN /\ starts \in 0 .. MaxStarts
  /\ serving \in Clients \cup {NoClient}
  /\ backlog \in Seq(Clients) /\ open \in 0 .. MaxFds /\ made \in Nat
  /\ current \in [shm : Fds, send : Fds, recv : Fds]
  /\ pc \in [Clients -> {"gone", "created", "connect", "send", "recvId", "recvShm",
                         "recvSend", "recvRecv", "map", "hardware", "cpu", "crashed"}]
  /\ ctx \in [Clients -> [sock : Fds, shm : Fds, send : Fds, recv : Fds]]
  /\ fds \in [Clients -> SUBSET Fds] /\ hello \in [Clients -> BOOLEAN]
  /\ inbox \in [Clients -> Seq(Fds)] /\ hungup \in [Clients -> BOOLEAN]
  /\ attempts \in 0 .. MaxAttempts

\* ConnectedIsWhole: a plugin on the hardware path has the memory and both eventfds
\* of one session, each in its place, although the daemon skips what it
\* could not create and the stream does not say what a descriptor is.
ConnectedIsWhole ==
  \A c \in Clients : pc[c] = "hardware" =>
    \E s \in 1 .. made : /\ ctx[c].shm = Fd("shm", s)
                         /\ ctx[c].send = Fd("send", s) /\ ctx[c].recv = Fd("recv", s)

\* SessionIsOwn: no descriptor of a session is in two processes other than the
\* daemon, so each ring has one producer and one consumer there.
SessionIsOwn ==
  \A c, e \in Clients : c # e => fds[c] \cap fds[e] \subseteq {Sock}

\* NoneLost: whichever descriptors of a session have arrived and whichever step of
\* connect failed, the context names what its process has open, all of it and nothing
\* else, and each in one field only: so none is lost, and cleanup and
\* dsp_accel_sdk_disconnect close each of them once and nothing that is closed
\* already.  A plugin on the CPU path has at most the socket that found no daemon.
NoneLost ==
  \A c \in Clients :
    /\ fds[c] = Named(ctx[c])
    /\ \A f, g \in DOMAIN ctx[c] : f # g /\ ctx[c][f] = ctx[c][g] => ctx[c][f] = NoFd
    /\ pc[c] \in {"gone", "created", "crashed"} => fds[c] = {}
    /\ pc[c] = "cpu" => fds[c] \subseteq {Sock}

InConnect(c) ==
  pc[c] \in {"connect", "send", "recvId", "recvShm", "recvSend", "recvRecv", "map"}

\* RoomToAccept: the descriptors of past sessions, which are never closed, do not
\* keep the daemon from accepting: the connection a session was made on has
\* been given back, so it is memfd_create that fails, and the plugin is told.
RoomToAccept == daemon = "accept" => open < MaxFds

\* ConnectReturns: a call of dsp_accel_sdk_connect comes to an end, although neither
\* side has a timeout, either may die at any point and the daemon leaks every
\* session.
ConnectReturns == \A c \in Clients : InConnect(c) ~> ~InConnect(c)
=============================================================================
