----------------------------- MODULE RemoteNode -----------------------------
(***************************************************************************)
(* RemoteDspNode (daemon/network_node.hpp) sending audio over UDP to a     *)
(* NetworkServerNode (daemon/network_server_node.hpp), which echoes every  *)
(* audio frame under the sequence_id it came with; the receive thread puts *)
(* the frames back in order in a jitter buffer and pushes them to          *)
(* out_queue.                                                              *)
(*                                                                         *)
(* A packet is known by n, how many packets the node had sent before it;   *)
(* on the wire it carries n modulo SeqRange.                               *)
(***************************************************************************)
EXTENDS Integers, Sequences, FiniteSetsExt

CONSTANTS SeqRange,    \* sequence ids are uint32_t: 2^32
          Window,      \* JITTER_WINDOW
          Depth,       \* IPC_QUEUE_DEPTH
          Lossy,       \* the network may lose and duplicate packets
          MaxAge,      \* bound: a packet survives while at most MaxAge newer are sent
          MaxPackets   \* bound: packets the node sends

ASSUME WindowAssumption ==
  /\ SeqRange \in Nat /\ Window \in Nat \ {0}
  /\ SeqRange % Window = 0 /\ SeqRange >= 4 * Window
ASSUME NetworkAssumption ==
  /\ Depth \in Nat /\ Depth >= 2 /\ Lossy \in BOOLEAN
  /\ MaxAge \in Nat /\ MaxPackets \in Nat

VARIABLES
  node,        \* "new", "active", "closing" (in the destructor) or "closed"
  rx,          \* the receive thread: "none", "check", "recv" or "done"
  sent,        \* packets sent; seq_id = sent % SeqRange
  attached,    \* shm_ptr_ is set
  up, down,    \* packets on their way to the server and back
  expected,    \* expected_seq_id
  jitter,      \* jitter_buffer and jitter_mask: the packet in a slot, or Empty
  outQueue,    \* out_queue, packet numbers, oldest first
  drained      \* history: packets taken out of the jitter buffer, in order

nodeVars == <<node, rx, sent, attached>>
rxVars == <<expected, jitter, outQueue, drained>>
vars == <<nodeVars, up, down, rxVars>>

Empty == -1
Slots == 0 .. Window - 1
SeqId(n) == n % SeqRange

Init ==
  /\ node = "new" /\ rx = "none" /\ sent = 0 /\ attached = FALSE
  /\ up = {} /\ down = {}
  /\ expected = 0 /\ jitter = [s \in Slots |-> Empty]
  /\ outQueue = << >> /\ drained = << >>

\* A packet stays in flight while at most MaxAge newer ones are sent.
Alive(packets) == {p \in packets : sent - p.n <= MaxAge}

\* send_packet: every packet, whatever its type, takes the next sequence id.
SendPacket(type) ==
  /\ sent < MaxPackets
  /\ sent' = sent + 1
  /\ up' = Alive(up) \cup {[n |-> sent, type |-> type]}
  /\ down' = Alive(down)

\* init: start the receive thread, send the handshake.  (Without a socket it returns
\* false and the node stays as it is.)
InitNode ==
  /\ node = "new"
  /\ node' = "active" /\ rx' = "check"
  /\ SendPacket("HANDSHAKE")
  /\ UNCHANGED <<attached, rxVars>>

\* set_shm_ptr
SetShmPtr ==
  /\ node \in {"new", "active"} /\ ~attached
  /\ attached' = TRUE
  /\ UNCHANGED <<node, rx, sent, up, down, rxVars>>

ProcessStage ==
  /\ node = "active"
  /\ SendPacket("AUDIO_FRAME")
  /\ UNCHANGED <<node, rx, attached, rxVars>>

ApplyControlEvent ==
  /\ node = "active"
  /\ SendPacket("CONTROL_EVENT")
  /\ UNCHANGED <<node, rx, attached, rxVars>>

\* The destructor clears active and joins the receive thread, which looks at
\* active only when recv() has returned; there is none if init has not run.
BeginDestroy ==
  /\ node \in {"new", "active"}
  /\ node' = "closing"
  /\ UNCHANGED <<rx, sent, attached, up, down, rxVars>>

Joined ==
  /\ node = "closing" /\ rx \in {"none", "done"}
  /\ node' = "closed"
  /\ UNCHANGED <<rx, sent, attached, up, down, rxVars>>

-----------------------------------------------------------------------------
(* UDP: packets of a set arrive in any order.                              *)

\* What is left in flight after p was delivered: a lossy network may have
\* duplicated it (on the way back: a duplicate on the way there only makes the
\* server answer twice).
Rest(packets, p) ==
  {packets \ {p}} \cup (IF Lossy THEN {packets} ELSE {})

LoseUp(p) ==
  /\ Lossy
  /\ up' = up \ {p}
  /\ UNCHANGED <<nodeVars, down, rxVars>>

LoseDown(p) ==
  /\ Lossy
  /\ down' = down \ {p}
  /\ UNCHANGED <<nodeVars, up, rxVars>>

\* The server's loop: an audio frame is processed and sent back with the same
\* sequence id, a handshake is answered, a control event is ignored.
ServerReceive(p) ==
  /\ up' = up \ {p}
  /\ down' = down \cup CASE p.type = "AUDIO_FRAME" -> {p}
                         [] p.type = "HANDSHAKE" -> {[p EXCEPT !.type = "KEEPALIVE"]}
                         [] OTHER -> {}
  /\ UNCHANGED <<nodeVars, rxVars>>

-----------------------------------------------------------------------------
(* receive_loop. *)

\* (int32_t)(sequence_id - expected_seq_id)
Diff(seq) ==
  LET d == (seq - expected) % SeqRange
  IN  IF d < SeqRange \div 2 THEN d ELSE d - SeqRange

\* mutant: a late duplicate is not told from a new packet
AnySeq(seq) == TRUE

InWindow(seq) == Diff(seq) >= 0 /\ Diff(seq) < Window

\* mutant: a packet outside the window starts the buffer anew
StoredOrReset(n) ==
  IF InWindow(SeqId(n))
  THEN [jitter EXCEPT ![SeqId(n) % Window] = n]
  ELSE [s \in Slots |-> Empty]

\* The jitter buffer after packet n has been stored, or rejected.
Stored(n) ==
  IF InWindow(SeqId(n))
  THEN [jitter EXCEPT ![SeqId(n) % Window] = n]
  ELSE jitter

\* The slot of frame i after the expected one.
Due(i) == (expected + i) % Window

\* mutant: at most one frame is drained per packet
ReadyOne(buf, k) == k = IF buf[Due(0)] # Empty THEN 1 ELSE 0

\* The slots from expected_seq_id on are filled up to the k-th.
Ready(buf, k) ==
  /\ \A i \in 0 .. k - 1 : buf[Due(i)] # Empty
  /\ k < Window => buf[Due(k)] = Empty

\* mutant: the ring has no full test
PushAllUnchecked(queue, items) == queue \o items

\* push ignores what does not fit into the ring.
PushAll(queue, items) ==
  queue \o SubSeq(items, 1, Min({Len(items), Depth - 1 - Len(queue)}))

ReceiveAudio(p) ==
  \E k \in 0 .. Window :
    LET buf == Stored(p.n)
        run == [i \in 1 .. k |-> buf[Due(i - 1)]]
    IN  /\ Ready(buf, k)
        /\ jitter' = [s \in Slots |-> IF \E i \in 0 .. k - 1 : s = Due(i)
                                      THEN Empty ELSE buf[s]]
        /\ expected' = (expected + k) % SeqRange
        /\ outQueue' = PushAll(outQueue, run)
        /\ drained' = drained \o run

\* while (active)
CheckActive ==
  /\ rx = "check"
  /\ rx' = IF node = "active" THEN "recv" ELSE "done"
  /\ UNCHANGED <<node, sent, attached, up, down, rxVars>>

\* recv() returns a packet: an audio frame for the shared memory, or one that is not
\* looked at further.
ClientReceive(p) ==
  /\ rx = "recv"
  /\ down' \in Rest(down, p)
  /\ rx' = "check"
  /\ IF p.type = "AUDIO_FRAME" /\ attached THEN ReceiveAudio(p) ELSE UNCHANGED rxVars
  /\ UNCHANGED <<node, sent, attached, up>>

\* recv() fails, or returns less than a header or one without the magic number.
ReceiveJunk ==
  /\ rx = "recv"
  /\ rx' = "check"
  /\ UNCHANGED <<node, sent, attached, up, down, rxVars>>

\* The plugin takes a frame out of out_queue.
PluginTakes ==
  /\ outQueue # << >>
  /\ outQueue' = Tail(outQueue)
  /\ UNCHANGED <<nodeVars, up, down, expected, jitter, drained>>

-----------------------------------------------------------------------------
Send == InitNode \/ ProcessStage \/ ApplyControlEvent
Network == (\E p \in up : LoseUp(p)) \/ (\E p \in down : LoseDown(p))
Server == \E p \in up : ServerReceive(p)
Receive == \E p \in down : ClientReceive(p)
Client == CheckActive \/ Receive \/ ReceiveJunk

Next ==
  \/ Send \/ SetShmPtr \/ BeginDestroy \/ Joined
  \/ Network \/ Server \/ Client \/ PluginTakes

Spec == Init /\ [][Next]_vars

\* Both loops keep receiving what the network delivers, junk in between or not.
FairSpec == Spec /\ WF_vars(Server) /\ WF_vars(CheckActive) /\ SF_vars(Receive)

-----------------------------------------------------------------------------
(* Properties. *)

Types == {"HANDSHAKE", "AUDIO_FRAME", "CONTROL_EVENT", "KEEPALIVE"}
Packets == [n : 0 .. MaxPackets - 1, type : Types]

\* TypeOK: the variables have their types; out_queue never holds more than
\* Depth - 1 frames although the receive thread pushes without looking.
TypeOK ==
  /\ node \in {"new", "active", "closing", "closed"}
  /\ rx \in {"none", "check", "recv", "done"}
  /\ sent \in 0 .. MaxPackets /\ attached \in BOOLEAN /\ up \subseteq Packets /\ down \subseteq Packets
  /\ expected \in 0 .. SeqRange - 1
  /\ jitter \in [Slots -> 0 .. MaxPackets - 1 \cup {Empty}]
  /\ outQueue \in Seq(0 .. MaxPackets - 1) /\ Len(outQueue) < Depth
  /\ drained \in Seq(0 .. MaxPackets - 1)

\* BufferInWindow: a slot of the jitter buffer holds a frame of that slot which
\* is at most Window - 1 ahead of expected_seq_id: neither a late duplicate nor
\* a frame of the next turn of the buffer can take a frame's place.
BufferInWindow ==
  \A s \in Slots : jitter[s] # Empty =>
    /\ SeqId(jitter[s]) % Window = s
    /\ (SeqId(jitter[s]) - expected) % SeqRange < Window

\* GapFree: the frames handed on carry consecutive sequence ids, across the
\* wrap-around, whatever the network loses, duplicates or reorders, and the
\* frame due next is never left waiting in the buffer.
GapFree ==
  /\ \A i \in 1 .. Len(drained) : SeqId(drained[i]) = (i - 1) % SeqRange
  /\ expected = Len(drained) % SeqRange
  /\ jitter[expected % Window] = Empty

\* HeldUntilDue: a frame that waits in the jitter buffer leaves it only by being handed
\* on; until then nothing but another copy with its sequence id takes its place, however
\* late, often or far ahead other packets come.
HeldUntilDue ==
  [][\A s \in Slots : jitter[s] # Empty =>
       \/ jitter'[s] # Empty /\ SeqId(jitter'[s]) = SeqId(jitter[s])
       \/ \E i \in Len(drained) + 1 .. Len(drained') : SeqId(drained'[i]) = SeqId(jitter[s])
    ]_vars

\* EchoIsDelivered: over a network that loses nothing, once a frame has come
\* back from the server to a node that has its shared memory, some frame is
\* handed on to the plugin, unless the node is destroyed first.
EchoIsDelivered ==
  (attached /\ \E p \in down : p.type = "AUDIO_FRAME") ~>
    (drained # << >> \/ node \in {"closing", "closed"})
=============================================================================
