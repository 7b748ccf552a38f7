------------------------------ MODULE SPSCRing ------------------------------
(***************************************************************************)
(* ShmSPSCRingBuffer of daemon/ipc/include/ipc_shm.hpp, one step per       *)
(* atomic load or store and per access to a slot.                          *)
(*                                                                         *)
(* head_ is stored only by the consumer and tail_ only by the producer, so *)
(* a relaxed load of one's own index returns its value, while an acquire   *)
(* load of the other side's index may return an older one: headSeen and    *)
(* tailSeen are the values that have reached the other process.  A slot    *)
(* that is being filled, or that was filled and not yet made visible by a  *)
(* release store of tail_, is in the set unpublished; reading it yields    *)
(* Garbage.                                                                *)
(***************************************************************************)
EXTENDS Integers, Sequences

CONSTANTS Capacity,  \* the template argument: number of slots
          Values,    \* what a slot can hold
          Garbage    \* a torn, stale or uninitialised slot

ASSUME CapacityAssumption == Capacity \in Nat \ {0}
ASSUME GarbageAssumption == Garbage \notin Values

VARIABLES
  head, tail,        \* head_ and tail_
  headSeen,          \* head_ as a load by the producer returns it
  tailSeen,          \* tail_ as a load by the consumer returns it
  data,              \* data_
  unpublished,       \* slots whose contents the consumer cannot rely on
  ppc, pkind, item,  \* the producer: where it is, in which call, its argument
  ptail,             \* current_tail of that call
  cpc, ckind,        \* the consumer: where it is, in which call
  chead,             \* current_head of that call
  got,               \* what it has copied out of the slot so far
  out                \* the last item handed to the consumer's caller

prodVars == <<ppc, pkind, item, ptail>>
consVars == <<cpc, ckind, chead, got, out>>
vars == <<head, tail, headSeen, tailSeen, data, unpublished, prodVars, consVars>>

Slots == 0 .. Capacity - 1

\* mutant: the index is not wrapped
SuccNoWrap(i) == i + 1

\* (index + 1) % Capacity
Succ(i) == (i + 1) % Capacity

Init ==
  /\ head = 0 /\ tail = 0 /\ headSeen = 0 /\ tailSeen = 0
  /\ data = [s \in Slots |-> Garbage]
  /\ unpublished = {}
  /\ ppc = "idle" /\ pkind = "push" /\ item = Garbage /\ ptail = 0
  /\ cpc = "idle" /\ ckind = "pop" /\ chead = 0 /\ got = Garbage /\ out = Garbage

-----------------------------------------------------------------------------
(* The producer: push(item), or reserve_write(), the caller filling the    *)
(* slot it was given, and commit_write().                                  *)

ProducerCall(kind, v) ==
  /\ ppc = "idle"
  /\ ppc' = "check" /\ pkind' = kind /\ item' = v /\ ptail' = tail
  /\ UNCHANGED <<head, tail, headSeen, tailSeen, data, unpublished, consVars>>

\* mutants: the full test is missing; equal indices count as full
NeverFull(t) == FALSE
FullWhenEqual(t) == Succ(t) = headSeen \/ t = headSeen

\* next_tail == head_.load(acquire): full, the call returns false or nullptr.
IsFull(t) == Succ(t) = headSeen

CheckFull ==
  /\ ppc = "check"
  /\ ppc' = IF IsFull(ptail) THEN "idle" ELSE "write"
  /\ UNCHANGED <<head, tail, headSeen, tailSeen, data, unpublished,
                 pkind, item, ptail, consVars>>

\* The first store into the slot: from here on its contents are in flux.
BeginWrite ==
  /\ ppc = "write"
  /\ ppc' = "fill"
  /\ data' = [data EXCEPT ![ptail] = Garbage]
  /\ unpublished' = unpublished \cup {ptail}
  /\ UNCHANGED <<head, tail, headSeen, tailSeen, pkind, item, ptail, consVars>>

EndWrite ==
  /\ ppc = "fill"
  /\ ppc' = "publish"
  /\ data' = [data EXCEPT ![ptail] = item]
  /\ UNCHANGED <<head, tail, headSeen, tailSeen, unpublished,
                 pkind, item, ptail, consVars>>

\* push stores the next_tail it computed, commit_write loads tail_ again.
NewTail == IF pkind = "push" THEN Succ(ptail) ELSE Succ(tail)

\* mutant: memory_order_relaxed on the store of tail_
PublishTailRelaxed ==
  /\ ppc = "publish"
  /\ ppc' = "idle"
  /\ tail' = NewTail
  /\ UNCHANGED <<head, headSeen, tailSeen, data, unpublished,
                 pkind, item, ptail, consVars>>

\* tail_.store(release): every earlier store of the producer is visible to
\* a consumer that sees the new tail_.
PublishTail ==
  /\ ppc = "publish"
  /\ ppc' = "idle"
  /\ tail' = NewTail
  /\ unpublished' = {}
  /\ UNCHANGED <<head, headSeen, tailSeen, data, pkind, item, ptail, consVars>>

-----------------------------------------------------------------------------
(* The consumer: pop(out_item), or peek_read(), the caller using the slot  *)
(* in place, and commit_read().                                            *)

ConsumerCall(kind) ==
  /\ cpc = "idle"
  /\ cpc' = "check" /\ ckind' = kind /\ chead' = head
  /\ UNCHANGED <<head, tail, headSeen, tailSeen, data, unpublished,
                 prodVars, got, out>>

\* mutants: the empty test is missing; a single item counts as none
NeverEmpty(h) == FALSE
EmptyWithOne(h) == h = tailSeen \/ Succ(h) = tailSeen

\* current_head == tail_.load(acquire): empty, the call returns.
IsEmpty(h) == h = tailSeen

CheckEmpty ==
  /\ cpc = "check"
  /\ cpc' = IF IsEmpty(chead) THEN "idle" ELSE "read"
  /\ UNCHANGED <<head, tail, headSeen, tailSeen, data, unpublished,
                 prodVars, ckind, chead, got, out>>

\* What a read of slot s returns now.
Contents(s) == IF s \in unpublished THEN Garbage ELSE data[s]

BeginRead ==
  /\ cpc = "read"
  /\ cpc' = "copy"
  /\ got' = Contents(chead)
  /\ UNCHANGED <<head, tail, headSeen, tailSeen, data, unpublished,
                 prodVars, ckind, chead, out>>

\* A slot that changed under the copy was read torn.
EndRead ==
  /\ cpc = "copy"
  /\ cpc' = "commit"
  /\ got' = IF Contents(chead) = got THEN got ELSE Garbage
  /\ UNCHANGED <<head, tail, headSeen, tailSeen, data, unpublished,
                 prodVars, ckind, chead, out>>

\* mutant: the read index jumps to the write index
NewHeadAtTail == tailSeen

\* pop advances the index it loaded first, commit_read loads head_ again.
NewHead == IF ckind = "pop" THEN Succ(chead) ELSE Succ(head)

\* head_.store(release)
ReleaseHead ==
  /\ cpc = "commit"
  /\ cpc' = "idle"
  /\ head' = NewHead
  /\ out' = got
  /\ UNCHANGED <<tail, headSeen, tailSeen, data, unpublished,
                 prodVars, ckind, chead, got>>

-----------------------------------------------------------------------------
(* The memory system brings a store of one process to the other.           *)

HeadBecomesVisible ==
  /\ headSeen # head
  /\ headSeen' = head
  /\ UNCHANGED <<head, tail, tailSeen, data, unpublished, prodVars, consVars>>

TailBecomesVisible ==
  /\ tailSeen # tail
  /\ tailSeen' = tail
  /\ UNCHANGED <<head, tail, headSeen, data, unpublished, prodVars, consVars>>

ProducerStep == CheckFull \/ BeginWrite \/ EndWrite \/ PublishTail
ConsumerStep == CheckEmpty \/ BeginRead \/ EndRead \/ ReleaseHead

Next ==
  \/ \E kind \in {"push", "reserve_write"}, v \in Values : ProducerCall(kind, v)
  \/ ProducerStep
  \/ \E kind \in {"pop", "peek_read"} : ConsumerCall(kind)
  \/ ConsumerStep
  \/ HeadBecomesVisible
  \/ TailBecomesVisible

Spec == Init /\ [][Next]_vars

\* Both sides finish the calls they start, the consumer keeps calling (the
\* worker drains its buses in every iteration of its loop, worker.cpp:232
\* and 299), and a store reaches the other process in finite time.
Fairness ==
  /\ WF_vars(ProducerStep)
  /\ WF_vars(ConsumerStep)
  /\ WF_vars(\E kind \in {"pop", "peek_read"} : ConsumerCall(kind))
  /\ WF_vars(HeadBecomesVisible)
  /\ WF_vars(TailBecomesVisible)

FairSpec == Spec /\ Fairness

-----------------------------------------------------------------------------
(* Properties. *)

\* How many times an index moves on from a to reach b.
Dist(a, b) == IF a <= b THEN b - a ELSE b - a + Capacity

\* The slot n places after a.
Ahead(a, n) == IF a + n < Capacity THEN a + n ELSE a + n - Capacity

\* The slots that hold items: from head_ up to tail_.
Occupied(s) == Dist(head, s) < Dist(head, tail)

\* TypeOK: the indices stay inside data_, and every local of a call has a
\* value of its type.
TypeOK ==
  /\ head \in Slots /\ tail \in Slots /\ headSeen \in Slots /\ tailSeen \in Slots
  /\ data \in [Slots -> Values \cup {Garbage}]
  /\ unpublished \in SUBSET Slots
  /\ ppc \in {"idle", "check", "write", "fill", "publish"}
  /\ pkind \in {"push", "reserve_write"}
  /\ item \in Values \cup {Garbage} /\ ptail \in Slots
  /\ cpc \in {"idle", "check", "read", "copy", "commit"}
  /\ ckind \in {"pop", "peek_read"}
  /\ chead \in Slots
  /\ got \in Values \cup {Garbage} /\ out \in Values \cup {Garbage}

\* SlotExclusion: the producer never stores into the slot that the consumer
\* is reading (or, after peek_read, is processing in place), although each
\* decides from a possibly outdated copy of the other's index.
SlotExclusion ==
  ~ /\ ppc \in {"write", "fill", "publish"}
    /\ cpc \in {"read", "copy", "commit"}
    /\ ptail = chead

\* IndexOrder: going around the ring one meets the head_ the producer knows,
\* then head_, then the tail_ the consumer knows, then tail_, and never a
\* full turn: an outdated index makes a side wait, it never lets tail_
\* overtake head_ or head_ overtake tail_.
IndexOrder ==
  /\ Dist(headSeen, head) + Dist(head, tail) = Dist(headSeen, tail)
  /\ Dist(head, tailSeen) + Dist(tailSeen, tail) = Dist(head, tail)

\* OccupiedIntact: every slot between head_ and tail_ holds a whole item that
\* the consumer may read; a call that fails or that is still filling its
\* slot has not disturbed any of them.
OccupiedIntact ==
  \A s \in Slots : Occupied(s) => s \notin unpublished /\ data[s] \in Values

(* The inductive invariant: IndexOrder with what the locals of a call in    *)
(* progress say about the shared indices.                                  *)

ProducerOK ==
  /\ ppc # "idle" => ptail = tail /\ item \in Values
  /\ ppc \in {"write", "fill", "publish"} => Dist(headSeen, tail) < Capacity - 1
  /\ unpublished = IF ppc \in {"fill", "publish"} THEN {tail} ELSE {}
  /\ ppc = "publish" => data[tail] = item

ConsumerOK ==
  /\ cpc # "idle" => chead = head
  /\ cpc \in {"read", "copy", "commit"} => head # tailSeen
  /\ cpc \in {"copy", "commit"} => got = data[head]

ItemsOK == \A s \in Slots : Occupied(s) => data[s] \in Values

\* RingInv: what every step of either side preserves: a call past its check
\* still has the free slot, or the item, that the check found.
RingInv == TypeOK /\ IndexOrder /\ ProducerOK /\ ConsumerOK /\ ItemsOK

\* The contents of the ring, oldest first.
Queue == [n \in 1 .. Dist(head, tail) |-> data[Ahead(head, n - 1)]]

\* ImplementsFifo: push and pop, or reserve/commit and peek/commit, are a FIFO
\* of Capacity - 1 items: nothing is lost, duplicated, reordered or torn, and
\* the one slot kept free is what tells a full ring from an empty one.
Fifo == INSTANCE BoundedFifo WITH
          q <- Queue, out <- out, Limit <- Capacity - 1, NoItem <- Garbage

ImplementsFifo == Fifo!FifoSpec

\* EveryItemIsTaken: an item that was published is popped in the end, however
\* long the two views of the indices lag behind.
EveryItemIsTaken == \A s \in Slots : Occupied(s) ~> ~Occupied(s)

\* FullIsNotForever: while the consumer keeps calling, the producer does not
\* keep finding the ring full: it gets to see a free slot.
FullIsNotForever == IsFull(tail) ~> ~IsFull(tail)
=============================================================================
