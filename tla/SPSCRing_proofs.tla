--------------------------- MODULE SPSCRing_proofs ---------------------------
(***************************************************************************)
(* The ring is correct for every capacity and every set of items.          *)
(***************************************************************************)
EXTENDS SPSCRing, TLAPS, SequenceTheorems

\* SuccInSlots: (index + 1) % Capacity steps from slot to slot and wraps at
\* the end of data_.
LEMMA SuccInSlots ==
  ASSUME NEW i \in Slots
  PROVE  /\ Succ(i) \in Slots
         /\ Succ(i) = IF i = Capacity - 1 THEN 0 ELSE i + 1
<1>1. CASE i = Capacity - 1
  BY <1>1, CapacityAssumption, SMT DEF Slots, Succ
<1>2. CASE i # Capacity - 1
  BY <1>2, CapacityAssumption, SMT DEF Slots, Succ
<1> QED BY <1>1, <1>2

\* DistRange: the distance between two slots is less than a full turn.
LEMMA DistRange ==
  ASSUME NEW a \in Slots, NEW b \in Slots
  PROVE  Dist(a, b) \in Slots /\ (Dist(a, b) = 0 <=> a = b)
BY CapacityAssumption DEF Slots, Dist

\* TypeCorrect: the indices of the ring never leave data_.
THEOREM TypeCorrect == Spec => []TypeOK
<1>1. Init => TypeOK
  BY CapacityAssumption DEF Init, TypeOK, Slots
<1>2. TypeOK /\ [Next]_vars => TypeOK'
  <2> SUFFICES ASSUME TypeOK, [Next]_vars PROVE TypeOK'
    OBVIOUS
  <2> USE DEF TypeOK
  <2>1. ASSUME NEW kind \in {"push", "reserve_write"}, NEW v \in Values,
               ProducerCall(kind, v)
        PROVE  TypeOK'
    BY <2>1 DEF ProducerCall, consVars
  <2>2. CASE CheckFull
    BY <2>2 DEF CheckFull, consVars
  <2>3. CASE BeginWrite
    BY <2>3 DEF BeginWrite, consVars
  <2>4. CASE EndWrite
    BY <2>4 DEF EndWrite, consVars
  <2>5. CASE PublishTail
    BY <2>5, SuccInSlots DEF PublishTail, NewTail, consVars
  <2>6. ASSUME NEW kind \in {"pop", "peek_read"}, ConsumerCall(kind)
        PROVE  TypeOK'
    BY <2>6 DEF ConsumerCall, prodVars
  <2>7. CASE CheckEmpty
    BY <2>7 DEF CheckEmpty, prodVars
  <2>8. CASE BeginRead
    BY <2>8 DEF BeginRead, Contents, prodVars
  <2>9. CASE EndRead
    BY <2>9 DEF EndRead, prodVars
  <2>10. CASE ReleaseHead
    BY <2>10, SuccInSlots DEF ReleaseHead, NewHead, prodVars
  <2>11. CASE HeadBecomesVisible
    BY <2>11 DEF HeadBecomesVisible, prodVars, consVars
  <2>12. CASE TailBecomesVisible
    BY <2>12 DEF TailBecomesVisible, prodVars, consVars
  <2>13. CASE UNCHANGED vars
    BY <2>13 DEF vars, prodVars, consVars
  <2> QED
    BY <2>1, <2>2, <2>3, <2>4, <2>5, <2>6, <2>7, <2>8, <2>9, <2>10, <2>11,
       <2>12, <2>13 DEF Next, ProducerStep, ConsumerStep
<1> QED BY <1>1, <1>2, PTL DEF Spec

-----------------------------------------------------------------------------
\* DistSucc: moving the far index on by one adds one to the distance, moving
\* the near index takes one off.
LEMMA DistSucc ==
  ASSUME NEW a \in Slots, NEW b \in Slots
  PROVE  /\ Dist(a, b) < Capacity - 1 => Dist(a, Succ(b)) = Dist(a, b) + 1
         /\ a # b => Dist(Succ(a), b) = Dist(a, b) - 1
BY CapacityAssumption, SuccInSlots DEF Slots, Dist

\* FullMeansNoRoom: the test of push and reserve_write lets through exactly
\* the states where the producer knows of a slot to spare.
LEMMA FullMeansNoRoom ==
  ASSUME NEW a \in Slots, NEW b \in Slots
  PROVE  Succ(b) # a <=> Dist(a, b) < Capacity - 1
BY CapacityAssumption, SuccInSlots DEF Slots, Dist

\* ChainShorter: of three indices in ring order, the inner distances are
\* bounded by the outer one, strictly when the other part is not empty.
LEMMA ChainShorter ==
  ASSUME NEW a \in Slots, NEW b \in Slots, NEW c \in Slots,
         Dist(a, b) + Dist(b, c) = Dist(a, c)
  PROVE  /\ Dist(b, c) <= Dist(a, c)
         /\ b # c => Dist(a, b) < Capacity - 1
         /\ a # b => a # c
         /\ Dist(a, c) < Capacity - 1 => Dist(b, c) < Capacity - 1
BY CapacityAssumption DEF Slots, Dist

\* RingInvariant: RingInv holds in every reachable state.
THEOREM RingInvariant == Spec => []RingInv
<1> USE CapacityAssumption
<1>1. Init => RingInv
  BY DEF Init, RingInv, TypeOK, IndexOrder, ProducerOK, ConsumerOK, ItemsOK,
      Occupied, Dist, Slots
<1>2. RingInv /\ TypeOK' /\ [Next]_vars => RingInv'
  <2> SUFFICES ASSUME RingInv, TypeOK', [Next]_vars
               PROVE  (IndexOrder /\ ProducerOK /\ ConsumerOK /\ ItemsOK)'
    BY DEF RingInv
  <2>0. TypeOK /\ IndexOrder /\ ProducerOK /\ ConsumerOK /\ ItemsOK
    BY DEF RingInv
  <2>1. ASSUME NEW kind \in {"push", "reserve_write"}, NEW v \in Values,
               ProducerCall(kind, v)
        PROVE  (IndexOrder /\ ProducerOK /\ ConsumerOK /\ ItemsOK)'
    BY <2>0, <2>1
    DEF ProducerCall, consVars, IndexOrder, ProducerOK, ConsumerOK, ItemsOK,
        Occupied, Dist
  <2>2. CASE CheckFull
    <3>1. Dist(headSeen, tail) < Capacity - 1 \/ Succ(tail) = headSeen
      BY <2>0, FullMeansNoRoom DEF TypeOK
    <3> QED
      BY <2>0, <2>2, <3>1
      DEF CheckFull, IsFull, consVars, IndexOrder, ProducerOK, ConsumerOK,
          ItemsOK, Occupied, Dist
  <2>3. CASE BeginWrite
    <3>1. ~Occupied(tail) /\ (cpc \in {"copy", "commit"} => head # tail)
      BY <2>0 DEF Occupied, TypeOK, IndexOrder, ConsumerOK, Dist, Slots
    <3>2. (IndexOrder /\ ProducerOK)'
      BY <2>0, <2>3 DEF BeginWrite, IndexOrder, ProducerOK, Dist, TypeOK
    <3>3. (ConsumerOK /\ ItemsOK)'
      BY <2>0, <2>3, <3>1
      DEF BeginWrite, consVars, ConsumerOK, ItemsOK, ProducerOK, Occupied,
          Dist, TypeOK
    <3> QED BY <3>2, <3>3
  <2>4. CASE EndWrite
    <3>1. ~Occupied(tail) /\ (cpc \in {"copy", "commit"} => head # tail)
      BY <2>0 DEF Occupied, TypeOK, IndexOrder, ConsumerOK, Dist, Slots
    <3>2. (IndexOrder /\ ProducerOK)'
      BY <2>0, <2>4 DEF EndWrite, IndexOrder, ProducerOK, Dist, TypeOK
    <3>3. (ConsumerOK /\ ItemsOK)'
      BY <2>0, <2>4, <3>1
      DEF EndWrite, consVars, ConsumerOK, ItemsOK, ProducerOK, Occupied,
          Dist, TypeOK
    <3> QED BY <3>2, <3>3
  <2>5. CASE PublishTail
    <3>1. /\ tail' = Succ(tail) /\ Dist(headSeen, tail) < Capacity - 1
          /\ data[tail] \in Values
      BY <2>0, <2>5 DEF PublishTail, NewTail, ProducerOK
    <3>2. /\ Dist(headSeen, tail') = Dist(headSeen, tail) + 1
          /\ Dist(head, tail') = Dist(head, tail) + 1
          /\ Dist(tailSeen, tail') = Dist(tailSeen, tail) + 1
      <4>1. Dist(head, tail) < Capacity - 1
        BY <2>0, <3>1, ChainShorter DEF TypeOK, IndexOrder
      <4>2. Dist(tailSeen, tail) < Capacity - 1
        BY <2>0, <4>1, ChainShorter DEF TypeOK, IndexOrder
      <4> QED BY <2>0, <3>1, <4>1, <4>2, DistSucc DEF TypeOK
    <3>3. (IndexOrder /\ ProducerOK)'
      BY <2>0, <2>5, <3>2
      DEF PublishTail, IndexOrder, ProducerOK, TypeOK, Slots, Dist
    <3>4. ConsumerOK'
      BY <2>0, <2>5 DEF PublishTail, consVars, ConsumerOK
    <3>5. ASSUME NEW s \in Slots, Occupied(s)'
          PROVE  data'[s] \in Values
      <4>1. Dist(head, s) < Dist(head, tail) \/ Dist(head, s) = Dist(head, tail)
        BY <2>0, <2>5, <3>2, <3>5
        DEF PublishTail, Occupied, TypeOK, Slots, Dist
      <4>2. Dist(head, s) = Dist(head, tail) => s = tail
        BY <2>0 DEF TypeOK, Slots, Dist
      <4> QED BY <2>0, <2>5, <3>1, <4>1, <4>2 DEF PublishTail, ItemsOK, Occupied
    <3> QED BY <3>3, <3>4, <3>5 DEF ItemsOK
  <2>6. ASSUME NEW kind \in {"pop", "peek_read"}, ConsumerCall(kind)
        PROVE  (IndexOrder /\ ProducerOK /\ ConsumerOK /\ ItemsOK)'
    BY <2>0, <2>6
    DEF ConsumerCall, prodVars, IndexOrder, ProducerOK, ConsumerOK, ItemsOK,
        Occupied, Dist
  <2>7. CASE CheckEmpty
    BY <2>0, <2>7
    DEF CheckEmpty, IsEmpty, prodVars, IndexOrder, ProducerOK, ConsumerOK,
        ItemsOK, Occupied, Dist
  <2>8. CASE BeginRead
    <3>1. head \notin unpublished
      BY <2>0, <2>8
      DEF BeginRead, TypeOK, IndexOrder, ProducerOK, ConsumerOK, Dist, Slots
    <3> QED
      BY <2>0, <2>8, <3>1
      DEF BeginRead, Contents, prodVars, IndexOrder, ProducerOK, ConsumerOK,
          ItemsOK, Occupied, Dist
  <2>9. CASE EndRead
    <3>1. head \notin unpublished
      BY <2>0, <2>9
      DEF EndRead, TypeOK, IndexOrder, ProducerOK, ConsumerOK, Dist, Slots
    <3> QED
      BY <2>0, <2>9, <3>1
      DEF EndRead, Contents, prodVars, IndexOrder, ProducerOK, ConsumerOK,
          ItemsOK, Occupied, Dist
  <2>10. CASE ReleaseHead
    <3>1. head' = Succ(head) /\ head # tailSeen
      BY <2>0, <2>10 DEF ReleaseHead, NewHead, ConsumerOK
    <3>2. head # tail
      BY <2>0, <3>1 DEF TypeOK, IndexOrder, Slots, Dist
    <3>3. /\ Dist(head', tail) = Dist(head, tail) - 1
          /\ Dist(head', tailSeen) = Dist(head, tailSeen) - 1
      BY <2>0, <3>1, <3>2, DistSucc DEF TypeOK
    <3>4. Dist(headSeen, head') = Dist(headSeen, head) + 1
      <4>1. Dist(headSeen, head) < Capacity - 1
        BY <2>0, <3>2, ChainShorter DEF TypeOK, IndexOrder
      <4> QED BY <2>0, <3>1, <4>1, DistSucc DEF TypeOK
    <3>5. (IndexOrder /\ ProducerOK /\ ConsumerOK)'
      BY <2>0, <2>10, <3>3, <3>4
      DEF ReleaseHead, prodVars, IndexOrder, ProducerOK, ConsumerOK, TypeOK,
          Slots, Dist
    <3>6. ASSUME NEW s \in Slots, Occupied(s)'
          PROVE  Occupied(s)
      <4>1. Dist(head', s) < Dist(head, tail) - 1
        BY <2>10, <3>3, <3>6 DEF ReleaseHead, Occupied, Dist
      <4>2. head # s => Dist(head', s) = Dist(head, s) - 1
        BY <2>0, <3>1, DistSucc DEF TypeOK
      <4>3. head = s => Dist(head, s) = 0 /\ Dist(head, tail) > 0
        BY <2>0, <3>2 DEF TypeOK, Slots, Dist
      <4>4. Dist(head, s) \in Int /\ Dist(head, tail) \in Int
        BY <2>0 DEF TypeOK, Slots, Dist
      <4> QED BY <4>1, <4>2, <4>3, <4>4 DEF Occupied
    <3> QED BY <2>0, <2>10, <3>5, <3>6 DEF ReleaseHead, ItemsOK
  <2>11. CASE HeadBecomesVisible
    <3>1. Dist(head, head) = 0 /\ Dist(head, tail) <= Dist(headSeen, tail)
      BY <2>0 DEF TypeOK, IndexOrder, Slots, Dist
    <3> QED
      BY <2>0, <2>11, <3>1
      DEF HeadBecomesVisible, prodVars, consVars, IndexOrder, ProducerOK,
          ConsumerOK, ItemsOK, Occupied, Dist, TypeOK, Slots
  <2>12. CASE TailBecomesVisible
    BY <2>0, <2>12
    DEF TailBecomesVisible, prodVars, consVars, IndexOrder, ProducerOK,
        ConsumerOK, ItemsOK, Occupied, Dist, TypeOK, Slots
  <2>13. CASE UNCHANGED vars
    BY <2>0, <2>13
    DEF vars, prodVars, consVars, IndexOrder, ProducerOK, ConsumerOK,
        ItemsOK, Occupied, Dist
  <2> QED
    BY <2>1, <2>2, <2>3, <2>4, <2>5, <2>6, <2>7, <2>8, <2>9, <2>10, <2>11,
       <2>12, <2>13 DEF Next, ProducerStep, ConsumerStep
<1> QED BY <1>1, <1>2, TypeCorrect, PTL DEF Spec

\* ExclusionHolds: no slot is ever read and written at the same time, for any
\* capacity and however late the indices become visible.
THEOREM ExclusionHolds == Spec => []SlotExclusion
<1>1. RingInv => SlotExclusion
  BY CapacityAssumption
  DEF RingInv, TypeOK, IndexOrder, ProducerOK, ConsumerOK, SlotExclusion,
      Dist, Slots
<1> QED BY <1>1, RingInvariant, PTL

\* IntactHolds: no published item is overwritten before it is popped.
THEOREM IntactHolds == Spec => []OccupiedIntact
<1>1. RingInv => OccupiedIntact
  BY DistRange
  DEF RingInv, TypeOK, ProducerOK, ItemsOK, OccupiedIntact, Occupied, Slots
<1> QED BY <1>1, RingInvariant, PTL

-----------------------------------------------------------------------------
(* Refinement of BoundedFifo.                                              *)

\* AheadRange: stepping fewer than Capacity slots ahead lands in data_, at
\* the distance walked.
LEMMA AheadRange ==
  ASSUME NEW a \in Slots, NEW n \in Slots
  PROVE  /\ Ahead(a, n) \in Slots
         /\ Dist(a, Ahead(a, n)) = n
BY CapacityAssumption DEF Slots, Ahead, Dist

\* AheadSucc: n slots ahead of the next slot is n + 1 slots ahead.
LEMMA AheadSucc ==
  ASSUME NEW a \in Slots, NEW n \in Slots, n + 1 \in Slots
  PROVE  Ahead(Succ(a), n) = Ahead(a, n + 1)
BY CapacityAssumption, SuccInSlots DEF Slots, Ahead

\* AheadDist: the slot at distance Dist(a, b) from a is b.
LEMMA AheadDist ==
  ASSUME NEW a \in Slots, NEW b \in Slots
  PROVE  Ahead(a, Dist(a, b)) = b
BY CapacityAssumption DEF Slots, Ahead, Dist

\* QueueType: the contents of the ring are a sequence of whole items.
LEMMA QueueType ==
  ASSUME RingInv
  PROVE  /\ Queue \in Seq(Values)
         /\ Len(Queue) = Dist(head, tail)
         /\ Dist(head, tail) \in Nat
<1> USE CapacityAssumption
<1>1. Dist(head, tail) \in Slots
  BY DistRange DEF RingInv, TypeOK
<1>2. ASSUME NEW n \in 1 .. Dist(head, tail)
      PROVE  data[Ahead(head, n - 1)] \in Values
  <2>1. n - 1 \in Slots /\ n - 1 < Dist(head, tail)
    BY <1>1 DEF Slots
  <2>2. Ahead(head, n - 1) \in Slots /\ Occupied(Ahead(head, n - 1))
    BY <2>1, AheadRange DEF RingInv, TypeOK, Occupied
  <2> QED BY <2>2 DEF RingInv, ItemsOK
<1>3. Dist(head, tail) \in Nat
  BY <1>1 DEF Slots
<1> QED BY <1>2, <1>3 DEF Queue

\* PublishEnqueues: the store of tail_ appends the producer's item.
LEMMA PublishEnqueues ==
  ASSUME RingInv, RingInv', PublishTail
  PROVE  Fifo!Enqueue(item) /\ item \in Values
<1> USE CapacityAssumption
<1> DEFINE n == Dist(head, tail)
<1>1. tail' = Succ(tail) /\ head' = head /\ data' = data /\ out' = out
      /\ data[tail] = item /\ item \in Values
      /\ Dist(headSeen, tail) < Capacity - 1
  BY DEF PublishTail, NewTail, RingInv, ProducerOK, consVars
<1>2. n < Capacity - 1 /\ n \in Nat /\ n \in Slots
  BY <1>1, ChainShorter, DistRange DEF RingInv, TypeOK, IndexOrder, Slots
<1>3. Dist(head', tail') = n + 1
  BY <1>1, <1>2, DistSucc DEF RingInv, TypeOK
<1>4. Queue' = [i \in 1 .. n + 1 |-> data[Ahead(head, i - 1)]]
  BY <1>1, <1>3 DEF Queue, Ahead
<1>5. data[Ahead(head, (n + 1) - 1)] = item
  BY <1>1, <1>2, AheadDist DEF RingInv, TypeOK
<1>6. Queue = [i \in 1 .. n |-> data[Ahead(head, i - 1)]]
  BY DEF Queue
<1>7. Queue \in Seq(Values) /\ Len(Queue) = n
  BY QueueType
<1>8. Queue' = Append(Queue, item)
  <2> HIDE DEF n
  <2> QED BY <1>1, <1>2, <1>4, <1>5, <1>6, <1>7
<1> QED BY <1>1, <1>2, <1>7, <1>8 DEF Fifo!Enqueue

\* ReleaseDequeues: the store of head_ removes the oldest item, and that item
\* is the one the consumer has copied.
LEMMA ReleaseDequeues ==
  ASSUME RingInv, RingInv', ReleaseHead
  PROVE  Fifo!Dequeue
<1> USE CapacityAssumption
<1> DEFINE n == Dist(head, tail)
<1>1. head' = Succ(head) /\ tail' = tail /\ data' = data
      /\ out' = data[head] /\ head # tailSeen
  BY DEF ReleaseHead, NewHead, RingInv, ConsumerOK
<1>2. head # tail /\ n \in Nat /\ n \in Slots /\ n > 0
  <2>1. head # tail
    BY <1>1, ChainShorter DEF RingInv, TypeOK, IndexOrder
  <2>2. n \in Slots /\ n # 0
    BY <2>1, DistRange DEF RingInv, TypeOK
  <2> QED BY <2>1, <2>2 DEF Slots
<1>3. Dist(head', tail') = n - 1
  BY <1>1, <1>2, DistSucc DEF RingInv, TypeOK
<1>4. ASSUME NEW i \in 1 .. n - 1
      PROVE  Ahead(head', i - 1) = Ahead(head, (i + 1) - 1)
  <2>1. i - 1 \in Slots /\ (i - 1) + 1 \in Slots /\ (i + 1) - 1 = (i - 1) + 1
    BY <1>2 DEF Slots
  <2> QED BY <1>1, <2>1, AheadSucc DEF RingInv, TypeOK
<1>5. Queue' = [i \in 1 .. n - 1 |-> data[Ahead(head', i - 1)]]
  BY <1>1, <1>3 DEF Queue, Ahead
<1>6. Queue' = [i \in 1 .. n - 1 |-> data[Ahead(head, (i + 1) - 1)]]
  BY <1>4, <1>5
<1>7. Queue = [i \in 1 .. n |-> data[Ahead(head, i - 1)]]
  BY DEF Queue
<1>8. Queue \in Seq(Values) /\ Len(Queue) = n
  BY QueueType
<1>9. Queue[1] = data[head]
  BY <1>2, <1>7 DEF Ahead, RingInv, TypeOK, Slots
<1>10. Queue # << >> /\ Head(Queue) = data[head] /\ Queue' = Tail(Queue)
  <2> HIDE DEF n
  <2>1. Queue # << >> /\ Head(Queue) = data[head]
    BY <1>2, <1>8, <1>9
  <2>2. Tail(Queue) = [i \in 1 .. n - 1 |-> Queue[i + 1]]
    <3>1. /\ Tail(Queue) \in Seq(Values) /\ Len(Tail(Queue)) = n - 1
          /\ \A i \in 1 .. Len(Tail(Queue)) : Tail(Queue)[i] = Queue[i + 1]
      BY <1>8, <2>1, HeadTailProperties
    <3>2. Tail(Queue) \in [1 .. n - 1 -> Values]
      BY <3>1, LenProperties
    <3> QED BY <3>1, <3>2
  <2>3. \A i \in 1 .. n - 1 : Queue[i + 1] = data[Ahead(head, (i + 1) - 1)]
    BY <1>2, <1>7
  <2> QED BY <1>6, <2>1, <2>2, <2>3
<1> QED BY <1>1, <1>10 DEF Fifo!Dequeue

\* FillLeavesQueue: what the producer stores before it publishes is not part
\* of the contents.
LEMMA FillLeavesQueue ==
  ASSUME RingInv, head' = head, tail' = tail, NEW v,
         data' = [data EXCEPT ![tail] = v]
  PROVE  Queue' = Queue
<1> USE CapacityAssumption
<1>1. Dist(head', tail') = Dist(head, tail) /\ Dist(head, tail) \in Slots
  BY DistRange DEF RingInv, TypeOK
<1>2. ASSUME NEW n \in 1 .. Dist(head, tail)
      PROVE  data'[Ahead(head', n - 1)] = data[Ahead(head, n - 1)]
  <2>1. n - 1 \in Slots /\ n - 1 # Dist(head, tail)
    BY <1>1 DEF Slots
  <2>2. Ahead(head, n - 1) \in Slots /\ Ahead(head, n - 1) # tail
    BY <2>1, AheadRange DEF RingInv, TypeOK
  <2> QED BY <2>2 DEF RingInv, TypeOK
<1> QED BY <1>1, <1>2 DEF Queue

\* RingRefinesFifo: the ring implements the bounded FIFO for every capacity
\* and every set of items.
THEOREM RingRefinesFifo == Spec => ImplementsFifo
<1>1. Init => Fifo!FifoInit
  BY DEF Init, Fifo!FifoInit, Queue, Dist
<1>2. RingInv /\ RingInv' /\ [Next]_vars => [Fifo!FifoNext]_(Fifo!fifoVars)
  <2> SUFFICES ASSUME RingInv, RingInv', [Next]_vars
               PROVE  Fifo!FifoNext \/ (Queue' = Queue /\ out' = out)
    BY DEF Fifo!fifoVars
  <2>1. CASE PublishTail
    BY <2>1, PublishEnqueues DEF Fifo!FifoNext
  <2>2. CASE ReleaseHead
    BY <2>2, ReleaseDequeues DEF Fifo!FifoNext
  <2>3. CASE BeginWrite
    BY <2>3, FillLeavesQueue DEF BeginWrite, consVars, RingInv, ProducerOK
  <2>4. CASE EndWrite
    BY <2>4, FillLeavesQueue DEF EndWrite, consVars, RingInv, ProducerOK
  <2>5. ASSUME head' = head, tail' = tail, data' = data, out' = out
        PROVE  Queue' = Queue /\ out' = out
    BY <2>5 DEF Queue, Dist, Ahead
  <2>6. CASE \E kind \in {"push", "reserve_write"}, v \in Values :
               ProducerCall(kind, v)
    BY <2>5, <2>6 DEF ProducerCall, consVars
  <2>7. CASE \E kind \in {"pop", "peek_read"} : ConsumerCall(kind)
    BY <2>5, <2>7 DEF ConsumerCall
  <2>8. CASE CheckFull \/ CheckEmpty \/ BeginRead \/ EndRead
    BY <2>5, <2>8 DEF CheckFull, CheckEmpty, BeginRead, EndRead, consVars
  <2>9. CASE HeadBecomesVisible \/ TailBecomesVisible \/ UNCHANGED vars
    BY <2>5, <2>9
    DEF HeadBecomesVisible, TailBecomesVisible, vars, consVars
  <2> QED
    BY <2>1, <2>2, <2>3, <2>4, <2>6, <2>7, <2>8, <2>9
    DEF Next, ProducerStep, ConsumerStep
<1> QED BY <1>1, <1>2, RingInvariant, PTL DEF Spec, ImplementsFifo, Fifo!FifoSpec
=============================================================================
