-------------------------- MODULE AudioPath_proofs --------------------------
(***************************************************************************)
(* The audio path is correct for every size of the queues, every threshold *)
(* of the watchdog and any number of callbacks.                            *)
(***************************************************************************)
EXTENDS AudioPath, TLAPS, SequenceTheorems

(* Sequences as sets. *)

\* ToSetAppend: what a queue holds after one more block was put into it.
LEMMA ToSetAppend ==
  ASSUME NEW S, NEW s \in Seq(S), NEW e \in S
  PROVE  ToSet(Append(s, e)) = ToSet(s) \cup {e}
BY AppendProperties, LenProperties DEF ToSet

\* ToSetIn: a queue holds what its type says.
LEMMA ToSetIn ==
  ASSUME NEW S, NEW s \in Seq(S)
  PROVE  ToSet(s) \subseteq S
<1>1. DOMAIN s = 1 .. Len(s) /\ \A i \in 1 .. Len(s) : s[i] \in S
  BY LenProperties, ElementOfSeq
<1> QED BY <1>1 DEF ToSet

\* ToSetTail: what a queue holds is its oldest block and the rest.
LEMMA ToSetTail ==
  ASSUME NEW S, NEW s \in Seq(S), s # << >>
  PROVE  ToSet(s) = {Head(s)} \cup ToSet(Tail(s))
<1>1. /\ Tail(s) \in Seq(S) /\ Len(Tail(s)) = Len(s) - 1 /\ Len(s) \in Nat \ {0}
      /\ \A i \in 1 .. Len(Tail(s)) : Tail(s)[i] = s[i + 1]
  BY HeadTailProperties, EmptySeq
<1>2. DOMAIN s = 1 .. Len(s) /\ DOMAIN Tail(s) = 1 .. Len(s) - 1
  BY <1>1, LenProperties
<1>3. ASSUME NEW x \in ToSet(s) PROVE x \in {Head(s)} \cup ToSet(Tail(s))
  <2>1. PICK i \in 1 .. Len(s) : x = s[i]
    BY <1>2, <1>3 DEF ToSet
  <2>2. CASE i = 1
    BY <2>1, <2>2
  <2>3. CASE i # 1
    <3>1. i - 1 \in 1 .. Len(s) - 1 /\ Tail(s)[i - 1] = s[i]
      BY <1>1, <2>3
    <3> QED BY <1>2, <2>1, <3>1 DEF ToSet
  <2> QED BY <2>2, <2>3
<1>4. ASSUME NEW x \in {Head(s)} \cup ToSet(Tail(s)) PROVE x \in ToSet(s)
  <2>1. CASE x = Head(s)
    BY <1>1, <1>2, <2>1 DEF ToSet
  <2>2. CASE x \in ToSet(Tail(s))
    BY <1>1, <1>2, <2>2 DEF ToSet
  <2> QED BY <1>4, <2>1, <2>2
<1> QED BY <1>3, <1>4

-----------------------------------------------------------------------------
(* The inductive invariant, part by part. *)

\* What each side may rely on since an earlier step: the reserved slot is still
\* there when it is committed, and the peeked block when it is released.
Positions ==
  /\ ppc # "idle" => block > 0
  /\ ppc = "commit" => Len(inQueue) < Depth - 1
  /\ wpc \in {"process", "output", "release"} => inQueue # << >>

TypeInv == TypeOK /\ Positions

\* Blocks the worker is done with.
Processed == ToSet(received) \cup ToSet(outQueue) \cup dropped

\* The blocks pass through the queues in the order of their numbers: what has been
\* processed is older than what waits in in_queue, except for the block
\* that has not been released yet.
Order ==
  /\ Ascending(received \o outQueue) /\ Ascending(inQueue)
  /\ \A b \in Processed \cup ToSet(inQueue) :
       b <= block /\ (ppc = "commit" => b < block)
  /\ \A b \in Processed : \A d \in ToSet(inQueue) :
       b <= d /\ (wpc \notin {"release", "dead"} => b < d)

\* Every block is accounted for; the one that is about to be released too.
Account ==
  /\ Processed \cup ToSet(inQueue) = committed
  /\ dropped \cap (ToSet(outQueue) \cup ToSet(received)) = {}
  /\ wpc = "release" => Head(inQueue) \in Processed

\* Blocks a stopped worker was fed, the one about to be committed included.
Fed == fed + (IF ppc = "commit" THEN 1 ELSE 0)

Least(a, b) == IF a < b THEN a ELSE b

\* The watchdog: q counts how often the counter has wrapped around since the worker
\* stopped.
Watchdog ==
  /\ stalled <= block
  /\ wpc # "dead" => fed = 0
  /\ wpc = "dead" /\ beaten => Fed <= 1
  /\ wpc = "dead" /\ ~beaten =>
       \E q \in Nat : /\ q * CounterMod + stalled <= block
                      /\ Fed <= 2 + q * (StallLimit + 1) + Least(stalled, StallLimit)

\* An error ends the callbacks that reach the hardware.
ErrorInv ==
  /\ afterError <= 1
  /\ ~lastError \/ ppc # "idle" => afterError = 0

\* A full in_queue was filled after the worker last took a block.
FullInv ==
  IsFull(inQueue) /\ ppc # "signal" /\ wpc \in {"loop", "poll", "notify"} /\ ~unsignalled
    => eSend > 0

One(condition) == IF condition THEN 1 ELSE 0

\* There is a block in in_queue for each wake-up that is pending or under way.
SendTokens ==
  Len(inQueue) >= One(eSend > 0) + One(ppc = "signal")
                    + One(wpc \in {"peek", "process", "output", "release"})

\* The same of out_queue, where a dropped block is made up for by a full queue.
RecvTokens ==
  Len(outQueue) >= One(eRecv > 0) + One(ppc = "peek") + One(wpc \in {"release", "notify"})

-----------------------------------------------------------------------------
Flags == lastError \in BOOLEAN /\ beaten \in BOOLEAN /\ unsignalled \in BOOLEAN

\* FlagsKept: the flags stay Booleans.
LEMMA FlagsKept == Flags /\ [Next]_vars => Flags'
<1> SUFFICES ASSUME Flags, [Next]_vars PROVE Flags'
  OBVIOUS
<1> USE DEF Flags
<1>1. CASE Dispatch
  BY <1>1 DEF Dispatch, history
<1>2. CASE PluginStep
  BY <1>2 DEF PluginStep, CommitWrite, SignalWorker, SignalFails, ReadEvent, PollTimeout,
              TakeOutput, sharedVars, history
<1>3. CASE WorkerStep
  BY <1>3 DEF WorkerStep, Heartbeat, WakeUp, WorkerTimeout, PeekInput, Process,
              WriteOutput, CommitRead, SignalPlugin, SignalPluginFails, sharedVars, history
<1>4. CASE WorkerStops \/ UNCHANGED vars
  BY <1>4 DEF WorkerStops, vars, sharedVars, history
<1> QED BY <1>1, <1>2, <1>3, <1>4 DEF Next

\* TypeInvariant: types and positions are kept by every step.
LEMMA TypeInvariant == Spec => []TypeInv
<1>1. Init => TypeInv
  <2> SUFFICES ASSUME Init PROVE TypeInv
    OBVIOUS
  <2>1. Flags
    BY DEF Init, Flags
  <2> QED BY <2>1, EmptySeq, DepthAssumption, WatchdogAssumption, BlocksAssumption
         DEF Init, TypeInv, TypeOK, Positions, Flags
<1>2. TypeInv /\ [Next]_vars => TypeInv'
  <2> SUFFICES ASSUME TypeInv, [Next]_vars PROVE TypeInv'
    OBVIOUS
  <2>0. Flags'
    BY FlagsKept DEF TypeInv, TypeOK, Flags
  <2>a. Len(inQueue) \in Nat /\ Len(outQueue) \in Nat
    BY DEF TypeInv, TypeOK
  <2> USE <2>0, <2>a DEF TypeInv, TypeOK, Positions, Flags
  <2>1. CASE Dispatch
    <3>1. Stalled \in 0 .. CounterMod - 1
      BY WatchdogAssumption DEF Stalled
    <3>2. block' \in 0 .. MaxBlocks /\ block' > 0
      BY <2>1, BlocksAssumption DEF Dispatch
    <3>3. CASE WorkerFailed
      BY <2>1, <3>2, <3>3 DEF Dispatch, history
    <3>4. CASE ~WorkerFailed
      <4>1. xruns' \in Nat /\ stalled' \in 0 .. CounterMod - 1
        BY <2>1, <3>1, <3>4 DEF Dispatch
      <4>2. ppc' \in {"idle", "commit"} /\ (ppc' = "commit" => ~IsFull(inQueue))
        BY <2>1, <3>1, <3>4, WatchdogAssumption DEF Dispatch
      <4>3. ppc' = "commit" => Len(inQueue) < Depth - 1
        BY <4>2, DepthAssumption DEF IsFull
      <4> QED BY <2>1, <3>2, <4>1, <4>2, <4>3 DEF Dispatch, history
    <3> QED BY <3>3, <3>4
  <2>2. CASE CommitWrite
    <3>1. block \in Blocks
      BY <2>2 DEF CommitWrite, Blocks
    <3>2. Append(inQueue, block) \in Seq(Blocks) /\ Append(inQueue, block) # << >>
          /\ Len(Append(inQueue, block)) = Len(inQueue) + 1
      BY <3>1, AppendProperties
    <3> QED BY <2>2, <3>1, <3>2, DepthAssumption DEF CommitWrite
  <2>3. CASE SignalWorker
    BY <2>3 DEF SignalWorker, history
  <2>4. CASE SignalFails
    BY <2>4 DEF SignalFails, sharedVars
  <2>5. CASE ReadEvent
    BY <2>5 DEF ReadEvent, history
  <2>6. CASE PollTimeout
    BY <2>6 DEF PollTimeout, sharedVars, history
  <2>7. CASE TakeOutput
    <3>1. CASE outQueue = << >>
      BY <2>7, <3>1 DEF TakeOutput
    <3>2. CASE outQueue # << >>
      <4>1. /\ Head(outQueue) \in Blocks /\ Tail(outQueue) \in Seq(Blocks)
            /\ Len(Tail(outQueue)) < Len(outQueue)
        BY <3>2, HeadTailProperties
      <4>2. Append(received, Head(outQueue)) \in Seq(Blocks)
        BY <4>1, AppendProperties
      <4>3. afterError' \in Nat
        BY <2>7, <3>2 DEF TakeOutput
      <4>4. outQueue' \in Seq(Blocks) /\ Len(outQueue') < Depth
        <5> HIDE DEF TypeInv
        <5>1. outQueue' = Tail(outQueue)
          BY <2>7, <3>2 DEF TakeOutput
        <5>2. Len(outQueue) < Depth
          BY DEF TypeInv
        <5> QED BY <4>1, <5>1, <5>2, DepthAssumption
      <4> QED BY <2>7, <3>2, <4>2, <4>3, <4>4 DEF TakeOutput
    <3> QED BY <3>1, <3>2
  <2>8. CASE Heartbeat
    BY <2>8 DEF Heartbeat, sdkVars, history
  <2>9. CASE WakeUp
    BY <2>9 DEF WakeUp, sdkVars, history
  <2>10. CASE WorkerTimeout
    BY <2>10 DEF WorkerTimeout, sharedVars, sdkVars, history
  <2>11. CASE PeekInput
    BY <2>11 DEF PeekInput, sharedVars, sdkVars, history
  <2>12. ASSUME NEW success \in BOOLEAN, Process(success) PROVE TypeInv'
    BY <2>12 DEF Process, sdkVars, history
  <2>13. CASE WriteOutput
    <3>1. Head(inQueue) \in Blocks
      BY <2>13, HeadTailProperties DEF WriteOutput
    <3>2. Append(outQueue, Head(inQueue)) \in Seq(Blocks)
          /\ Len(Append(outQueue, Head(inQueue))) = Len(outQueue) + 1
      BY <3>1, AppendProperties
    <3>3. CASE IsFull(outQueue)
      BY <2>13, <3>1, <3>3 DEF WriteOutput, sdkVars
    <3>4. CASE ~IsFull(outQueue)
      <4>1. outQueue' \in Seq(Blocks) /\ Len(outQueue') < Depth /\ dropped' = dropped
        <5> HIDE DEF TypeInv
        <5>1. outQueue' = Append(outQueue, Head(inQueue)) /\ dropped' = dropped
          BY <2>13, <3>4 DEF WriteOutput
        <5>2. Len(outQueue) < Depth /\ Len(outQueue) # Depth - 1
          BY <3>4 DEF TypeInv, IsFull
        <5> QED BY <3>2, <5>1, <5>2, DepthAssumption
      <4> QED BY <2>13, <4>1 DEF WriteOutput, sdkVars
    <3> QED BY <3>3, <3>4
  <2>14. CASE CommitRead
    <3>1. Tail(inQueue) \in Seq(Blocks) /\ Len(Tail(inQueue)) < Len(inQueue)
      BY <2>14, HeadTailProperties DEF CommitRead
    <3>2. Len(Tail(inQueue)) \in Nat
      BY <3>1
    <3> QED BY <2>14, <3>1, <3>2, DepthAssumption DEF CommitRead, sdkVars, history
  <2>15. CASE SignalPlugin \/ SignalPluginFails
    BY <2>15 DEF SignalPlugin, SignalPluginFails, sharedVars, sdkVars, history
  <2>16. CASE WorkerStops
    BY <2>16 DEF WorkerStops, sharedVars, sdkVars, history
  <2>17. CASE UNCHANGED vars
    BY <2>17 DEF vars, sharedVars, sdkVars, history
  <2> QED
    BY <2>1, <2>2, <2>3, <2>4, <2>5, <2>6, <2>7, <2>8, <2>9, <2>10, <2>11, <2>12,
       <2>13, <2>14, <2>15, <2>16, <2>17 DEF Next, PluginStep, WorkerStep
<1> QED BY <1>1, <1>2, PTL DEF Spec

\* TypeCorrect: neither ring is ever overfilled, though each is checked long before
\* it is filled.
THEOREM TypeCorrect == Spec => []TypeOK
BY TypeInvariant, PTL DEF TypeInv

-----------------------------------------------------------------------------
(* Order and accounting. *)

\* ToSetConcat: what two queues hold together.
LEMMA ToSetConcat ==
  ASSUME NEW S, NEW s \in Seq(S), NEW t \in Seq(S)
  PROVE  ToSet(s \o t) = ToSet(s) \cup ToSet(t)
<1>1. /\ s \o t \in Seq(S) /\ Len(s \o t) = Len(s) + Len(t)
      /\ \A i \in 1 .. Len(s) + Len(t) :
           (s \o t)[i] = IF i <= Len(s) THEN s[i] ELSE t[i - Len(s)]
  BY ConcatProperties
<1>2. /\ Len(s) \in Nat /\ Len(t) \in Nat /\ DOMAIN s = 1 .. Len(s)
      /\ DOMAIN t = 1 .. Len(t) /\ DOMAIN (s \o t) = 1 .. Len(s) + Len(t)
  BY <1>1, LenProperties
<1>3. ASSUME NEW x \in ToSet(s \o t) PROVE x \in ToSet(s) \cup ToSet(t)
  <2>1. PICK i \in 1 .. Len(s) + Len(t) : x = (s \o t)[i]
    BY <1>2, <1>3 DEF ToSet
  <2> QED BY <1>1, <1>2, <2>1 DEF ToSet
<1>4. ASSUME NEW x \in ToSet(s) PROVE x \in ToSet(s \o t)
  BY <1>1, <1>2, <1>4 DEF ToSet
<1>5. ASSUME NEW x \in ToSet(t) PROVE x \in ToSet(s \o t)
  <2>1. PICK i \in 1 .. Len(t) : x = t[i]
    BY <1>2, <1>5 DEF ToSet
  <2>2. i + Len(s) \in 1 .. Len(s) + Len(t) /\ (s \o t)[i + Len(s)] = t[i]
    BY <1>1, <1>2
  <2> QED BY <1>2, <2>1, <2>2 DEF ToSet
<1> QED BY <1>3, <1>4, <1>5

\* AscendingAppend: a block that is newer than all in a queue keeps it in order.
LEMMA AscendingAppend ==
  ASSUME NEW s \in Seq(Blocks), NEW e \in Blocks, Ascending(s),
         \A b \in ToSet(s) : b < e
  PROVE  Ascending(Append(s, e))
<1>1. /\ Len(s) \in Nat /\ DOMAIN s = 1 .. Len(s)
      /\ Len(Append(s, e)) = Len(s) + 1 /\ Append(s, e)[Len(s) + 1] = e
      /\ \A i \in 1 .. Len(s) : Append(s, e)[i] = s[i]
  BY LenProperties, AppendProperties
<1>2. \A i \in 1 .. Len(s) : s[i] < e
  BY <1>1 DEF ToSet
<1> QED BY <1>1, <1>2 DEF Ascending

\* AscendingTail: the oldest block of a queue in order is older than the others.
LEMMA AscendingTail ==
  ASSUME NEW s \in Seq(Blocks), s # << >>, Ascending(s)
  PROVE  Ascending(Tail(s)) /\ \A b \in ToSet(Tail(s)) : Head(s) < b
<1>1. /\ Tail(s) \in Seq(Blocks) /\ Len(s) \in Nat \ {0} /\ Len(Tail(s)) = Len(s) - 1
      /\ \A i \in 1 .. Len(Tail(s)) : Tail(s)[i] = s[i + 1]
  BY HeadTailProperties, EmptySeq
<1>2. DOMAIN Tail(s) = 1 .. Len(s) - 1
  BY <1>1, LenProperties
<1>3. Ascending(Tail(s))
  BY <1>1 DEF Ascending
<1>4. ASSUME NEW i \in 1 .. Len(s) - 1 PROVE s[1] < s[i + 1]
  BY <1>1, <1>4 DEF Ascending
<1> QED BY <1>1, <1>2, <1>3, <1>4 DEF ToSet

\* Handover: a block that moves from one end of out_queue to the host leaves
\* their sequence as it is.
LEMMA Handover ==
  ASSUME NEW S, NEW s \in Seq(S), NEW t \in Seq(S), t # << >>
  PROVE  Append(s, Head(t)) \o Tail(t) = s \o t
<1>1. /\ Head(t) \in S /\ Tail(t) \in Seq(S) /\ Len(Tail(t)) = Len(t) - 1
      /\ \A i \in 1 .. Len(Tail(t)) : Tail(t)[i] = t[i + 1]
      /\ Len(s) \in Nat /\ Len(t) \in Nat \ {0} /\ Head(t) = t[1]
  BY HeadTailProperties, EmptySeq, LenProperties
<1> DEFINE a == Append(s, Head(t))
<1>2. /\ a \in Seq(S) /\ Len(a) = Len(s) + 1 /\ a[Len(s) + 1] = t[1]
      /\ \A i \in 1 .. Len(s) : a[i] = s[i]
  BY <1>1, AppendProperties
<1> HIDE DEF a
<1>3. /\ a \o Tail(t) \in Seq(S) /\ Len(a \o Tail(t)) = Len(s) + Len(t)
      /\ \A i \in 1 .. Len(s) + Len(t) :
           (a \o Tail(t))[i] = IF i <= Len(s) + 1 THEN a[i] ELSE Tail(t)[i - (Len(s) + 1)]
  <2>1. Tail(t) \in Seq(S) /\ Len(a) + Len(Tail(t)) = Len(s) + Len(t)
    BY <1>1, <1>2
  <2>2. /\ a \o Tail(t) \in Seq(S) /\ Len(a \o Tail(t)) = Len(a) + Len(Tail(t))
        /\ \A i \in 1 .. Len(a) + Len(Tail(t)) :
             (a \o Tail(t))[i] = IF i <= Len(a) THEN a[i] ELSE Tail(t)[i - Len(a)]
    <3>1. a \in Seq(S)
      BY <1>2
    <3>2. Tail(t) \in Seq(S)
      BY <2>1
    <3> HIDE DEF a
    <3> QED BY <3>1, <3>2, ConcatProperties, Zenon
  <2>3. Len(a) = Len(s) + 1
    BY <1>2
  <2> QED BY <2>1, <2>2, <2>3
<1>4. /\ s \o t \in Seq(S) /\ Len(s \o t) = Len(s) + Len(t)
      /\ \A i \in 1 .. Len(s) + Len(t) :
           (s \o t)[i] = IF i <= Len(s) THEN s[i] ELSE t[i - Len(s)]
  BY <1>1, ConcatProperties
<1>5. ASSUME NEW i \in 1 .. Len(s) + Len(t) PROVE (a \o Tail(t))[i] = (s \o t)[i]
  <2>1. CASE i <= Len(s)
    BY <1>1, <1>2, <1>3, <1>4, <2>1
  <2>2. CASE i = Len(s) + 1
    BY <1>1, <1>2, <1>3, <1>4, <2>2
  <2>3. CASE i > Len(s) + 1
    <3>1. /\ i - (Len(s) + 1) \in 1 .. Len(Tail(t))
          /\ (i - (Len(s) + 1)) + 1 = i - Len(s)
      BY <1>1, <2>3
    <3> QED BY <1>1, <1>3, <1>4, <2>3, <3>1
  <2>4. i \in Int /\ Len(s) \in Int
    BY <1>1
  <2>5. i <= Len(s) \/ i = Len(s) + 1 \/ i > Len(s) + 1
    BY <2>4
  <2> QED BY <2>1, <2>2, <2>3, <2>5
<1>6. a \o Tail(t) = s \o t
  BY <1>1, <1>3, <1>4, <1>5, SeqEqual
<1> QED BY <1>6 DEF a

\* ConcatAppend: a block put into out_queue is the newest of all.
LEMMA ConcatAppend ==
  ASSUME NEW S, NEW s \in Seq(S), NEW t \in Seq(S), NEW e \in S
  PROVE  s \o Append(t, e) = Append(s \o t, e)
<1>1. <<e>> \in Seq(S) /\ s \o t \in Seq(S)
  BY ConcatProperties
<1>2. Append(t, e) = t \o <<e>> /\ Append(s \o t, e) = (s \o t) \o <<e>>
  BY <1>1, AppendIsConcat
<1> QED BY <1>1, <1>2, ConcatAssociative

queues == <<inQueue, outQueue, received, dropped, committed>>

\* QuietStep: a step that moves no block keeps order and accounting, as long as it
\* does not go back to an earlier block nor into the release of one.
LEMMA QuietStep ==
  ASSUME TypeInv, TypeInv', Order, Account, UNCHANGED queues, block' >= block,
         ppc' = "commit" => block' > block \/ (ppc = "commit" /\ block' = block),
         wpc' = "release" => wpc = "release",
         wpc' \notin {"release", "dead"} => wpc \notin {"release", "dead"}
  PROVE  Order' /\ Account'
<1>1. /\ inQueue' = inQueue /\ outQueue' = outQueue /\ received' = received
      /\ dropped' = dropped /\ committed' = committed
  BY DEF queues
<1>2. Processed' = Processed /\ Processed \cup ToSet(inQueue) = committed
  BY <1>1 DEF Processed, Account
<1>3. Account'
  BY <1>1, <1>2 DEF Account
<1>4. block \in Nat /\ block' \in Nat /\ committed \subseteq Nat
  BY DEF TypeInv, TypeOK, Blocks
<1>5. \A b \in committed : b <= block /\ (ppc = "commit" => b < block)
  BY <1>2 DEF Order
<1>6. \A b \in committed : b <= block' /\ (ppc' = "commit" => b < block')
  BY <1>4, <1>5
<1>7. Order'
  BY <1>1, <1>2, <1>6 DEF Order
<1> QED BY <1>3, <1>7

\* OrderedSteps: every step keeps the order of the blocks and accounts for them.
LEMMA OrderedSteps ==
  ASSUME TypeInv, TypeInv', [Next]_vars, Order, Account
  PROVE  Order' /\ Account'
<1>1. /\ inQueue \in Seq(Blocks) /\ outQueue \in Seq(Blocks) /\ received \in Seq(Blocks)
      /\ dropped \subseteq Blocks /\ block \in Nat /\ block' \in Nat
  BY DEF TypeInv, TypeOK
<1>2. Blocks \subseteq Nat
  BY DEF Blocks
<1>3. Processed \subseteq Nat /\ ToSet(inQueue) \subseteq Nat
  <2>1. /\ ToSet(received) \subseteq Blocks /\ ToSet(outQueue) \subseteq Blocks
        /\ ToSet(inQueue) \subseteq Blocks
    BY <1>1, ToSetIn
  <2> QED BY <1>1, <1>2, <2>1 DEF Processed
<1>4. CASE Dispatch
  <2>1. UNCHANGED queues /\ block' = block + 1 /\ wpc' = wpc
    BY <1>4 DEF Dispatch, queues, history
  <2>2. block' > block
    BY <1>1, <2>1
  <2> QED BY <1>1, <2>1, <2>2, QuietStep
<1>5. CASE CommitWrite
  <2>1. /\ inQueue' = Append(inQueue, block) /\ committed' = committed \cup {block}
        /\ outQueue' = outQueue /\ received' = received /\ dropped' = dropped
        /\ block' = block /\ wpc' = wpc /\ ppc = "commit" /\ ppc' = "signal"
    BY <1>5 DEF CommitWrite
  <2>2. block \in Blocks
    BY <2>1 DEF TypeInv, TypeOK, Positions, Blocks
  <2>3. ToSet(inQueue') = ToSet(inQueue) \cup {block} /\ Processed' = Processed
    BY <1>1, <2>1, <2>2, ToSetAppend DEF Processed
  <2>4. \A b \in Processed \cup ToSet(inQueue) : b < block
    BY <2>1 DEF Order
  <2>5. Ascending(inQueue')
    BY <1>1, <2>1, <2>2, <2>4, AscendingAppend DEF Order
  <2>6. Order'
    <3>1. Ascending(received' \o outQueue')
      BY <2>1 DEF Order
    <3>2. \A b \in Processed' \cup ToSet(inQueue') : b <= block'
      BY <1>1, <1>3, <2>1, <2>3, <2>4
    <3>3. \A b \in Processed' : \A d \in ToSet(inQueue') :
            b <= d /\ (wpc' \notin {"release", "dead"} => b < d)
      BY <1>1, <1>3, <2>1, <2>3, <2>4 DEF Order
    <3> QED BY <2>1, <2>5, <3>1, <3>2, <3>3 DEF Order
  <2>7. Account'
    <3>1. wpc' = "release" => Head(inQueue') \in Processed'
      <4> SUFFICES ASSUME wpc' = "release" PROVE Head(inQueue') \in Processed'
        OBVIOUS
      <4>1. inQueue # << >> /\ Head(inQueue) \in Processed
        BY <2>1 DEF TypeInv, Positions, Account
      <4>2. Head(inQueue') = Head(inQueue)
        BY <1>1, <2>1, <4>1, HeadTailAppend
      <4> QED BY <2>3, <4>1, <4>2
    <3> QED BY <2>1, <2>3, <3>1 DEF Account
  <2> QED BY <2>6, <2>7
<1>6. CASE SignalWorker \/ SignalFails \/ ReadEvent \/ PollTimeout
  <2>1. UNCHANGED queues /\ block' = block /\ wpc' = wpc /\ ppc' # "commit"
    BY <1>6 DEF SignalWorker, SignalFails, ReadEvent, PollTimeout, queues, history, sharedVars
  <2> QED BY <1>1, <2>1, QuietStep
<1>7. CASE TakeOutput
  <2>1. CASE outQueue = << >>
    <3>1. UNCHANGED queues /\ block' = block /\ wpc' = wpc /\ ppc' # "commit"
      BY <1>7, <2>1 DEF TakeOutput, queues
    <3> QED BY <1>1, <3>1, QuietStep
  <2>2. CASE outQueue # << >>
    <3>1. /\ outQueue' = Tail(outQueue) /\ received' = Append(received, Head(outQueue))
          /\ inQueue' = inQueue /\ dropped' = dropped /\ committed' = committed
          /\ block' = block /\ wpc' = wpc /\ ppc' = "idle"
      BY <1>7, <2>2 DEF TakeOutput
    <3>2. received' \o outQueue' = received \o outQueue
      BY <1>1, <2>2, <3>1, Handover
    <3>3. Head(outQueue) \in Blocks
      BY <1>1, <2>2, HeadTailProperties
    <3>4. /\ ToSet(outQueue) = {Head(outQueue)} \cup ToSet(outQueue')
          /\ ToSet(received') = ToSet(received) \cup {Head(outQueue)}
      BY <1>1, <2>2, <3>1, <3>3, ToSetTail, ToSetAppend
    <3>5. ToSet(received') \cup ToSet(outQueue') = ToSet(received) \cup ToSet(outQueue)
      BY <3>4
    <3>6. Processed' = Processed
      BY <3>1, <3>5 DEF Processed
    <3>7. Order'
      BY <3>1, <3>2, <3>6 DEF Order
    <3>8. Account'
      BY <3>1, <3>5, <3>6 DEF Account
    <3> QED BY <3>7, <3>8
  <2> QED BY <2>1, <2>2
<1>8. CASE \/ Heartbeat \/ WakeUp \/ WorkerTimeout \/ PeekInput \/ SignalPlugin
           \/ SignalPluginFails \/ WorkerStops
  <2>1. /\ UNCHANGED queues /\ block' = block /\ ppc' = ppc /\ wpc' # "release"
        /\ wpc' \notin {"release", "dead"} => wpc \notin {"release", "dead"}
    BY <1>8 DEF Heartbeat, WakeUp, WorkerTimeout, PeekInput, SignalPlugin, SignalPluginFails,
                WorkerStops, queues, history, sharedVars, sdkVars
  <2> QED BY <1>1, <2>1, QuietStep
<1>9. ASSUME NEW success \in BOOLEAN, Process(success) PROVE Order' /\ Account'
  <2>1. /\ UNCHANGED queues /\ block' = block /\ ppc' = ppc /\ wpc' # "release"
        /\ wpc' \notin {"release", "dead"} => wpc \notin {"release", "dead"}
    BY <1>9 DEF Process, queues, history, sdkVars
  <2> QED BY <1>1, <2>1, QuietStep
<1>10. CASE WriteOutput
  <2> DEFINE h == Head(inQueue)
  <2>1. /\ inQueue # << >> /\ inQueue' = inQueue /\ received' = received
        /\ committed' = committed /\ block' = block /\ ppc' = ppc
        /\ wpc = "output" /\ wpc' = "release"
    BY <1>10 DEF WriteOutput, sdkVars, TypeInv, Positions
  <2>2. /\ h \in Blocks /\ Tail(inQueue) \in Seq(Blocks)
        /\ ToSet(inQueue) = {h} \cup ToSet(Tail(inQueue))
    BY <1>1, <2>1, HeadTailProperties, ToSetTail
  <2>3. \A d \in ToSet(Tail(inQueue)) : h < d
    BY <1>1, <2>1, AscendingTail DEF Order
  <2> HIDE DEF h
  <2>4. \A b \in Processed : b < h
    BY <2>1, <2>2 DEF Order
  <2>5. h \notin Processed
    BY <1>2, <1>3, <2>2, <2>4
  <2>6. /\ Processed' = Processed \cup {h}
        /\ dropped' \cap (ToSet(outQueue') \cup ToSet(received')) = {}
        /\ Ascending(received' \o outQueue')
    <3>1. CASE IsFull(outQueue)
      <4>1. dropped' = dropped \cup {h} /\ outQueue' = outQueue
        BY <1>10, <3>1 DEF WriteOutput, h
      <4> QED BY <2>1, <2>5, <4>1 DEF Processed, Account, Order
    <3>2. CASE ~IsFull(outQueue)
      <4>1. dropped' = dropped /\ outQueue' = Append(outQueue, h)
        BY <1>10, <3>2 DEF WriteOutput, h
      <4>2. ToSet(outQueue') = ToSet(outQueue) \cup {h}
        BY <1>1, <2>2, <4>1, ToSetAppend
      <4>3. received' \o outQueue' = Append(received \o outQueue, h)
        BY <1>1, <2>1, <2>2, <4>1, ConcatAppend
      <4>4. ToSet(received \o outQueue) = ToSet(received) \cup ToSet(outQueue)
        BY <1>1, ToSetConcat
      <4>5. \A b \in ToSet(received \o outQueue) : b < h
        BY <2>4, <4>4 DEF Processed
      <4>6. received \o outQueue \in Seq(Blocks)
        BY <1>1, ConcatProperties
      <4>7. Ascending(received' \o outQueue')
        BY <2>2, <4>3, <4>5, <4>6, AscendingAppend DEF Order
      <4> QED BY <2>1, <2>5, <4>1, <4>2, <4>7 DEF Processed, Account
    <3> QED BY <3>1, <3>2
  <2>7. Order'
    <3>1. \A b \in Processed' \cup ToSet(inQueue') :
            b <= block' /\ (ppc' = "commit" => b < block')
      BY <2>1, <2>2, <2>6 DEF Order
    <3>2. \A b \in Processed' : \A d \in ToSet(inQueue') : b <= d
      BY <1>2, <1>3, <2>1, <2>2, <2>3, <2>4, <2>6 DEF Order
    <3> QED BY <2>1, <2>6, <3>1, <3>2 DEF Order
  <2>8. Account'
    <3>1. Processed' \cup ToSet(inQueue') = committed'
      BY <2>1, <2>2, <2>6 DEF Account
    <3>2. Head(inQueue') \in Processed'
      BY <2>1, <2>6 DEF h
    <3> QED BY <2>6, <3>1, <3>2 DEF Account
  <2> QED BY <2>7, <2>8
<1>11. CASE CommitRead
  <2> DEFINE h == Head(inQueue)
  <2>1. /\ inQueue # << >> /\ inQueue' = Tail(inQueue) /\ received' = received
        /\ outQueue' = outQueue /\ dropped' = dropped
        /\ committed' = committed /\ block' = block /\ ppc' = ppc
        /\ wpc = "release" /\ wpc' = "notify"
    BY <1>11 DEF CommitRead, sdkVars, history, TypeInv, Positions
  <2>2. h \in Blocks /\ ToSet(inQueue) = {h} \cup ToSet(inQueue')
    BY <1>1, <2>1, HeadTailProperties, ToSetTail
  <2>3. Ascending(inQueue') /\ \A d \in ToSet(inQueue') : h < d
    BY <1>1, <2>1, AscendingTail DEF Order
  <2>4. h \in Processed
    BY <2>1 DEF Account
  <2> HIDE DEF h
  <2>5. Processed' = Processed
    BY <2>1 DEF Processed
  <2>6. Account'
    BY <2>1, <2>2, <2>4, <2>5 DEF Account
  <2>7. \A b \in Processed' : \A d \in ToSet(inQueue') : b <= d /\ b < d
    <3>1. \A b \in Processed : b <= h
      BY <2>2 DEF Order
    <3> QED BY <1>2, <1>3, <2>2, <2>3, <2>5, <3>1
  <2>8. Order'
    BY <2>1, <2>2, <2>3, <2>5, <2>7 DEF Order
  <2> QED BY <2>6, <2>8
<1>12. CASE UNCHANGED vars
  <2>1. UNCHANGED queues /\ block' = block /\ ppc' = ppc /\ wpc' = wpc
    BY <1>12 DEF vars, queues, history, sharedVars, sdkVars
  <2> QED BY <1>1, <2>1, QuietStep
<1> QED
  BY <1>4, <1>5, <1>6, <1>7, <1>8, <1>9, <1>10, <1>11, <1>12 DEF Next, PluginStep, WorkerStep

\* OrderInvariant: the blocks stay in order and accounted for.
LEMMA OrderInvariant == Spec => [](Order /\ Account)
<1>1. Init => Order /\ Account
  <2> SUFFICES ASSUME Init PROVE Order /\ Account
    OBVIOUS
  <2>1. /\ inQueue = << >> /\ outQueue = << >> /\ received = << >> /\ dropped = {}
        /\ committed = {} /\ wpc = "loop"
    BY DEF Init
  <2>2. ToSet(<< >>) = {}
    BY DEF ToSet
  <2>3. << >> \o << >> = << >> /\ Ascending(<< >>)
    BY DEF Ascending
  <2>4. Processed = {} /\ ToSet(inQueue) = {}
    BY <2>1, <2>2 DEF Processed
  <2> QED BY <2>1, <2>2, <2>3, <2>4 DEF Order, Account
<1>2. TypeInv /\ TypeInv' /\ Order /\ Account /\ [Next]_vars => (Order /\ Account)'
  BY OrderedSteps
<1> QED BY <1>1, <1>2, TypeInvariant, PTL DEF Spec

\* BlocksInOrder: the host gets the blocks in the order it dispatched them and none
\* of them twice.
THEOREM BlocksInOrder == Spec => []InOrder
<1>1. Order => InOrder
  BY DEF Order, InOrder
<1> QED BY <1>1, OrderInvariant, PTL

\* BlocksAccounted: no committed block is lost, and none is handed over while it is
\* still to be processed.
THEOREM BlocksAccounted == Spec => []NothingLost
<1>1. TypeInv /\ Order /\ Account => NothingLost
  <2> SUFFICES ASSUME TypeInv, Order, Account PROVE NothingLost
    OBVIOUS
  <2>1. ToSet(inQueue) \subseteq Nat
    <3>1. inQueue \in Seq(Blocks) /\ Blocks \subseteq Nat
      BY DEF TypeInv, TypeOK, Blocks
    <3>2. ToSet(inQueue) \subseteq Blocks
      BY <3>1, ToSetIn
    <3> QED BY <3>1, <3>2
  <2>2. wpc \notin {"release", "dead"} => ToSet(inQueue) \cap Processed = {}
    BY <2>1 DEF Order
  <2> QED BY <2>2 DEF Account, Processed, NothingLost
<1> QED BY <1>1, OrderInvariant, TypeInvariant, PTL

-----------------------------------------------------------------------------
(* Errors, signals and wake-ups. *)

\* ErrorSeen: after the worker has reported an error, read_output hands the host at most
\* one more block, in the callback that was already past the check of last_error.
THEOREM ErrorSeen == Spec => []OneBlockAfterError
<1>1. Init => ErrorInv
  BY DEF Init, ErrorInv
<1>2. TypeInv /\ TypeInv' /\ ErrorInv /\ [Next]_vars => ErrorInv'
  <2> SUFFICES ASSUME TypeInv, TypeInv', ErrorInv, [Next]_vars PROVE ErrorInv'
    OBVIOUS
  <2>1. afterError \in Nat /\ Flags
    BY DEF TypeInv, TypeOK, Flags
  <2>2. CASE Dispatch
    BY <2>2, <2>1 DEF Dispatch, WorkerFailed, ErrorInv, history, Flags
  <2>3. CASE CommitWrite \/ SignalWorker \/ SignalFails \/ ReadEvent \/ PollTimeout
    BY <2>3 DEF CommitWrite, SignalWorker, SignalFails, ReadEvent, PollTimeout,
                ErrorInv, history, sharedVars
  <2>4. CASE TakeOutput
    BY <2>4, <2>1 DEF TakeOutput, ErrorInv, Flags
  <2>5. CASE WorkerStep
    BY <2>5, <2>1 DEF WorkerStep, Heartbeat, WakeUp, WorkerTimeout, PeekInput, Process,
                WriteOutput, CommitRead, SignalPlugin, SignalPluginFails, ErrorInv, history,
                sharedVars, sdkVars, Flags
  <2>6. CASE WorkerStops \/ UNCHANGED vars
    BY <2>6 DEF WorkerStops, vars, ErrorInv, history, sharedVars, sdkVars
  <2> QED BY <2>2, <2>3, <2>4, <2>5, <2>6 DEF Next, PluginStep
<1>3. ErrorInv => OneBlockAfterError
  BY DEF ErrorInv, OneBlockAfterError
<1> QED BY <1>1, <1>2, <1>3, TypeInvariant, PTL DEF Spec

\* FullQueueSignalled: the worker never sleeps on a full in_queue for want of a
\* signal.
THEOREM FullQueueSignalled == Spec => []FullIsSignalled
<1>1. Init => FullInv
  BY DepthAssumption DEF Init, FullInv, IsFull
<1>2. TypeInv /\ TypeInv' /\ FullInv /\ [Next]_vars => FullInv'
  <2> SUFFICES ASSUME TypeInv, TypeInv', FullInv, [Next]_vars PROVE FullInv'
    OBVIOUS
  <2>1. eSend \in Nat /\ Len(inQueue) \in Nat /\ Len(inQueue) < Depth
    BY DEF TypeInv, TypeOK
  <2>2. CASE Dispatch
    BY <2>2 DEF Dispatch, FullInv, history, IsFull
  <2>3. CASE CommitWrite
    BY <2>3 DEF CommitWrite, FullInv
  <2>4. CASE SignalWorker
    BY <2>1, <2>4 DEF SignalWorker, FullInv
  <2>5. CASE SignalFails
    BY <2>5 DEF SignalFails, FullInv
  <2>6. CASE ReadEvent \/ PollTimeout \/ TakeOutput
    BY <2>6 DEF ReadEvent, PollTimeout, TakeOutput, FullInv, IsFull, history, sharedVars
  <2>7. CASE Heartbeat \/ WakeUp \/ WorkerTimeout \/ SignalPlugin \/ SignalPluginFails
    BY <2>7 DEF Heartbeat, WakeUp, WorkerTimeout, SignalPlugin, SignalPluginFails, FullInv, IsFull,
                history, sharedVars, sdkVars
  <2>8. CASE PeekInput
    <3>1. inQueue' = inQueue /\ (inQueue # << >> => wpc' = "process")
      BY <2>8 DEF PeekInput, sharedVars
    <3>2. ~IsFull(<< >>)
      BY DepthAssumption DEF IsFull
    <3> QED BY <3>1, <3>2 DEF FullInv
  <2>9. CASE (\E success \in BOOLEAN : Process(success)) \/ WriteOutput \/ WorkerStops
    BY <2>9 DEF Process, WriteOutput, WorkerStops, FullInv
  <2>10. CASE CommitRead
    <3>1. inQueue' = Tail(inQueue) /\ inQueue # << >> /\ inQueue \in Seq(Blocks)
      BY <2>10 DEF CommitRead, TypeInv, TypeOK, Positions
    <3>2. Len(inQueue') = Len(inQueue) - 1
      BY <3>1, HeadTailProperties
    <3>3. ~IsFull(inQueue')
      BY <2>1, <3>2, DepthAssumption DEF IsFull
    <3> QED BY <3>3 DEF FullInv, IsFull
  <2>11. CASE UNCHANGED vars
    BY <2>11 DEF vars, FullInv, IsFull, history, sharedVars, sdkVars
  <2> QED BY <2>2, <2>3, <2>4, <2>5, <2>6, <2>7, <2>8, <2>9, <2>10, <2>11
         DEF Next, PluginStep, WorkerStep
<1>3. FullInv => FullIsSignalled
  BY DEF FullInv, FullIsSignalled
<1> QED BY <1>1, <1>2, <1>3, TypeInvariant, PTL DEF Spec

\* SendTokensKept: a wake-up of the worker stands for a block in in_queue.
LEMMA SendTokensKept ==
  ASSUME TypeInv, TypeInv', SendTokens, [Next]_vars
  PROVE  SendTokens'
<1>1. eSend \in Nat /\ inQueue \in Seq(Blocks) /\ Len(inQueue) \in Nat
  BY DEF TypeInv, TypeOK
<1> USE DEF SendTokens, One
<1>2. CASE CommitWrite
  <2>1. block \in Blocks
    BY <1>2 DEF CommitWrite, TypeInv, TypeOK, Positions, Blocks
  <2>2. Len(Append(inQueue, block)) = Len(inQueue) + 1
    BY <1>1, <2>1, AppendProperties
  <2> QED BY <1>1, <1>2, <2>2 DEF CommitWrite
<1>3. CASE Dispatch \/ SignalWorker \/ SignalFails \/ ReadEvent \/ PollTimeout \/ TakeOutput
  BY <1>1, <1>3 DEF Dispatch, SignalWorker, SignalFails, ReadEvent, PollTimeout, TakeOutput,
              history, sharedVars
<1>4. CASE CommitRead
  <2>1. Len(Tail(inQueue)) = Len(inQueue) - 1
    BY <1>1, <1>4, HeadTailProperties DEF CommitRead, TypeInv, Positions
  <2> QED BY <1>1, <1>4, <2>1 DEF CommitRead, sdkVars
<1>5. CASE Heartbeat \/ WakeUp \/ WorkerTimeout \/ PeekInput \/ WriteOutput \/ SignalPlugin
           \/ SignalPluginFails \/ (\E success \in BOOLEAN : Process(success))
  BY <1>1, <1>5 DEF Heartbeat, WakeUp, WorkerTimeout, PeekInput, Process, WriteOutput,
              SignalPlugin, SignalPluginFails, history, sharedVars, sdkVars
<1>6. CASE WorkerStops \/ UNCHANGED vars
  BY <1>1, <1>6 DEF WorkerStops, vars, history, sharedVars, sdkVars
<1> QED BY <1>2, <1>3, <1>4, <1>5, <1>6 DEF Next, PluginStep, WorkerStep

\* RecvTokensKept: a wake-up of the audio thread stands for a block in out_queue.
\* A dropped block is signalled too, so a full queue has to hold a block for the
\* counter, for the callback and for the worker: three.
LEMMA RecvTokensKept ==
  ASSUME Depth >= 4, TypeInv, TypeInv', RecvTokens, [Next]_vars
  PROVE  RecvTokens'
<1>1. eRecv \in Nat /\ outQueue \in Seq(Blocks) /\ Len(outQueue) \in Nat
  BY DEF TypeInv, TypeOK
<1> USE DEF RecvTokens, One
<1>2. CASE TakeOutput
  <2>1. outQueue # << >>
    BY <1>1, <1>2 DEF TakeOutput
  <2>2. Len(Tail(outQueue)) = Len(outQueue) - 1
    BY <1>1, <2>1, HeadTailProperties
  <2> QED BY <1>1, <1>2, <2>1, <2>2 DEF TakeOutput
<1>3. CASE Dispatch \/ CommitWrite \/ SignalWorker \/ SignalFails \/ ReadEvent \/ PollTimeout
  BY <1>1, <1>3 DEF Dispatch, CommitWrite, SignalWorker, SignalFails, ReadEvent, PollTimeout,
              history, sharedVars
<1>4. CASE WriteOutput
  <2>1. wpc = "output" /\ wpc' = "release" /\ eRecv' = eRecv /\ ppc' = ppc
    BY <1>4 DEF WriteOutput, sdkVars
  <2>2. CASE IsFull(outQueue)
    <3>1. Len(outQueue') >= 3
      BY <1>4, <2>2, DepthAssumption DEF WriteOutput, IsFull
    <3> QED BY <1>1, <2>1, <3>1
  <2>3. CASE ~IsFull(outQueue)
    <3>1. Head(inQueue) \in Blocks
      BY <2>1, HeadTailProperties DEF TypeInv, TypeOK, Positions
    <3>2. Len(outQueue') = Len(outQueue) + 1
      BY <1>1, <1>4, <2>3, <3>1, AppendProperties DEF WriteOutput
    <3> QED BY <1>1, <2>1, <3>2
  <2> QED BY <2>2, <2>3
<1>5. CASE Heartbeat \/ WakeUp \/ WorkerTimeout \/ PeekInput \/ CommitRead \/ SignalPlugin
           \/ SignalPluginFails \/ (\E success \in BOOLEAN : Process(success))
  BY <1>1, <1>5 DEF Heartbeat, WakeUp, WorkerTimeout, PeekInput, Process, CommitRead,
              SignalPlugin, SignalPluginFails, history, sharedVars, sdkVars
<1>6. CASE WorkerStops \/ UNCHANGED vars
  BY <1>1, <1>6 DEF WorkerStops, vars, history, sharedVars, sdkVars
<1> QED BY <1>2, <1>3, <1>4, <1>5, <1>6 DEF Next, PluginStep, WorkerStep

\* NoSpuriousWakeUp: neither side is woken for an empty queue, with queues of three
\* blocks or more (the code has 15).
THEOREM NoSpuriousWakeUp ==
  ASSUME Depth >= 4
  PROVE  Spec => []WakeUpFindsBlock
<1>1. Init => SendTokens /\ RecvTokens
  BY DEF Init, SendTokens, RecvTokens, One
<1>2. TypeInv /\ TypeInv' /\ SendTokens /\ RecvTokens /\ [Next]_vars
        => (SendTokens /\ RecvTokens)'
  BY SendTokensKept, RecvTokensKept
<1>3. TypeInv /\ SendTokens /\ RecvTokens => WakeUpFindsBlock
  BY DEF TypeInv, TypeOK, SendTokens, RecvTokens, One, WakeUpFindsBlock
<1> QED BY <1>1, <1>2, <1>3, TypeInvariant, PTL DEF Spec

-----------------------------------------------------------------------------
(* The watchdog. *)

\* Quotient: a number of whole turns is at most the quotient.
LEMMA Quotient ==
  ASSUME NEW a \in Nat, NEW c \in Nat \ {0}, NEW q \in Nat, q * c <= a
  PROVE  q <= a \div c
<1> DEFINE d == a \div c
<1>1. d \in Nat /\ a < (d + 1) * c
  OBVIOUS
<1> HIDE DEF d
<1>2. q > d => q * c >= (d + 1) * c
  BY <1>1
<1>3. (d + 1) * c \in Nat /\ q * c \in Nat
  BY <1>1
<1>4. q <= d
  BY <1>1, <1>2, <1>3
<1> QED BY <1>4 DEF d

\* WatchdogKept: the watchdog lets a stopped worker be fed only while the counter
\* is small.
LEMMA WatchdogKept ==
  ASSUME TypeInv, TypeInv', Watchdog, [Next]_vars
  PROVE  Watchdog'
<1>1. /\ block \in Nat /\ fed \in Nat /\ stalled \in 0 .. CounterMod - 1
      /\ beaten \in BOOLEAN /\ beaten' \in BOOLEAN
  BY DEF TypeInv, TypeOK
<1>2. StallLimit \in Nat /\ CounterMod \in Nat /\ CounterMod > StallLimit + 1
  BY WatchdogAssumption
<1>3. Fed \in Nat /\ fed <= Fed /\ Fed <= fed + 1
  BY <1>1 DEF Fed
<1>4. CASE Dispatch
  <2>1. /\ ppc = "idle" /\ block' = block + 1 /\ fed' = fed /\ wpc' = wpc /\ Fed = fed
    BY <1>1, <1>4 DEF Dispatch, history, Fed
  <2>2. CASE WorkerFailed
    <3>1. stalled' = stalled /\ beaten' = beaten /\ Fed' = Fed
      BY <1>4, <2>1, <2>2 DEF Dispatch, Fed
    <3>2. ASSUME NEW q \in Nat, q * CounterMod + stalled <= block
          PROVE  q * CounterMod + stalled <= block'
      <4>1. q * CounterMod \in Nat
        BY <1>2
      <4> QED BY <1>1, <1>2, <2>1, <3>2, <4>1
    <3>3. stalled' <= block'
      BY <1>1, <1>2, <2>1, <3>1 DEF Watchdog
    <3> QED BY <2>1, <3>1, <3>2, <3>3 DEF Watchdog
  <2>3. CASE ~WorkerFailed
    <3>1. /\ beaten' = FALSE /\ stalled' = Stalled
          /\ Fed' <= fed + 1 /\ (Stalled > StallLimit => Fed' = fed) /\ Fed' \in Nat
      BY <1>1, <1>4, <2>1, <2>3 DEF Dispatch, Fed
    <3>2. stalled' <= block'
      BY <1>1, <1>2, <2>1, <3>1 DEF Watchdog, Stalled
    <3>3. ASSUME wpc' = "dead"
          PROVE  \E q \in Nat : /\ q * CounterMod + stalled' <= block'
                                /\ Fed' <= 2 + q * (StallLimit + 1) + Least(stalled', StallLimit)
      <4>1. CASE beaten
        <5>1. stalled' = 0 /\ Fed' <= 2
          BY <1>1, <2>1, <3>1, <3>3, <4>1 DEF Stalled, Watchdog
        <5>2. 0 * CounterMod + stalled' <= block' /\ 0 * (StallLimit + 1) = 0
          BY <1>1, <1>2, <2>1, <5>1
        <5>3. Least(stalled', StallLimit) = 0
          BY <1>2, <5>1 DEF Least
        <5> QED BY <5>1, <5>2, <5>3
      <4>2. CASE ~beaten
        <5>1. PICK q \in Nat : /\ q * CounterMod + stalled <= block
                               /\ fed <= 2 + q * (StallLimit + 1) + Least(stalled, StallLimit)
          BY <2>1, <3>3, <4>2 DEF Watchdog
        <5>2. q * CounterMod \in Nat /\ q * (StallLimit + 1) \in Nat
          BY <1>2
        <5>3. CASE stalled + 1 < CounterMod
          <6>1. stalled' = stalled + 1
            BY <1>1, <1>2, <3>1, <4>2, <5>3 DEF Stalled
          <6>2. q * CounterMod + stalled' <= block'
            BY <1>1, <2>1, <5>1, <5>2, <6>1
          <6>3. Fed' <= 2 + q * (StallLimit + 1) + Least(stalled', StallLimit)
            BY <1>1, <1>2, <3>1, <5>1, <5>2, <6>1 DEF Least
          <6> QED BY <6>2, <6>3
        <5>4. CASE stalled + 1 = CounterMod
          <6>1. stalled' = 0
            BY <1>1, <1>2, <3>1, <4>2, <5>4 DEF Stalled
          <6>2. (q + 1) * CounterMod = q * CounterMod + CounterMod
                /\ (q + 1) * (StallLimit + 1) = q * (StallLimit + 1) + StallLimit + 1
            BY <1>2
          <6>3. (q + 1) * CounterMod + stalled' <= block'
            BY <1>1, <1>2, <2>1, <5>1, <5>2, <5>4, <6>1, <6>2
          <6>4. Fed' <= 2 + (q + 1) * (StallLimit + 1) + Least(stalled', StallLimit)
            BY <1>1, <1>2, <3>1, <5>1, <5>2, <5>4, <6>1, <6>2 DEF Least
          <6>5. q + 1 \in Nat
            OBVIOUS
          <6> QED BY <6>3, <6>4, <6>5
        <5> QED BY <1>1, <1>2, <5>3, <5>4
      <4> QED BY <4>1, <4>2
    <3> QED BY <2>1, <3>1, <3>2, <3>3 DEF Watchdog
  <2> QED BY <2>2, <2>3
<1>5. CASE CommitWrite
  <2>1. /\ UNCHANGED <<stalled, block, wpc, beaten>>
        /\ wpc = "dead" => Fed' = Fed
        /\ wpc # "dead" => fed' = fed
    BY <1>1, <1>5 DEF CommitWrite, Fed
  <2> QED BY <2>1 DEF Watchdog
<1>6. CASE SignalWorker \/ SignalFails \/ ReadEvent \/ PollTimeout \/ TakeOutput
  <2>1. UNCHANGED <<stalled, block, wpc, beaten, fed>> /\ Fed' = Fed
    BY <1>6 DEF SignalWorker, SignalFails, ReadEvent, PollTimeout, TakeOutput, Fed,
                history, sharedVars
  <2> QED BY <2>1 DEF Watchdog
<1>7. CASE WorkerStep
  <2>1. UNCHANGED <<stalled, block, fed>> /\ wpc # "dead" /\ wpc' # "dead"
    BY <1>7 DEF WorkerStep, Heartbeat, WakeUp, WorkerTimeout, PeekInput, Process,
                WriteOutput, CommitRead, SignalPlugin, SignalPluginFails, history, sharedVars,
                sdkVars
  <2> QED BY <2>1 DEF Watchdog
<1>8. CASE WorkerStops
  <2>1. UNCHANGED <<stalled, block, beaten, fed>> /\ Fed' = Fed /\ wpc # "dead" /\ fed = 0
    BY <1>8 DEF WorkerStops, Fed, history, sharedVars, sdkVars, Watchdog
  <2>2. stalled <= block /\ Fed <= 1
    BY <1>3, <2>1 DEF Watchdog
  <2>3. 0 * CounterMod + stalled <= block
        /\ Fed <= 2 + 0 * (StallLimit + 1) + Least(stalled, StallLimit)
    BY <1>1, <1>2, <1>3, <2>2 DEF Least
  <2> QED BY <2>1, <2>2, <2>3 DEF Watchdog
<1>9. CASE UNCHANGED vars
  <2>1. UNCHANGED <<stalled, block, wpc, beaten, fed>> /\ Fed' = Fed
    BY <1>9 DEF vars, Fed, history, sharedVars, sdkVars
  <2> QED BY <2>1 DEF Watchdog
<1> QED BY <1>4, <1>5, <1>6, <1>7, <1>8, <1>9 DEF Next, PluginStep

\* DeadWorkerBounded: a worker that has stopped is fed a bounded number of blocks.
THEOREM DeadWorkerBounded == Spec => []DeadWorkerBound
<1>1. Init => Watchdog
  BY DEF Init, Watchdog
<1>2. TypeInv /\ TypeInv' /\ Watchdog /\ [Next]_vars => Watchdog'
  BY WatchdogKept
<1>3. TypeInv /\ Watchdog => DeadWorkerBound
  <2> SUFFICES ASSUME TypeInv, Watchdog PROVE DeadWorkerBound
    OBVIOUS
  <2>1. /\ block \in Nat /\ fed \in Nat /\ stalled \in 0 .. CounterMod - 1
        /\ beaten \in BOOLEAN
    BY DEF TypeInv, TypeOK
  <2>2. StallLimit \in Nat /\ CounterMod \in Nat \ {0} /\ CounterMod > StallLimit + 1
    BY WatchdogAssumption
  <2> DEFINE d == block \div CounterMod
  <2>3. d \in Nat
    BY <2>1, <2>2
  <2>4. ASSUME NEW q \in Nat, q * CounterMod + stalled <= block PROVE q <= d
    <3>1. q * CounterMod \in Nat
      BY <2>2
    <3>2. q * CounterMod <= block
      BY <2>1, <2>2, <2>4, <3>1
    <3> QED BY <2>1, <2>2, <3>2, Quotient
  <2> HIDE DEF d
  <2>5. (StallLimit + 1) * d \in Nat
    BY <2>2, <2>3
  <2>6. fed <= StallLimit + 2 + (StallLimit + 1) * d
    <3>1. CASE wpc # "dead" \/ beaten
      <4>1. fed <= 1
        BY <2>1, <3>1 DEF Watchdog, Fed
      <4> QED BY <2>1, <2>2, <2>5, <4>1
    <3>2. CASE wpc = "dead" /\ ~beaten
      <4>1. PICK q \in Nat : /\ q * CounterMod + stalled <= block
                             /\ Fed <= 2 + q * (StallLimit + 1) + Least(stalled, StallLimit)
        BY <3>2 DEF Watchdog
      <4>2. fed <= Fed /\ Fed \in Nat /\ Least(stalled, StallLimit) <= StallLimit
            /\ Least(stalled, StallLimit) \in Nat
        BY <2>1, <2>2 DEF Fed, Least
      <4>3. q <= d
        BY <2>4, <4>1
      <4>4. q * (StallLimit + 1) <= (StallLimit + 1) * d /\ q * (StallLimit + 1) \in Nat
        BY <2>2, <2>3, <4>3
      <4> QED BY <2>1, <2>2, <2>5, <4>1, <4>2, <4>4
    <3> QED BY <3>1, <3>2
  <2> QED BY <2>6 DEF DeadWorkerBound, d
<1> QED BY <1>1, <1>2, <1>3, TypeInvariant, PTL DEF Spec
=============================================================================
