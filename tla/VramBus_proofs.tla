--------------------------- MODULE VramBus_proofs ---------------------------
(***************************************************************************)
(* Buffers on the device belong to one owner and keep what was uploaded,   *)
(* for every size of the pool and of the buses and any number of requests. *)
(***************************************************************************)
EXTENDS VramBus, TLAPS, SequenceTheorems, WellFoundedInduction

(* The inductive invariant, part by part. *)

\* An answer on its way that grants a buffer: nobody else has it.
GrantsReserved ==
  \A j \in 1 .. Len(responses) : responses[j].handle # NoHandle =>
    use[responses[j].handle] = "vram" /\ responses[j].handle \notin held

GrantsDistinct ==
  \A j, k \in 1 .. Len(responses) :
    responses[j].handle # NoHandle /\ responses[j].handle = responses[k].handle => j = k

\* A buffer about to be freed has nobody else's either, and is freed once.
FreesReserved ==
  \A i \in 1 .. Len(requests) : requests[i].type = "free" =>
    /\ requests[i].handle \in Handles /\ use[requests[i].handle] = "vram"
    /\ requests[i].handle \notin held
    /\ \A j \in 1 .. Len(responses) : responses[j].handle # requests[i].handle

FreesDistinct ==
  \A i, k \in 1 .. Len(requests) :
    /\ requests[i].type = "free" /\ requests[k].type = "free"
    /\ requests[i].handle = requests[k].handle
    => i = k

\* A buffer of a plugin is at one place: held, granted by an answer that is still on
\* its way, or about to be freed.
OneOwner ==
  HeldIsReserved /\ GrantsReserved /\ GrantsDistinct /\ FreesReserved /\ FreesDistinct

\* The ids on the buses have been given out.
IdsGivenOut ==
  /\ \A i \in 1 .. Len(requests) : requests[i].id <= serial
  /\ \A j \in 1 .. Len(responses) : responses[j].id <= serial

\* A call is served last, and an answer with its id is an answer to it.
OwnAnswer ==
  call # "none" =>
    /\ \A i \in 1 .. Len(requests) : requests[i].id = serial =>
         /\ i = Len(requests) /\ requests[i].type = call
         /\ call = "upload" => requests[i].handle = target
    /\ \A j \in 1 .. Len(responses) : responses[j].id = serial =>
         /\ Len(requests) = 0
         /\ call = "alloc" /\ responses[j].success => responses[j].handle # NoHandle

\* What the plugin knows of a buffer is not about to be overwritten.
NoneOverwritten ==
  \A i \in 1 .. Len(requests) : requests[i].type = "upload" =>
    requests[i].handle \in Handles /\ uploaded[requests[i].handle] = NoData

\* The staging area holds the data of the upload that is waited for.
UploadUnderWay ==
  call = "upload" =>
    /\ target \in held /\ staging = payload
    /\ \A j \in 1 .. Len(responses) :
         responses[j].id = serial /\ responses[j].success => content[target] = payload

UnknownUnlessHeld == \A h \in Handles \ held : uploaded[h] = NoData

UploadsSettled == UploadSticks /\ UnknownUnlessHeld /\ NoneOverwritten /\ UploadUnderWay

-----------------------------------------------------------------------------
(* The pool and the buses. *)

\* MinExists: a set of numbers that is not empty has a least member.
LEMMA MinExists ==
  ASSUME NEW S, S \subseteq Nat, S # {}
  PROVE  Min(S) \in S
<1> DEFINE R == {p \in Nat \X Nat : p[1] < p[2]}
<1>1. IsWellFoundedOn(R, Nat)
  BY NatLessThanWellFounded, Zenon DEF OpToRel
<1>2. PICK x \in S : \A y \in S : ~(<<y, x>> \in R)
  BY <1>1, WFMin
<1>3. \A y \in S : ~(y < x)
  BY <1>2
<1>4. \A y \in S : x <= y
  BY <1>3
<1> QED BY <1>4 DEF Min

\* FirstFreeIsFree: the pool gives out an entry that is in nobody's use, or none.
LEMMA FirstFreeIsFree ==
  ASSUME NEW vkOk \in BOOLEAN
  PROVE  LET h == FirstFree(vkOk)
         IN  /\ h \in 0 .. PoolSize - 1
             /\ h # NoHandle => h \in Handles /\ use[h] = "free"
<1>1. PoolSize \in Nat \ {0}
  BY PoolAssumption
<1>2. Free \subseteq Nat /\ Free \subseteq Handles
  BY <1>1 DEF Free, Handles
<1>3. CASE vkOk /\ Free # {}
  <2>1. Min(Free) \in Free
    BY <1>2, <1>3, MinExists
  <2> QED BY <1>1, <1>3, <2>1 DEF FirstFree, Free, Handles
<1>4. CASE ~(vkOk /\ Free # {})
  BY <1>1, <1>4 DEF FirstFree, NoHandle
<1> QED BY <1>3, <1>4

\* PushKeeps: a bus never holds BusDepth messages, and loses none.
LEMMA PushKeeps ==
  ASSUME NEW S, NEW bus \in Seq(S), NEW m \in S, Len(bus) < BusDepth
  PROVE  LET new == Push(bus, m)
         IN  /\ new \in Seq(S) /\ Len(new) < BusDepth
             /\ IsFull(bus) => new = bus
             /\ ~IsFull(bus) => Len(new) = Len(bus) + 1
             /\ \A i \in 1 .. Len(new) :
                  \/ i \in 1 .. Len(bus) /\ new[i] = bus[i]
                  \/ ~IsFull(bus) /\ i = Len(bus) + 1 /\ new[i] = m
<1>1. Len(bus) \in Nat /\ BusDepth \in Nat
  BY PoolAssumption
<1>2. CASE IsFull(bus)
  BY <1>1, <1>2 DEF Push
<1>3. CASE ~IsFull(bus)
  <2> DEFINE new == Append(bus, m)
  <2>1. /\ new \in Seq(S) /\ Len(new) = Len(bus) + 1 /\ new[Len(bus) + 1] = m
        /\ \A i \in 1 .. Len(bus) : new[i] = bus[i]
    BY AppendProperties
  <2>2. Push(bus, m) = new
    BY <1>3 DEF Push
  <2> HIDE DEF new
  <2>3. Len(new) < BusDepth
    BY <1>1, <1>3, <2>1 DEF IsFull
  <2>4. \A i \in 1 .. Len(new) : \/ i \in 1 .. Len(bus) /\ new[i] = bus[i]
                                 \/ i = Len(bus) + 1 /\ new[i] = m
    BY <1>1, <2>1
  <2> QED BY <1>3, <2>1, <2>2, <2>3, <2>4
<1> QED BY <1>2, <1>3

\* PopKeeps: what is left on a bus when its oldest message is taken.
LEMMA PopKeeps ==
  ASSUME NEW S, NEW bus \in Seq(S), bus # << >>, Len(bus) < BusDepth
  PROVE  /\ Head(bus) \in S /\ Head(bus) = bus[1] /\ 1 \in 1 .. Len(bus)
         /\ Tail(bus) \in Seq(S) /\ Len(Tail(bus)) < BusDepth
         /\ Len(bus) \in Nat \ {0} /\ Len(Tail(bus)) = Len(bus) - 1
         /\ \A i \in 1 .. Len(Tail(bus)) : i + 1 \in 1 .. Len(bus) /\ Tail(bus)[i] = bus[i + 1]
<1>1. Len(bus) \in Nat \ {0} /\ BusDepth \in Nat
  BY PoolAssumption, EmptySeq
<1>2. /\ Head(bus) \in S /\ Tail(bus) \in Seq(S) /\ Len(Tail(bus)) = Len(bus) - 1
      /\ \A i \in 1 .. Len(Tail(bus)) : Tail(bus)[i] = bus[i + 1]
  BY HeadTailProperties
<1> QED BY <1>1, <1>2

-----------------------------------------------------------------------------
(* Types. *)

Buses ==
  /\ requests \in Seq(Requests) /\ Len(requests) < BusDepth
  /\ responses \in Seq(Responses) /\ Len(responses) < BusDepth

Pool ==
  /\ use \in [Handles -> {"free", "vram", "state", "shm"}]
  /\ content \in [Handles -> Data \cup {NoData}]

Rest ==
  /\ staging \in Data \cup {NoData}
  /\ wpc \in {"bypass", "audio", "serve"}
  /\ shmHandle \in 0 .. PoolSize - 1 /\ stateHandle \in {Unknown} \cup 0 .. PoolSize - 1
  /\ call \in {"none", "alloc", "upload"} /\ polls \in 0 .. MaxPolls
  /\ serial \in 0 .. MaxRequests
  /\ target \in 0 .. PoolSize - 1 /\ payload \in Data \cup {NoData}
  /\ uploaded \in [Handles -> Data \cup {NoData}]

\* TypeParts: the types are the conjunction of the parts.
LEMMA TypeParts == TypeOK <=> Buses /\ Pool /\ Rest /\ held \subseteq Handles /\ bypass \in BOOLEAN
BY DEF TypeOK, Buses, Pool, Rest

\* HandlesAreNumbers: a handle is not 0.
LEMMA HandlesAreNumbers ==
  /\ Handles \subseteq 0 .. PoolSize - 1 /\ NoHandle \notin Handles /\ NoHandle \in 0 .. PoolSize - 1
  /\ \A h \in 0 .. PoolSize - 1 : h # NoHandle => h \in Handles
BY PoolAssumption DEF Handles, NoHandle

\* TakeKeeps: taking an entry that is free, or none, leaves the others alone.
LEMMA TakeKeeps ==
  ASSUME Pool, NEW h \in 0 .. PoolSize - 1, NEW purpose \in {"vram", "state", "shm"},
         h # NoHandle => h \in Handles /\ use[h] = "free", Take(h, purpose)
  PROVE  /\ Pool'
         /\ \A u \in Handles : use[u] # "free" => use'[u] = use[u] /\ content'[u] = content[u]
         /\ h # NoHandle => use'[h] = purpose
<1>1. /\ use' = [u \in Handles |-> IF u = h THEN purpose ELSE use[u]]
      /\ content' = [u \in Handles |-> IF u = h THEN NoData ELSE content[u]]
  BY DEF Take
<1>2. Pool'
  BY <1>1 DEF Pool
<1>3. \A u \in Handles : use[u] # "free" => u # h
  BY HandlesAreNumbers
<1> QED BY <1>1, <1>2, <1>3

\* ServeAnswers: what the worker's answer is, by the type of the request.
LEMMA ServeAnswers ==
  ASSUME TypeOK, NEW vkOk \in BOOLEAN, Serve(vkOk)
  PROVE  \E a \in Responses :
           /\ requests # << >> /\ requests' = Tail(requests)
           /\ responses' = Push(responses, a) /\ a.id = Head(requests).id
           /\ Pool'
           /\ \/ /\ Head(requests).type = "alloc" /\ a.handle = FirstFree(vkOk)
                 /\ a.success => a.handle # NoHandle
                 /\ Take(FirstFree(vkOk), "vram")
              \/ /\ Head(requests).type = "upload" /\ a.handle = NoHandle
                 /\ use' = use
                 /\ \/ a.success /\ Head(requests).handle \in Handles
                       /\ content' = [content EXCEPT ![Head(requests).handle] = staging]
                    \/ ~a.success /\ content' = content
              \/ /\ Head(requests).type = "free" /\ a.handle = NoHandle /\ content' = content
                 /\ use' = IF IsActive(Head(requests).handle)
                           THEN [use EXCEPT ![Head(requests).handle] = "free"] ELSE use
<1> DEFINE m == Head(requests)
<1>0. Buses /\ Pool /\ Rest
  BY TypeParts
<1>1. requests # << >> /\ requests' = Tail(requests)
  BY DEF Serve
<1>2. m \in Requests
  BY <1>0, <1>1, PopKeeps DEF Buses
<1>3. m.id \in 0 .. MaxRequests /\ m.handle \in 0 .. PoolSize - 1
  BY <1>2 DEF Requests
<1>4. /\ FirstFree(vkOk) \in 0 .. PoolSize - 1
      /\ FirstFree(vkOk) # NoHandle =>
           FirstFree(vkOk) \in Handles /\ use[FirstFree(vkOk)] = "free"
  BY FirstFreeIsFree
<1>5. CASE ServeAllocate(vkOk)
  <2> DEFINE a == Answer(m.id, FirstFree(vkOk), FirstFree(vkOk) # NoHandle)
  <2>1. /\ m.type = "alloc" /\ Take(FirstFree(vkOk), "vram") /\ responses' = Push(responses, a)
    BY <1>5 DEF ServeAllocate, Reply
  <2>2. (FirstFree(vkOk) # NoHandle) \in BOOLEAN
    OBVIOUS
  <2>3. a \in Responses /\ a.id = m.id /\ a.handle = FirstFree(vkOk)
        /\ a.success = (FirstFree(vkOk) # NoHandle)
    BY <1>3, <1>4, <2>2 DEF Responses, Answer
  <2>4. Pool'
    BY <1>0, <1>4, <2>1, TakeKeeps
  <2> QED BY <1>1, <2>1, <2>3, <2>4
<1>6. CASE ServeUpload(vkOk)
  <2> DEFINE ok == Uploads(m.handle, vkOk)
             a == Answer(m.id, NoHandle, ok)
  <2>1. /\ m.type = "upload" /\ use' = use /\ responses' = Push(responses, a)
        /\ content' = IF ok THEN [content EXCEPT ![m.handle] = staging] ELSE content
    BY <1>6 DEF ServeUpload, Reply, VulkanUpload
  <2>2. ok \in BOOLEAN /\ (ok => m.handle \in Handles)
    BY DEF Uploads, IsActive
  <2> HIDE DEF ok
  <2>3. a \in Responses /\ a.id = m.id /\ a.handle = NoHandle /\ a.success = ok
    BY <1>3, <2>2, HandlesAreNumbers DEF Responses, Answer
  <2>4. Pool'
    BY <1>0, <2>1, <2>2 DEF Pool, Rest
  <2>5. \/ a.success /\ m.handle \in Handles /\ content' = [content EXCEPT ![m.handle] = staging]
        \/ ~a.success /\ content' = content
    BY <2>1, <2>2, <2>3
  <2> HIDE DEF a
  <2> QED BY <1>1, <2>1, <2>3, <2>4, <2>5
<1>7. CASE ServeFree
  <2> DEFINE a == Answer(m.id, NoHandle, TRUE)
  <2>1. /\ m.type = "free" /\ content' = content /\ responses' = Push(responses, a)
        /\ use' = IF IsActive(m.handle) THEN [use EXCEPT ![m.handle] = "free"] ELSE use
    BY <1>7 DEF ServeFree, Reply, VulkanFree
  <2>2. TRUE \in BOOLEAN
    OBVIOUS
  <2>3. a \in Responses /\ a.id = m.id /\ a.handle = NoHandle
    BY <1>3, <2>2, HandlesAreNumbers DEF Responses, Answer
  <2>4. Pool'
    BY <1>0, <2>1 DEF Pool
  <2> HIDE DEF a
  <2> QED BY <1>1, <2>1, <2>3, <2>4
<1> QED BY <1>5, <1>6, <1>7 DEF Serve

\* SendKeeps: a request goes to the bus, or nowhere.
LEMMA SendKeeps ==
  ASSUME TypeOK, NEW kind \in {"alloc", "upload"}, NEW h \in 0 .. PoolSize - 1,
         SendAndWait(kind, h)
  PROVE  /\ requests' \in Seq(Requests) /\ Len(requests') < BusDepth
         /\ call = "none" /\ call' \in {"none", kind} /\ polls' \in 0 .. MaxPolls
         /\ serial' \in 0 .. MaxRequests /\ serial' = serial + 1 /\ serial \in Nat
         /\ Len(requests) \in Nat
         /\ \A i \in 1 .. Len(requests') :
              \/ i \in 1 .. Len(requests) /\ requests'[i] = requests[i]
              \/ /\ i = Len(requests) + 1 /\ i = Len(requests') /\ call' = kind
                 /\ requests'[i] = [id |-> serial + 1, type |-> kind, handle |-> h]
<1> DEFINE m == [id |-> serial + 1, type |-> kind, handle |-> h]
<1>1. /\ requests \in Seq(Requests) /\ Len(requests) < BusDepth /\ serial \in 0 .. MaxRequests
      /\ MaxRequests \in Nat /\ MaxPolls \in Nat
  BY PoolAssumption DEF TypeOK
<1>2. /\ call = "none" /\ serial < MaxRequests /\ serial' = serial + 1
      /\ requests' = Push(requests, m) /\ polls' = MaxPolls
      /\ call' = IF IsFull(requests) THEN "none" ELSE kind
  BY DEF SendAndWait
<1>3. m \in Requests
  BY <1>1, <1>2 DEF Requests
<1> HIDE DEF m
<1>4. /\ requests' \in Seq(Requests) /\ Len(requests') < BusDepth
      /\ ~IsFull(requests) => Len(requests') = Len(requests) + 1
      /\ \A i \in 1 .. Len(requests') :
           \/ i \in 1 .. Len(requests) /\ requests'[i] = requests[i]
           \/ ~IsFull(requests) /\ i = Len(requests) + 1 /\ requests'[i] = m
  <2> DEFINE new == Push(requests, m)
  <2>1. /\ new \in Seq(Requests) /\ Len(new) < BusDepth
        /\ ~IsFull(requests) => Len(new) = Len(requests) + 1
        /\ \A i \in 1 .. Len(new) :
             \/ i \in 1 .. Len(requests) /\ new[i] = requests[i]
             \/ ~IsFull(requests) /\ i = Len(requests) + 1 /\ new[i] = m
    BY <1>1, <1>3, PushKeeps
  <2>2. requests' = new
    BY <1>2
  <2> HIDE DEF new
  <2> QED BY <2>1, <2>2
<1>5. polls' \in 0 .. MaxPolls /\ serial' \in 0 .. MaxRequests /\ serial \in Nat
  BY <1>1, <1>2
<1> QED BY <1>1, <1>2, <1>4, <1>5 DEF m

\* TypeKept: the types are kept by every step, if the handles that are granted are
\* handles.
LEMMA TypeKept ==
  ASSUME TypeOK, OwnAnswer, [Next]_vars
  PROVE  TypeOK'
<1>0. Buses /\ Pool /\ Rest /\ held \subseteq Handles /\ bypass \in BOOLEAN
  BY TypeParts
<1>a. Handles \subseteq 0 .. PoolSize - 1
  BY HandlesAreNumbers
<1>1. CASE AllocateVram
  <2>1. SendAndWait("alloc", NoHandle)
        /\ UNCHANGED <<responses, staging, bypass, use, content, wpc, shmHandle, stateHandle,
                       target, payload, held, uploaded>>
    BY <1>1 DEF AllocateVram, poolVars, workerVars
  <2>2. /\ requests' \in Seq(Requests) /\ Len(requests') < BusDepth
        /\ call' \in {"none", "alloc"} /\ polls' \in 0 .. MaxPolls
        /\ serial' \in 0 .. MaxRequests
    BY <2>1, SendKeeps, HandlesAreNumbers
  <2> QED BY <2>1, <2>2 DEF TypeOK
<1>2. ASSUME NEW h \in Handles, NEW d \in Data, UploadBuffer(h, d) PROVE TypeOK'
  <2>1. /\ SendAndWait("upload", h) /\ staging' = d /\ target' = h /\ payload' = d
        /\ uploaded' = [uploaded EXCEPT ![h] = NoData]
        /\ UNCHANGED <<responses, bypass, use, content, wpc, shmHandle, stateHandle, held>>
    BY <1>2 DEF UploadBuffer, poolVars, workerVars
  <2>2. h \in 0 .. PoolSize - 1
    BY <1>a
  <2>3. /\ requests' \in Seq(Requests) /\ Len(requests') < BusDepth
        /\ call' \in {"none", "upload"} /\ polls' \in 0 .. MaxPolls
        /\ serial' \in 0 .. MaxRequests
    BY <2>1, <2>2, SendKeeps
  <2>4. uploaded' \in [Handles -> Data \cup {NoData}]
    BY <1>0, <2>1 DEF Rest
  <2> QED BY <2>1, <2>2, <2>3, <2>4 DEF TypeOK
<1>3. ASSUME NEW h \in Handles, FreeVram(h) PROVE TypeOK'
  <2> DEFINE m == [id |-> 0, type |-> "free", handle |-> h]
  <2>1. /\ requests' = Push(requests, m) /\ held' = held \ {h}
        /\ uploaded' = [uploaded EXCEPT ![h] = NoData]
        /\ UNCHANGED <<responses, staging, bypass, use, content, wpc, shmHandle, stateHandle,
                       call, polls, target, payload, serial>>
    BY <1>3 DEF FreeVram, poolVars, workerVars, callVars
  <2>2. m \in Requests
    BY <1>a, PoolAssumption DEF Requests
  <2>3. requests' \in Seq(Requests) /\ Len(requests') < BusDepth
    BY <1>0, <2>1, <2>2, PushKeeps DEF Buses
  <2>4. uploaded' \in [Handles -> Data \cup {NoData}]
    BY <1>0, <2>1 DEF Rest
  <2> QED BY <2>1, <2>3, <2>4 DEF TypeOK
<1>4. CASE Poll
  <2>1. /\ polls' = polls - 1 /\ polls > 0
        /\ UNCHANGED <<requests, staging, bypass, use, content, wpc, shmHandle, stateHandle,
                       target, payload, serial>>
    BY <1>4 DEF Poll, poolVars, workerVars
  <2>2. polls' \in 0 .. MaxPolls
    BY <1>0, <2>1, PoolAssumption DEF Rest
  <2>3. CASE responses = << >>
    <3>1. UNCHANGED <<responses, call, held, uploaded>>
      BY <1>4, <2>3 DEF Poll
    <3> QED BY <2>1, <2>2, <3>1 DEF TypeOK
  <2>4. CASE responses # << >>
    <3> DEFINE r == Head(responses)
    <3>1. /\ responses' = Tail(responses) /\ call' \in {call, "none"}
          /\ held' = IF Grants(r) THEN held \cup {r.handle} ELSE held
          /\ uploaded' \in {uploaded, [uploaded EXCEPT ![target] = payload]}
      BY <1>4, <2>4 DEF Poll
    <3>2. /\ r \in Responses /\ r = responses[1] /\ 1 \in 1 .. Len(responses)
          /\ responses' \in Seq(Responses) /\ Len(responses') < BusDepth
      BY <1>0, <2>4, <3>1, PopKeeps DEF Buses
    <3>3. Grants(r) => r.handle \in Handles
      <4>1. Grants(r) => r.handle # NoHandle
        BY <3>2 DEF Grants, OwnAnswer
      <4>2. r.handle \in 0 .. PoolSize - 1
        BY <3>2 DEF Responses
      <4> QED BY <4>1, <4>2, HandlesAreNumbers
    <3>4. held' \subseteq Handles
      BY <1>0, <3>1, <3>3
    <3>5. uploaded' \in [Handles -> Data \cup {NoData}]
      BY <1>0, <3>1 DEF Rest
    <3>6. call' \in {"none", "alloc", "upload"}
      BY <1>0, <3>1 DEF Rest
    <3> QED BY <2>1, <2>2, <3>2, <3>4, <3>5, <3>6 DEF TypeOK
  <2> QED BY <2>3, <2>4
<1>5. CASE GiveUp
  BY <1>5 DEF GiveUp, TypeOK, busVars, poolVars, workerVars
<1>6. ASSUME NEW enabled \in BOOLEAN, SetZeroCopyBypass(enabled) PROVE TypeOK'
  BY <1>6 DEF SetZeroCopyBypass, TypeOK, busVars, poolVars, workerVars, callVars
<1>7. ASSUME NEW vkOk \in BOOLEAN, FollowBypass(vkOk) PROVE TypeOK'
  <2> DEFINE h == IF bypass THEN ImportShm(vkOk) ELSE NoHandle
  <2>1. /\ h \in 0 .. PoolSize - 1
        /\ h # NoHandle => h \in Handles /\ use[h] = "free"
    BY FirstFreeIsFree, HandlesAreNumbers DEF ImportShm
  <2>2. /\ wpc' = "audio" /\ shmHandle' = h /\ Take(h, "shm")
        /\ UNCHANGED <<requests, responses, staging, bypass, stateHandle, call, polls, target,
                       payload, serial, held, uploaded>>
    BY <1>7 DEF FollowBypass, busVars, callVars
  <2> HIDE DEF h
  <2>3. Pool'
    BY <1>0, <2>1, <2>2, TakeKeeps
  <2> QED BY <2>1, <2>2, <2>3 DEF TypeOK, Pool
<1>8. ASSUME NEW vkOk \in BOOLEAN, NEW frame \in BOOLEAN, ProcessStage(frame, vkOk)
      PROVE  TypeOK'
  <2> DEFINE f == FirstFree(vkOk)
             h == IF frame /\ stateHandle = Unknown THEN f ELSE NoHandle
  <2>1. /\ f \in 0 .. PoolSize - 1
        /\ f # NoHandle => f \in Handles /\ use[f] = "free"
    BY FirstFreeIsFree
  <2>2. /\ wpc' = "serve" /\ stateHandle' \in {f, stateHandle} /\ Take(h, "state")
        /\ UNCHANGED <<requests, responses, staging, bypass, shmHandle, call, polls, target,
                       payload, serial, held, uploaded>>
    BY <1>8 DEF ProcessStage, busVars, callVars
  <2> HIDE DEF f
  <2>3. /\ h \in 0 .. PoolSize - 1
        /\ h # NoHandle => h \in Handles /\ use[h] = "free"
    BY <2>1, HandlesAreNumbers
  <2> HIDE DEF h
  <2>4. Pool'
    BY <1>0, <2>2, <2>3, TakeKeeps
  <2> QED BY <2>1, <2>2, <2>4 DEF TypeOK, Pool
<1>9. ASSUME NEW vkOk \in BOOLEAN, Serve(vkOk) PROVE TypeOK'
  <2>1. PICK a \in Responses : /\ requests # << >> /\ requests' = Tail(requests)
                               /\ responses' = Push(responses, a) /\ Pool'
    BY <1>9, ServeAnswers
  <2>2. requests' \in Seq(Requests) /\ Len(requests') < BusDepth
    BY <1>0, <2>1, PopKeeps DEF Buses
  <2>3. responses' \in Seq(Responses) /\ Len(responses') < BusDepth
    BY <1>0, <2>1, PushKeeps DEF Buses
  <2>4. UNCHANGED <<staging, bypass, wpc, shmHandle, stateHandle, call, polls, target, payload,
                    serial, held, uploaded>>
    BY <1>9 DEF Serve, workerVars, callVars
  <2> QED BY <2>1, <2>2, <2>3, <2>4 DEF TypeOK, Pool
<1>10. CASE ServeDone
  BY <1>10 DEF ServeDone, TypeOK, busVars, poolVars, callVars
<1>11. CASE UNCHANGED vars
  BY <1>11 DEF vars, TypeOK, busVars, poolVars, workerVars, callVars
<1> QED BY <1>1, <1>2, <1>3, <1>4, <1>5, <1>6, <1>7, <1>8, <1>9, <1>10, <1>11
       DEF Next, Sdk, Worker

-----------------------------------------------------------------------------
(* Requests and their answers. *)

\* AnswersKept: what the polling loops take for their answer is their answer.
LEMMA AnswersKept ==
  ASSUME TypeOK, IdsGivenOut, OwnAnswer, [Next]_vars
  PROVE  IdsGivenOut' /\ OwnAnswer'
<1>0. /\ requests \in Seq(Requests) /\ Len(requests) < BusDepth /\ Len(requests) \in Nat
      /\ responses \in Seq(Responses) /\ Len(responses) < BusDepth /\ Len(responses) \in Nat
      /\ serial \in Nat /\ call \in {"none", "alloc", "upload"}
  BY DEF TypeOK
<1>a. \A i \in 1 .. Len(requests) : requests[i].id \in Nat
  <2>1. \A i \in 1 .. Len(requests) : requests[i] \in Requests
    BY <1>0, ElementOfSeq
  <2> QED BY <2>1, PoolAssumption DEF Requests
<1>b. \A j \in 1 .. Len(responses) : responses[j].id \in Nat
  <2>1. \A j \in 1 .. Len(responses) : responses[j] \in Responses
    BY <1>0, ElementOfSeq
  <2> QED BY <2>1, PoolAssumption DEF Responses
<1>1. ASSUME NEW kind \in {"alloc", "upload"}, NEW h \in 0 .. PoolSize - 1,
             SendAndWait(kind, h), responses' = responses, kind = "upload" => target' = h
      PROVE  IdsGivenOut' /\ OwnAnswer'
  <2> DEFINE m == [id |-> serial + 1, type |-> kind, handle |-> h]
  <2>1. /\ call' \in {"none", kind} /\ serial' = serial + 1
        /\ \A i \in 1 .. Len(requests') :
              \/ i \in 1 .. Len(requests) /\ requests'[i] = requests[i]
              \/ i = Len(requests') /\ call' = kind /\ requests'[i] = m
    BY <1>1, SendKeeps
  <2>2. m.id = serial + 1 /\ m.type = kind /\ m.handle = h
    OBVIOUS
  <2> HIDE DEF m
  <2>3. IdsGivenOut'
    <3>1. ASSUME NEW i \in 1 .. Len(requests') PROVE requests'[i].id <= serial'
      <4>1. CASE i \in 1 .. Len(requests) /\ requests'[i] = requests[i]
        <5>1. requests[i].id \in Nat /\ requests[i].id <= serial
          BY <1>a, <4>1 DEF IdsGivenOut
        <5> QED BY <1>0, <2>1, <4>1, <5>1
      <4>2. CASE requests'[i] = m
        BY <1>0, <2>1, <2>2, <4>2
      <4> QED BY <2>1, <4>1, <4>2
    <3>2. ASSUME NEW j \in 1 .. Len(responses') PROVE responses'[j].id <= serial'
      <4>1. responses[j].id \in Nat /\ responses[j].id <= serial
        BY <1>1, <1>b DEF IdsGivenOut
      <4> QED BY <1>0, <1>1, <2>1, <4>1
    <3> QED BY <3>1, <3>2 DEF IdsGivenOut
  <2>4. \A i \in 1 .. Len(requests') : requests'[i].id = serial' =>
          i = Len(requests') /\ call' = kind /\ requests'[i] = m
    BY <1>0, <1>a, <2>1 DEF IdsGivenOut
  <2>5. \A j \in 1 .. Len(responses') : responses'[j].id # serial'
    BY <1>0, <1>1, <1>b, <2>1 DEF IdsGivenOut
  <2>6. OwnAnswer'
    BY <1>1, <2>1, <2>2, <2>4, <2>5 DEF OwnAnswer
  <2> QED BY <2>3, <2>6
<1>2. CASE AllocateVram
  BY <1>1, <1>2, HandlesAreNumbers DEF AllocateVram
<1>3. ASSUME NEW h \in Handles, NEW d \in Data, UploadBuffer(h, d)
      PROVE  IdsGivenOut' /\ OwnAnswer'
  <2>1. SendAndWait("upload", h) /\ target' = h /\ responses' = responses
    BY <1>3 DEF UploadBuffer
  <2> QED BY <1>1, <2>1, HandlesAreNumbers
<1>4. ASSUME NEW h \in Handles, FreeVram(h) PROVE IdsGivenOut' /\ OwnAnswer'
  <2> DEFINE m == [id |-> 0, type |-> "free", handle |-> h]
  <2>1. /\ requests' = Push(requests, m) /\ responses' = responses /\ serial' = serial
        /\ call = "none" /\ call' = call
    BY <1>4 DEF FreeVram, callVars
  <2>2. m \in Requests /\ m.id = 0
    BY PoolAssumption, HandlesAreNumbers DEF Requests
  <2> HIDE DEF m
  <2>3. \A i \in 1 .. Len(Push(requests, m)) :
          \/ i \in 1 .. Len(requests) /\ Push(requests, m)[i] = requests[i]
          \/ Push(requests, m)[i] = m
    <3>1. m \in Requests
      BY <2>2
    <3> QED BY <1>0, <3>1, PushKeeps
  <2>4. \A i \in 1 .. Len(requests') :
          \/ i \in 1 .. Len(requests) /\ requests'[i] = requests[i]
          \/ requests'[i] = m
    BY <2>1, <2>3
  <2>5. IdsGivenOut'
    BY <1>0, <2>1, <2>2, <2>4 DEF IdsGivenOut
  <2> QED BY <2>1, <2>5 DEF OwnAnswer
<1>5. CASE Poll
  <2>1. requests' = requests /\ serial' = serial /\ target' = target
    BY <1>5 DEF Poll
  <2>2. CASE responses = << >>
    BY <1>5, <2>1, <2>2 DEF Poll, IdsGivenOut, OwnAnswer
  <2>3. CASE responses # << >>
    <3>1. responses' = Tail(responses) /\ call' \in {call, "none"}
      BY <1>5, <2>3 DEF Poll
    <3>2. \A j \in 1 .. Len(responses') :
            j + 1 \in 1 .. Len(responses) /\ responses'[j] = responses[j + 1]
      BY <1>0, <2>3, <3>1, PopKeeps
    <3>3. IdsGivenOut'
      BY <2>1, <3>2 DEF IdsGivenOut
    <3>4. OwnAnswer'
      BY <2>1, <3>1, <3>2 DEF OwnAnswer
    <3> QED BY <3>3, <3>4
  <2> QED BY <2>2, <2>3
<1>6. CASE GiveUp
  BY <1>6 DEF GiveUp, IdsGivenOut, OwnAnswer, busVars
<1>7. ASSUME UNCHANGED <<requests, responses, serial, call, target>>
      PROVE  IdsGivenOut' /\ OwnAnswer'
  BY <1>7 DEF IdsGivenOut, OwnAnswer
<1>8. CASE \E enabled \in BOOLEAN : SetZeroCopyBypass(enabled)
  BY <1>7, <1>8 DEF SetZeroCopyBypass, busVars, callVars
<1>9. ASSUME NEW vkOk \in BOOLEAN,
             FollowBypass(vkOk) \/ (\E frame \in BOOLEAN : ProcessStage(frame, vkOk)) \/ ServeDone
      PROVE  IdsGivenOut' /\ OwnAnswer'
  BY <1>7, <1>9 DEF FollowBypass, ProcessStage, ServeDone, busVars, callVars
<1>10. ASSUME NEW vkOk \in BOOLEAN, Serve(vkOk) PROVE IdsGivenOut' /\ OwnAnswer'
  <2> DEFINE m == Head(requests)
  <2>1. PICK a \in Responses :
          /\ requests # << >> /\ requests' = Tail(requests)
          /\ responses' = Push(responses, a) /\ a.id = m.id
          /\ m.type = "alloc" /\ a.success => a.handle # NoHandle
    BY <1>10, ServeAnswers
  <2>2. UNCHANGED <<serial, call, target>>
    BY <1>10 DEF Serve, callVars
  <2>3. /\ m = requests[1] /\ 1 \in 1 .. Len(requests) /\ Len(requests') = Len(requests) - 1
        /\ \A i \in 1 .. Len(requests') :
             i + 1 \in 1 .. Len(requests) /\ requests'[i] = requests[i + 1]
    BY <1>0, <2>1, PopKeeps
  <2>4. \A j \in 1 .. Len(Push(responses, a)) :
          \/ j \in 1 .. Len(responses) /\ Push(responses, a)[j] = responses[j]
          \/ Push(responses, a)[j] = a
    BY <1>0, PushKeeps
  <2>5. \A j \in 1 .. Len(responses') :
          \/ j \in 1 .. Len(responses) /\ responses'[j] = responses[j]
          \/ responses'[j] = a
    BY <2>1, <2>4
  <2>6. a.id <= serial
    BY <2>1, <2>3 DEF IdsGivenOut
  <2> HIDE DEF m
  <2>7. IdsGivenOut'
    BY <2>2, <2>3, <2>5, <2>6 DEF IdsGivenOut
  <2>8. ASSUME call # "none", NEW i \in 1 .. Len(requests'), requests'[i].id = serial
        PROVE  /\ i = Len(requests') /\ requests'[i].type = call
               /\ call = "upload" => requests'[i].handle = target
    <3>1. i + 1 = Len(requests) /\ requests[i + 1].type = call
          /\ (call = "upload" => requests[i + 1].handle = target)
      BY <2>3, <2>8 DEF OwnAnswer
    <3> QED BY <1>0, <2>3, <3>1
  <2>9. ASSUME call # "none", NEW j \in 1 .. Len(responses'), responses'[j].id = serial
        PROVE  /\ Len(requests') = 0
               /\ call = "alloc" /\ responses'[j].success => responses'[j].handle # NoHandle
    <3>1. ~(j \in 1 .. Len(responses) /\ responses'[j] = responses[j])
      BY <1>0, <2>3, <2>9 DEF OwnAnswer
    <3>2. responses'[j] = a /\ m.id = serial
      BY <2>1, <2>5, <2>9, <3>1
    <3>3. 1 = Len(requests) /\ m.type = call
      BY <2>3, <2>9, <3>2 DEF OwnAnswer
    <3>4. Len(requests') = 0
      <4>1. Len(requests') = Len(requests) - 1
        BY <2>3
      <4>2. Len(requests) = 1
        BY <3>3
      <4> QED BY <4>1, <4>2
    <3>5. call = "alloc" /\ a.success => a.handle # NoHandle
      BY <2>1, <3>3
    <3> QED BY <3>2, <3>4, <3>5
  <2>10. OwnAnswer'
    BY <2>2, <2>8, <2>9 DEF OwnAnswer
  <2> QED BY <2>7, <2>10
<1>11. CASE UNCHANGED vars
  BY <1>7, <1>11 DEF vars, busVars, callVars
<1> QED BY <1>2, <1>3, <1>4, <1>5, <1>6, <1>8, <1>9, <1>10, <1>11 DEF Next, Sdk, Worker

-----------------------------------------------------------------------------
(* Ownership. *)

\* OwnersKept: no step gives a buffer a second owner.
LEMMA OwnersKept ==
  ASSUME TypeOK, OwnAnswer, OneOwner, [Next]_vars
  PROVE  OneOwner'
<1>0. /\ requests \in Seq(Requests) /\ Len(requests) < BusDepth /\ Len(requests) \in Nat
      /\ responses \in Seq(Responses) /\ Len(responses) < BusDepth /\ Len(responses) \in Nat
      /\ held \subseteq Handles /\ Pool
  BY DEF TypeOK, Pool
<1>a. \A j \in 1 .. Len(responses) : responses[j].handle # NoHandle => responses[j].handle \in Handles
  <2>1. \A j \in 1 .. Len(responses) : responses[j] \in Responses
    BY <1>0, ElementOfSeq
  <2>2. \A j \in 1 .. Len(responses) : responses[j].handle \in 0 .. PoolSize - 1
    BY <2>1 DEF Responses
  <2> QED BY <2>2, HandlesAreNumbers
<1>1. ASSUME UNCHANGED <<requests, responses, held>>,
             \A u \in Handles : use[u] = "vram" => use'[u] = "vram"
      PROVE  OneOwner'
  <2>1. HeldIsReserved' /\ GrantsReserved' /\ GrantsDistinct'
    BY <1>0, <1>a, <1>1 DEF OneOwner, HeldIsReserved, GrantsReserved, GrantsDistinct
  <2>2. FreesReserved' /\ FreesDistinct'
    BY <1>1 DEF OneOwner, FreesReserved, FreesDistinct
  <2> QED BY <2>1, <2>2 DEF OneOwner
<1>2. ASSUME NEW kind \in {"alloc", "upload"}, NEW h \in 0 .. PoolSize - 1,
             SendAndWait(kind, h), UNCHANGED <<responses, use, held>>
      PROVE  OneOwner'
  <2>1. \A i \in 1 .. Len(requests') : requests'[i].type = "free" =>
          i \in 1 .. Len(requests) /\ requests'[i] = requests[i]
    <3> DEFINE m == [id |-> serial + 1, type |-> kind, handle |-> h]
    <3>1. \A i \in 1 .. Len(requests') :
            (i \in 1 .. Len(requests) /\ requests'[i] = requests[i]) \/ requests'[i] = m
      BY <1>2, SendKeeps
    <3>2. m.type # "free"
      OBVIOUS
    <3> HIDE DEF m
    <3> QED BY <3>1, <3>2
  <2>2. HeldIsReserved' /\ GrantsReserved' /\ GrantsDistinct'
    BY <1>2 DEF OneOwner, HeldIsReserved, GrantsReserved, GrantsDistinct
  <2>3. FreesReserved'
    BY <1>2, <2>1 DEF OneOwner, FreesReserved
  <2>4. FreesDistinct'
    BY <2>1 DEF OneOwner, FreesDistinct
  <2> QED BY <2>2, <2>3, <2>4 DEF OneOwner
<1>3. CASE AllocateVram
  BY <1>2, <1>3, HandlesAreNumbers DEF AllocateVram, poolVars
<1>4. ASSUME NEW h \in Handles, NEW d \in Data, UploadBuffer(h, d) PROVE OneOwner'
  <2>1. SendAndWait("upload", h) /\ UNCHANGED <<responses, use, held>>
    BY <1>4 DEF UploadBuffer, poolVars
  <2> QED BY <1>2, <2>1, HandlesAreNumbers
<1>5. ASSUME NEW h \in Handles, FreeVram(h) PROVE OneOwner'
  <2> DEFINE m == [id |-> 0, type |-> "free", handle |-> h]
  <2>1. /\ requests' = Push(requests, m) /\ held' = held \ {h} /\ h \in held
        /\ responses' = responses /\ use' = use
    BY <1>5 DEF FreeVram, poolVars
  <2>2. m \in Requests /\ m.type = "free" /\ m.handle = h
    BY PoolAssumption, HandlesAreNumbers DEF Requests
  <2> HIDE DEF m
  <2>3. \A i \in 1 .. Len(Push(requests, m)) :
          \/ i \in 1 .. Len(requests) /\ Push(requests, m)[i] = requests[i]
          \/ i = Len(requests) + 1 /\ Push(requests, m)[i] = m
    <3>1. m \in Requests
      BY <2>2
    <3> QED BY <1>0, <3>1, PushKeeps
  <2>4. \A i \in 1 .. Len(requests') :
          \/ i \in 1 .. Len(requests) /\ requests'[i] = requests[i]
          \/ i = Len(requests) + 1 /\ requests'[i] = m
    BY <2>1, <2>3
  <2>5. use[h] = "vram" /\ \A j \in 1 .. Len(responses) : responses[j].handle # h
    BY <2>1, HandlesAreNumbers DEF OneOwner, HeldIsReserved, GrantsReserved
  <2>6. \A i \in 1 .. Len(requests) : requests[i].type = "free" => requests[i].handle # h
    BY <2>1 DEF OneOwner, FreesReserved
  <2>7. HeldIsReserved' /\ GrantsReserved' /\ GrantsDistinct'
    BY <2>1 DEF OneOwner, HeldIsReserved, GrantsReserved, GrantsDistinct
  <2>8. FreesReserved'
    BY <2>1, <2>2, <2>4, <2>5 DEF OneOwner, FreesReserved
  <2>9. FreesDistinct'
    BY <2>2, <2>4, <2>6 DEF OneOwner, FreesDistinct
  <2> QED BY <2>7, <2>8, <2>9 DEF OneOwner
<1>6. CASE Poll
  <2>1. requests' = requests /\ use' = use
    BY <1>6 DEF Poll, poolVars
  <2>2. CASE responses = << >>
    BY <1>1, <1>6, <2>1, <2>2 DEF Poll
  <2>3. CASE responses # << >>
    <3> DEFINE r == Head(responses)
    <3>1. /\ responses' = Tail(responses)
          /\ held' = IF Grants(r) THEN held \cup {r.handle} ELSE held
      BY <1>6, <2>3 DEF Poll
    <3>2. /\ r = responses[1] /\ 1 \in 1 .. Len(responses)
          /\ \A j \in 1 .. Len(responses') :
               j + 1 \in 1 .. Len(responses) /\ responses'[j] = responses[j + 1]
      BY <1>0, <2>3, <3>1, PopKeeps
    <3>3. Grants(r) => r.handle # NoHandle
      BY <3>2 DEF Grants, OwnAnswer
    <3> HIDE DEF r
    <3>4. Grants(r) => use[r.handle] = "vram"
      BY <3>2, <3>3 DEF OneOwner, GrantsReserved
    <3>5. \A j \in 1 .. Len(responses') :
            responses'[j].handle # NoHandle => responses'[j].handle # r.handle
      <4> SUFFICES ASSUME NEW j \in 1 .. Len(responses'), responses'[j].handle # NoHandle,
                          responses'[j].handle = r.handle
                   PROVE  FALSE
        OBVIOUS
      <4>1. j + 1 = 1
        BY <3>2 DEF OneOwner, GrantsDistinct
      <4> QED BY <4>1
    <3>6. \A i \in 1 .. Len(requests) : requests[i].type = "free" => requests[i].handle # r.handle
      BY <3>2 DEF OneOwner, FreesReserved
    <3>7. HeldIsReserved'
      BY <2>1, <3>1, <3>4 DEF OneOwner, HeldIsReserved
    <3>8. GrantsReserved'
      BY <2>1, <3>1, <3>2, <3>5 DEF OneOwner, GrantsReserved
    <3>9. GrantsDistinct'
      <4> SUFFICES ASSUME NEW j \in 1 .. Len(responses'), NEW k \in 1 .. Len(responses'),
                          responses'[j].handle # NoHandle, responses'[j].handle = responses'[k].handle
                   PROVE  j = k
        BY DEF GrantsDistinct
      <4>1. j + 1 = k + 1
        BY <3>2 DEF OneOwner, GrantsDistinct
      <4> QED BY <4>1
    <3>10. FreesReserved'
      BY <2>1, <3>1, <3>2, <3>6 DEF OneOwner, FreesReserved
    <3>11. FreesDistinct'
      BY <2>1 DEF OneOwner, FreesDistinct
    <3> QED BY <3>7, <3>8, <3>9, <3>10, <3>11 DEF OneOwner
  <2> QED BY <2>2, <2>3
<1>7. CASE GiveUp \/ (\E enabled \in BOOLEAN : SetZeroCopyBypass(enabled)) \/ ServeDone
           \/ UNCHANGED vars
  BY <1>1, <1>7 DEF GiveUp, SetZeroCopyBypass, ServeDone, vars, busVars, poolVars
<1>8. ASSUME NEW vkOk \in BOOLEAN, FollowBypass(vkOk) PROVE OneOwner'
  <2> DEFINE h == IF bypass THEN ImportShm(vkOk) ELSE NoHandle
  <2>1. /\ h \in 0 .. PoolSize - 1
        /\ h # NoHandle => h \in Handles /\ use[h] = "free"
    BY FirstFreeIsFree, HandlesAreNumbers DEF ImportShm
  <2>2. Take(h, "shm") /\ UNCHANGED <<requests, responses, held>>
    BY <1>8 DEF FollowBypass, busVars
  <2> HIDE DEF h
  <2>3. \A u \in Handles : use[u] # "free" => use'[u] = use[u]
    BY <1>0, <2>1, <2>2, TakeKeeps
  <2> QED BY <1>1, <2>2, <2>3
<1>9. ASSUME NEW vkOk \in BOOLEAN, NEW frame \in BOOLEAN, ProcessStage(frame, vkOk)
      PROVE  OneOwner'
  <2> DEFINE h == IF frame /\ stateHandle = Unknown THEN FirstFree(vkOk) ELSE NoHandle
  <2>1. /\ h \in 0 .. PoolSize - 1
        /\ h # NoHandle => h \in Handles /\ use[h] = "free"
    BY FirstFreeIsFree, HandlesAreNumbers
  <2>2. Take(h, "state") /\ UNCHANGED <<requests, responses, held>>
    BY <1>9 DEF ProcessStage, busVars
  <2> HIDE DEF h
  <2>3. \A u \in Handles : use[u] # "free" => use'[u] = use[u]
    BY <1>0, <2>1, <2>2, TakeKeeps
  <2> QED BY <1>1, <2>2, <2>3
<1>10. ASSUME NEW vkOk \in BOOLEAN, Serve(vkOk) PROVE OneOwner'
  <2> DEFINE m == Head(requests)
  <2>1. PICK a \in Responses :
          /\ requests # << >> /\ requests' = Tail(requests)
          /\ responses' = Push(responses, a)
          /\ \/ m.type = "alloc" /\ a.handle = FirstFree(vkOk) /\ Take(FirstFree(vkOk), "vram")
             \/ m.type = "upload" /\ a.handle = NoHandle /\ use' = use
             \/ /\ m.type = "free" /\ a.handle = NoHandle
                /\ use' = IF IsActive(m.handle) THEN [use EXCEPT ![m.handle] = "free"] ELSE use
    BY <1>10, ServeAnswers
  <2>2. held' = held
    BY <1>10 DEF Serve
  <2>3. /\ m = requests[1] /\ 1 \in 1 .. Len(requests)
        /\ \A i \in 1 .. Len(requests') :
             i + 1 \in 1 .. Len(requests) /\ requests'[i] = requests[i + 1]
    BY <1>0, <2>1, PopKeeps
  <2>4. \A j \in 1 .. Len(Push(responses, a)) :
          \/ j \in 1 .. Len(responses) /\ Push(responses, a)[j] = responses[j]
          \/ j = Len(responses) + 1 /\ Push(responses, a)[j] = a
    BY <1>0, PushKeeps
  <2>5. \A j \in 1 .. Len(responses') :
          \/ j \in 1 .. Len(responses) /\ responses'[j] = responses[j]
          \/ j = Len(responses) + 1 /\ responses'[j] = a
    BY <2>1, <2>4
  <2> HIDE DEF m
  <2>6. FreesDistinct'
    <3> SUFFICES ASSUME NEW i \in 1 .. Len(requests'), NEW k \in 1 .. Len(requests'),
                        requests'[i].type = "free", requests'[k].type = "free",
                        requests'[i].handle = requests'[k].handle
                 PROVE  i = k
      BY DEF FreesDistinct
    <3>1. i + 1 = k + 1
      BY <2>3 DEF OneOwner, FreesDistinct
    <3> QED BY <3>1
  <2>7. ASSUME a.handle = NoHandle,
               \A j \in 1 .. Len(responses) : responses[j].handle # NoHandle =>
                 use'[responses[j].handle] = "vram",
               \A i \in 1 .. Len(requests') : requests'[i].type = "free" =>
                 use'[requests'[i].handle] = "vram",
               \A u \in held : use'[u] = "vram"
        PROVE  OneOwner'
    <3>1. HeldIsReserved'
      BY <2>2, <2>7 DEF HeldIsReserved
    <3>2. GrantsReserved'
      BY <2>2, <2>5, <2>7 DEF OneOwner, GrantsReserved
    <3>3. GrantsDistinct'
      BY <2>5, <2>7 DEF OneOwner, GrantsDistinct
    <3>4. FreesReserved'
      <4> SUFFICES ASSUME NEW i \in 1 .. Len(requests'), requests'[i].type = "free"
                   PROVE  /\ requests'[i].handle \in Handles /\ use'[requests'[i].handle] = "vram"
                          /\ requests'[i].handle \notin held'
                          /\ \A j \in 1 .. Len(responses') : responses'[j].handle # requests'[i].handle
        BY DEF FreesReserved
      <4> DEFINE f == requests'[i].handle
      <4>1. /\ f \in Handles /\ f \notin held
            /\ \A j \in 1 .. Len(responses) : responses[j].handle # f
        BY <2>3 DEF OneOwner, FreesReserved
      <4>2. use'[f] = "vram"
        BY <2>7
      <4> HIDE DEF f
      <4>3. f # NoHandle
        BY <4>1, HandlesAreNumbers
      <4>4. \A j \in 1 .. Len(responses') : responses'[j].handle # f
        BY <2>5, <2>7, <4>1, <4>3
      <4> QED BY <2>2, <4>1, <4>2, <4>4 DEF f
    <3> QED BY <2>6, <3>1, <3>2, <3>3, <3>4 DEF OneOwner
  <2>8. CASE m.type = "alloc" /\ a.handle = FirstFree(vkOk) /\ Take(FirstFree(vkOk), "vram")
    <3> DEFINE h == FirstFree(vkOk)
    <3>1. /\ h \in 0 .. PoolSize - 1
          /\ h # NoHandle => h \in Handles /\ use[h] = "free"
      BY FirstFreeIsFree
    <3>2. a.handle = h /\ Take(h, "vram")
      BY <2>8
    <3> HIDE DEF h
    <3>3. /\ \A u \in Handles : use[u] = "vram" => use'[u] = "vram"
          /\ h # NoHandle => use'[h] = "vram"
      BY <1>0, <3>1, <3>2, TakeKeeps
    <3>4. \A j \in 1 .. Len(responses) : responses[j].handle # NoHandle =>
            responses[j].handle # h
      BY <3>1 DEF OneOwner, GrantsReserved
    <3>5. HeldIsReserved'
      BY <1>0, <2>2, <3>3 DEF OneOwner, HeldIsReserved
    <3>6. GrantsReserved'
      <4>1. h # NoHandle => h \notin held
        BY <3>1 DEF OneOwner, HeldIsReserved
      <4> QED BY <1>a, <2>2, <2>5, <3>2, <3>3, <4>1 DEF OneOwner, GrantsReserved
    <3>7. GrantsDistinct'
      BY <2>5, <3>2, <3>4 DEF OneOwner, GrantsDistinct
    <3>8. FreesReserved'
      <4> SUFFICES ASSUME NEW i \in 1 .. Len(requests'), requests'[i].type = "free"
                   PROVE  /\ requests'[i].handle \in Handles /\ use'[requests'[i].handle] = "vram"
                          /\ requests'[i].handle \notin held'
                          /\ \A j \in 1 .. Len(responses') : responses'[j].handle # requests'[i].handle
        BY DEF FreesReserved
      <4> DEFINE f == requests'[i].handle
      <4>1. /\ f \in Handles /\ use[f] = "vram" /\ f \notin held
            /\ \A j \in 1 .. Len(responses) : responses[j].handle # f
        BY <2>3 DEF OneOwner, FreesReserved
      <4> HIDE DEF f
      <4>2. f # h
        BY <3>1, <4>1, HandlesAreNumbers
      <4>3. \A j \in 1 .. Len(responses') : responses'[j].handle # f
        BY <2>5, <3>2, <4>1, <4>2
      <4>4. use'[f] = "vram" /\ f \notin held'
        BY <2>2, <3>3, <4>1
      <4> QED BY <4>1, <4>3, <4>4 DEF f
    <3> QED BY <2>6, <3>5, <3>6, <3>7, <3>8 DEF OneOwner
  <2>9. CASE m.type = "upload" /\ a.handle = NoHandle /\ use' = use
    <3>1. \A j \in 1 .. Len(responses) : responses[j].handle # NoHandle =>
                 use'[responses[j].handle] = "vram"
      BY <2>9 DEF OneOwner, GrantsReserved
    <3>2. \A i \in 1 .. Len(requests') : requests'[i].type = "free" =>
                 use'[requests'[i].handle] = "vram"
      BY <2>3, <2>9 DEF OneOwner, FreesReserved
    <3>3. \A u \in held : use'[u] = "vram"
      BY <2>9 DEF OneOwner, HeldIsReserved
    <3> QED BY <2>7, <2>9, <3>1, <3>2, <3>3
  <2>10. CASE /\ m.type = "free" /\ a.handle = NoHandle
              /\ use' = IF IsActive(m.handle) THEN [use EXCEPT ![m.handle] = "free"] ELSE use
    <3>1. /\ m.handle \in Handles /\ use[m.handle] = "vram" /\ m.handle \notin held
          /\ \A j \in 1 .. Len(responses) : responses[j].handle # m.handle
      BY <2>3, <2>10 DEF OneOwner, FreesReserved
    <3>2. \A u \in Handles : u # m.handle => use'[u] = use[u]
      BY <1>0, <2>10 DEF Pool
    <3>3. \A j \in 1 .. Len(responses) : responses[j].handle # NoHandle =>
                 use'[responses[j].handle] = "vram"
      BY <1>a, <3>1, <3>2 DEF OneOwner, GrantsReserved
    <3>4. \A i \in 1 .. Len(requests') : requests'[i].type = "free" =>
                 use'[requests'[i].handle] = "vram"
      <4> SUFFICES ASSUME NEW i \in 1 .. Len(requests'), requests'[i].type = "free"
                   PROVE  use'[requests'[i].handle] = "vram"
        OBVIOUS
      <4>1. /\ requests'[i] = requests[i + 1] /\ i + 1 \in 1 .. Len(requests) /\ i + 1 # 1
        BY <2>3
      <4>2. requests[i + 1].handle \in Handles /\ use[requests[i + 1].handle] = "vram"
        BY <4>1 DEF OneOwner, FreesReserved
      <4>3. requests[i + 1].handle # m.handle
        BY <2>3, <2>10, <4>1 DEF OneOwner, FreesDistinct
      <4> QED BY <3>2, <4>1, <4>2, <4>3
    <3>5. \A u \in held : use'[u] = "vram"
      BY <1>0, <3>1, <3>2 DEF OneOwner, HeldIsReserved
    <3> QED BY <2>7, <2>10, <3>3, <3>4, <3>5
  <2> QED BY <2>1, <2>8, <2>9, <2>10 DEF m
<1> QED BY <1>3, <1>4, <1>5, <1>6, <1>7, <1>8, <1>9, <1>10 DEF Next, Sdk, Worker

-----------------------------------------------------------------------------
(* Uploads. *)

\* UploadsKept: no late request and no other buffer's data overwrites what the plugin
\* was told is there.
LEMMA UploadsKept ==
  ASSUME TypeOK, IdsGivenOut, OwnAnswer, OneOwner, UploadsSettled, [Next]_vars
  PROVE  UploadsSettled'
<1>0. /\ requests \in Seq(Requests) /\ Len(requests) < BusDepth /\ Len(requests) \in Nat
      /\ responses \in Seq(Responses) /\ Len(responses) < BusDepth /\ Len(responses) \in Nat
      /\ held \subseteq Handles /\ Pool /\ serial \in Nat
      /\ uploaded \in [Handles -> Data \cup {NoData}] /\ call \in {"none", "alloc", "upload"}
  BY DEF TypeOK, Pool
<1>b. \A j \in 1 .. Len(responses) : responses[j].id \in Nat /\ responses[j].id <= serial
  <2>1. \A j \in 1 .. Len(responses) : responses[j] \in Responses
    BY <1>0, ElementOfSeq
  <2> QED BY <2>1, PoolAssumption DEF Responses, IdsGivenOut
<1>1. ASSUME UNCHANGED <<requests, responses, held, uploaded, staging, target, payload, serial>>,
             call' \in {call, "none"}, \A u \in held : content'[u] = content[u]
      PROVE  UploadsSettled'
  <2>1. UploadSticks' /\ UnknownUnlessHeld' /\ NoneOverwritten'
    BY <1>1 DEF UploadsSettled, UploadSticks, UnknownUnlessHeld, NoneOverwritten
  <2>2. UploadUnderWay'
    BY <1>1 DEF UploadsSettled, UploadUnderWay
  <2> QED BY <2>1, <2>2 DEF UploadsSettled
<1>2. CASE AllocateVram
  <2> DEFINE m == [id |-> serial + 1, type |-> "alloc", handle |-> NoHandle]
  <2>1. /\ SendAndWait("alloc", NoHandle) /\ UNCHANGED <<content, held, uploaded>>
    BY <1>2 DEF AllocateVram, poolVars
  <2>2. /\ call' \in {"none", "alloc"}
        /\ \A i \in 1 .. Len(requests') :
             (i \in 1 .. Len(requests) /\ requests'[i] = requests[i]) \/ requests'[i] = m
    BY <2>1, SendKeeps, HandlesAreNumbers
  <2>3. m.type # "upload"
    OBVIOUS
  <2> HIDE DEF m
  <2>4. UploadSticks' /\ UnknownUnlessHeld'
    BY <2>1 DEF UploadsSettled, UploadSticks, UnknownUnlessHeld
  <2>5. NoneOverwritten'
    BY <2>1, <2>2, <2>3 DEF UploadsSettled, NoneOverwritten
  <2>6. UploadUnderWay'
    BY <2>2 DEF UploadUnderWay
  <2> QED BY <2>4, <2>5, <2>6 DEF UploadsSettled
<1>3. ASSUME NEW h \in Handles, NEW d \in Data, UploadBuffer(h, d) PROVE UploadsSettled'
  <2> DEFINE m == [id |-> serial + 1, type |-> "upload", handle |-> h]
  <2>1. /\ h \in held /\ SendAndWait("upload", h) /\ staging' = d /\ target' = h /\ payload' = d
        /\ uploaded' = [uploaded EXCEPT ![h] = NoData]
        /\ UNCHANGED <<responses, content, held>>
    BY <1>3 DEF UploadBuffer, poolVars
  <2>2. h \in 0 .. PoolSize - 1
    BY HandlesAreNumbers
  <2>3. /\ serial' = serial + 1
        /\ \A i \in 1 .. Len(requests') :
             (i \in 1 .. Len(requests) /\ requests'[i] = requests[i]) \/ requests'[i] = m
    BY <2>1, <2>2, SendKeeps
  <2>4. m.handle = h
    OBVIOUS
  <2> HIDE DEF m
  <2>5. uploaded'[h] = NoData /\ \A u \in Handles : u # h => uploaded'[u] = uploaded[u]
    BY <1>0, <2>1
  <2>6. UploadSticks' /\ UnknownUnlessHeld'
    BY <1>0, <2>1, <2>5 DEF UploadsSettled, UploadSticks, UnknownUnlessHeld
  <2>7. NoneOverwritten'
    BY <2>3, <2>4, <2>5 DEF UploadsSettled, NoneOverwritten
  <2>8. \A j \in 1 .. Len(responses') : responses'[j].id # serial'
    BY <1>0, <1>b, <2>1, <2>3
  <2>9. UploadUnderWay'
    BY <2>1, <2>8 DEF UploadUnderWay
  <2> QED BY <2>6, <2>7, <2>9 DEF UploadsSettled
<1>4. ASSUME NEW h \in Handles, FreeVram(h) PROVE UploadsSettled'
  <2> DEFINE m == [id |-> 0, type |-> "free", handle |-> h]
  <2>1. /\ requests' = Push(requests, m) /\ held' = held \ {h} /\ call = "none" /\ call' = call
        /\ uploaded' = [uploaded EXCEPT ![h] = NoData] /\ content' = content
    BY <1>4 DEF FreeVram, poolVars, callVars
  <2>2. m \in Requests
    BY PoolAssumption, HandlesAreNumbers DEF Requests
  <2>3. m.type # "upload"
    OBVIOUS
  <2> HIDE DEF m
  <2>4. \A i \in 1 .. Len(Push(requests, m)) :
          \/ i \in 1 .. Len(requests) /\ Push(requests, m)[i] = requests[i]
          \/ Push(requests, m)[i] = m
    BY <1>0, <2>2, PushKeeps
  <2>5. \A i \in 1 .. Len(requests') : requests'[i].type = "upload" =>
          i \in 1 .. Len(requests) /\ requests'[i] = requests[i]
    BY <2>1, <2>3, <2>4
  <2>6. uploaded'[h] = NoData /\ \A u \in Handles : u # h => uploaded'[u] = uploaded[u]
    BY <1>0, <2>1
  <2>7. UploadSticks' /\ UnknownUnlessHeld'
    BY <1>0, <2>1, <2>6 DEF UploadsSettled, UploadSticks, UnknownUnlessHeld
  <2>8. NoneOverwritten'
    BY <2>5, <2>6 DEF UploadsSettled, NoneOverwritten
  <2> QED BY <2>1, <2>7, <2>8 DEF UploadsSettled, UploadUnderWay
<1>5. CASE Poll
  <2>1. UNCHANGED <<requests, staging, content, target, payload, serial>> /\ call # "none"
    BY <1>5 DEF Poll, poolVars
  <2>2. CASE responses = << >>
    BY <1>1, <1>5, <2>1, <2>2 DEF Poll
  <2>3. CASE responses # << >>
    <3> DEFINE r == Head(responses)
    <3>1. /\ responses' = Tail(responses)
          /\ call' = IF Grants(r) \/ Confirms(r) THEN "none" ELSE call
          /\ held' = IF Grants(r) THEN held \cup {r.handle} ELSE held
          /\ uploaded' = IF Confirms(r) /\ r.success
                         THEN [uploaded EXCEPT ![target] = payload] ELSE uploaded
      BY <1>5, <2>3 DEF Poll
    <3>2. /\ r = responses[1] /\ 1 \in 1 .. Len(responses)
          /\ \A j \in 1 .. Len(responses') :
               j + 1 \in 1 .. Len(responses) /\ responses'[j] = responses[j + 1]
      BY <1>0, <2>3, <3>1, PopKeeps
    <3> HIDE DEF r
    <3>3. CASE Grants(r)
      <4>1. ~Confirms(r) /\ call = "alloc" /\ r.id = serial /\ r.success
        BY <3>3 DEF Grants, Confirms
      <4>2. r.handle # NoHandle /\ r.handle \notin held
        BY <3>2, <4>1 DEF OwnAnswer, OneOwner, GrantsReserved
      <4>3. r.handle \in Handles
        <5>1. r \in Responses
          BY <1>0, <3>2, ElementOfSeq
        <5>2. r.handle \in 0 .. PoolSize - 1
          BY <5>1 DEF Responses
        <5> QED BY <4>2, <5>2, HandlesAreNumbers
      <4>4. uploaded[r.handle] = NoData
        BY <4>2, <4>3 DEF UploadsSettled, UnknownUnlessHeld
      <4>5. uploaded' = uploaded /\ held' = held \cup {r.handle} /\ call' = "none"
        BY <3>1, <3>3, <4>1
      <4>6. UploadSticks' /\ UnknownUnlessHeld'
        BY <2>1, <4>4, <4>5 DEF UploadsSettled, UploadSticks, UnknownUnlessHeld
      <4>7. NoneOverwritten' /\ UploadUnderWay'
        BY <2>1, <4>5 DEF UploadsSettled, NoneOverwritten, UploadUnderWay
      <4> QED BY <4>6, <4>7 DEF UploadsSettled
    <3>4. CASE Confirms(r)
      <4>1. ~Grants(r) /\ call = "upload" /\ r.id = serial
        BY <3>4 DEF Grants, Confirms
      <4>2. Len(requests) = 0 /\ target \in held /\ (r.success => content[target] = payload)
        BY <3>2, <4>1 DEF OwnAnswer, UploadsSettled, UploadUnderWay
      <4>3. held' = held /\ call' = "none"
        BY <3>1, <3>4, <4>1
      <4>4. NoneOverwritten' /\ UploadUnderWay'
        BY <2>1, <4>2, <4>3 DEF NoneOverwritten, UploadUnderWay
      <4>5. CASE r.success
        <5>1. uploaded' = [uploaded EXCEPT ![target] = payload]
          BY <3>1, <3>4, <4>5
        <5>2. target \in Handles
          BY <1>0, <4>2
        <5>3. uploaded'[target] = payload /\ \A u \in Handles : u # target => uploaded'[u] = uploaded[u]
          BY <1>0, <5>1, <5>2
        <5>4. UploadSticks'
          BY <1>0, <2>1, <4>2, <4>3, <4>5, <5>3 DEF UploadsSettled, UploadSticks
        <5>5. UnknownUnlessHeld'
          BY <4>2, <4>3, <5>3 DEF UploadsSettled, UnknownUnlessHeld
        <5> QED BY <4>4, <5>4, <5>5 DEF UploadsSettled
      <4>6. CASE ~r.success
        <5>1. uploaded' = uploaded
          BY <3>1, <4>6
        <5> QED BY <2>1, <4>3, <4>4, <5>1 DEF UploadsSettled, UploadSticks, UnknownUnlessHeld
      <4> QED BY <4>5, <4>6
    <3>5. CASE ~Grants(r) /\ ~Confirms(r)
      <4>1. uploaded' = uploaded /\ held' = held /\ call' = call
        BY <3>1, <3>5
      <4>2. UploadSticks' /\ UnknownUnlessHeld' /\ NoneOverwritten'
        BY <2>1, <4>1 DEF UploadsSettled, UploadSticks, UnknownUnlessHeld, NoneOverwritten
      <4>3. UploadUnderWay'
        BY <2>1, <3>2, <4>1 DEF UploadsSettled, UploadUnderWay
      <4> QED BY <4>2, <4>3 DEF UploadsSettled
    <3> QED BY <3>3, <3>4, <3>5
  <2> QED BY <2>2, <2>3
<1>6. CASE GiveUp \/ (\E enabled \in BOOLEAN : SetZeroCopyBypass(enabled)) \/ ServeDone
           \/ UNCHANGED vars
  BY <1>1, <1>6 DEF GiveUp, SetZeroCopyBypass, ServeDone, vars, busVars, poolVars, callVars
<1>7. \A u \in held : use[u] # "free"
  BY DEF OneOwner, HeldIsReserved
<1>8. ASSUME NEW vkOk \in BOOLEAN, FollowBypass(vkOk) PROVE UploadsSettled'
  <2> DEFINE h == IF bypass THEN ImportShm(vkOk) ELSE NoHandle
  <2>1. /\ h \in 0 .. PoolSize - 1
        /\ h # NoHandle => h \in Handles /\ use[h] = "free"
    BY FirstFreeIsFree, HandlesAreNumbers DEF ImportShm
  <2>2. /\ Take(h, "shm")
        /\ UNCHANGED <<requests, responses, held, uploaded, staging, target, payload, serial, call>>
    BY <1>8 DEF FollowBypass, busVars, callVars
  <2> HIDE DEF h
  <2>3. \A u \in Handles : use[u] # "free" => content'[u] = content[u]
    BY <1>0, <2>1, <2>2, TakeKeeps
  <2>4. \A u \in held : content'[u] = content[u]
    BY <1>0, <1>7, <2>3
  <2> QED BY <1>1, <2>2, <2>4
<1>9. ASSUME NEW vkOk \in BOOLEAN, NEW frame \in BOOLEAN, ProcessStage(frame, vkOk)
      PROVE  UploadsSettled'
  <2> DEFINE h == IF frame /\ stateHandle = Unknown THEN FirstFree(vkOk) ELSE NoHandle
  <2>1. /\ h \in 0 .. PoolSize - 1
        /\ h # NoHandle => h \in Handles /\ use[h] = "free"
    BY FirstFreeIsFree, HandlesAreNumbers
  <2>2. /\ Take(h, "state")
        /\ UNCHANGED <<requests, responses, held, uploaded, staging, target, payload, serial, call>>
    BY <1>9 DEF ProcessStage, busVars, callVars
  <2> HIDE DEF h
  <2>3. \A u \in Handles : use[u] # "free" => content'[u] = content[u]
    BY <1>0, <2>1, <2>2, TakeKeeps
  <2>4. \A u \in held : content'[u] = content[u]
    BY <1>0, <1>7, <2>3
  <2> QED BY <1>1, <2>2, <2>4
<1>10. ASSUME NEW vkOk \in BOOLEAN, Serve(vkOk) PROVE UploadsSettled'
  <2> DEFINE m == Head(requests)
  <2>1. PICK a \in Responses :
          /\ requests # << >> /\ requests' = Tail(requests)
          /\ responses' = Push(responses, a) /\ a.id = m.id
          /\ \/ m.type = "alloc" /\ Take(FirstFree(vkOk), "vram")
             \/ /\ m.type = "upload"
                /\ \/ /\ a.success /\ m.handle \in Handles
                      /\ content' = [content EXCEPT ![m.handle] = staging]
                   \/ ~a.success /\ content' = content
             \/ m.type = "free" /\ content' = content
    BY <1>10, ServeAnswers
  <2>2. UNCHANGED <<held, uploaded, staging, target, payload, serial, call>>
    BY <1>10 DEF Serve, callVars
  <2>3. /\ m = requests[1] /\ 1 \in 1 .. Len(requests) /\ Len(requests) # 0
        /\ \A i \in 1 .. Len(requests') :
             i + 1 \in 1 .. Len(requests) /\ requests'[i] = requests[i + 1]
    BY <1>0, <2>1, PopKeeps
  <2>4. \A j \in 1 .. Len(Push(responses, a)) :
          \/ j \in 1 .. Len(responses) /\ Push(responses, a)[j] = responses[j]
          \/ Push(responses, a)[j] = a
    BY <1>0, PushKeeps
  <2> HIDE DEF m
  <2>5. \A j \in 1 .. Len(responses') : call = "upload" /\ responses'[j].id = serial =>
          responses'[j] = a /\ m.id = serial /\ m.type = "upload" /\ m.handle = target
    BY <2>1, <2>3, <2>4 DEF OwnAnswer
  <2>6. UnknownUnlessHeld' /\ NoneOverwritten'
    BY <2>2, <2>3 DEF UploadsSettled, UnknownUnlessHeld, NoneOverwritten
  <2>7. UploadSticks'
    <3>1. CASE m.type = "alloc" /\ Take(FirstFree(vkOk), "vram")
      <4>1. \A u \in Handles : use[u] # "free" => content'[u] = content[u]
        BY <1>0, <3>1, FirstFreeIsFree, TakeKeeps
      <4> QED BY <1>0, <1>7, <2>2, <4>1 DEF UploadsSettled, UploadSticks
    <3>2. CASE m.type = "upload" /\ m.handle \in Handles
               /\ content' = [content EXCEPT ![m.handle] = staging]
      <4>1. uploaded[m.handle] = NoData
        BY <2>3, <3>2 DEF UploadsSettled, NoneOverwritten
      <4>2. \A u \in Handles : u # m.handle => content'[u] = content[u]
        BY <1>0, <3>2 DEF Pool
      <4> QED BY <1>0, <2>2, <4>1, <4>2 DEF UploadsSettled, UploadSticks
    <3>3. CASE content' = content
      BY <2>2, <3>3 DEF UploadsSettled, UploadSticks
    <3> QED BY <2>1, <3>1, <3>2, <3>3 DEF m
  <2>8. UploadUnderWay'
    <3> SUFFICES ASSUME call = "upload"
                 PROVE  /\ target \in held /\ staging = payload
                        /\ \A j \in 1 .. Len(responses') :
                             responses'[j].id = serial /\ responses'[j].success =>
                               content'[target] = payload
      BY <2>2 DEF UploadUnderWay
    <3>1. target \in held /\ staging = payload /\ target \in Handles
      BY <1>0 DEF UploadsSettled, UploadUnderWay
    <3>2. ASSUME NEW j \in 1 .. Len(responses'), responses'[j].id = serial, responses'[j].success
          PROVE  content'[target] = payload
      <4>1. responses'[j] = a /\ m.type = "upload" /\ m.handle = target
        BY <2>5, <3>2
      <4>2. a.success
        BY <3>2, <4>1
      <4>3. content' = [content EXCEPT ![target] = staging]
        BY <2>1, <4>1, <4>2 DEF m
      <4> QED BY <1>0, <3>1, <4>3 DEF Pool
    <3> QED BY <3>1, <3>2
  <2> QED BY <2>6, <2>7, <2>8 DEF UploadsSettled
<1> QED BY <1>2, <1>3, <1>4, <1>5, <1>6, <1>8, <1>9, <1>10 DEF Next, Sdk, Worker

-----------------------------------------------------------------------------
(* The results. *)

Inv == TypeOK /\ IdsGivenOut /\ OwnAnswer /\ OneOwner /\ UploadsSettled

\* InvInit: the pool is free and the buses are empty.
LEMMA InvInit == Init => Inv
<1> SUFFICES ASSUME Init PROVE Inv
  OBVIOUS
<1>1. /\ requests = << >> /\ responses = << >> /\ held = {} /\ call = "none"
      /\ Len(requests) = 0 /\ Len(responses) = 0
      /\ uploaded = [h \in Handles |-> NoData]
  BY EmptySeq DEF Init
<1>2. FALSE \in BOOLEAN
  OBVIOUS
<1>3. NoHandle \in 0 .. PoolSize - 1
  BY HandlesAreNumbers
<1>4. TypeOK
  <2>1. Buses
    BY <1>1, PoolAssumption, EmptySeq DEF Buses
  <2>2. Pool
    BY DEF Init, Pool
  <2>3. Rest
    BY <1>3, PoolAssumption DEF Init, Rest
  <2>4. bypass \in BOOLEAN
    BY <1>2 DEF Init
  <2> QED BY <1>1, <2>1, <2>2, <2>3, <2>4, TypeParts
<1>5. IdsGivenOut /\ OwnAnswer
  BY <1>1 DEF IdsGivenOut, OwnAnswer
<1>6. OneOwner
  BY <1>1 DEF OneOwner, HeldIsReserved, GrantsReserved, GrantsDistinct, FreesReserved,
              FreesDistinct
<1>7. UploadsSettled
  BY <1>1 DEF UploadsSettled, UploadSticks, UnknownUnlessHeld, NoneOverwritten, UploadUnderWay
<1> QED BY <1>4, <1>5, <1>6, <1>7 DEF Inv

\* InvNext: every step keeps the invariant.
LEMMA InvNext == Inv /\ [Next]_vars => Inv'
BY TypeKept, AnswersKept, OwnersKept, UploadsKept DEF Inv

\* VramTypes: the buses keep within their size, and allocate_vram returns a handle of
\* the pool.
THEOREM VramTypes == Spec => []TypeOK
BY InvInit, InvNext, PTL DEF Spec, Inv

\* BuffersReserved: a buffer that allocate_vram returned is the plugin's own until it
\* frees it.
THEOREM BuffersReserved == Spec => []HeldIsReserved
<1>1. Inv => HeldIsReserved
  BY DEF Inv, OneOwner
<1> QED BY <1>1, InvInit, InvNext, PTL DEF Spec

\* UploadsStick: a confirmed upload is in its buffer until the plugin changes it.
THEOREM UploadsStick == Spec => []UploadSticks
<1>1. Inv => UploadSticks
  BY DEF Inv, UploadsSettled
<1> QED BY <1>1, InvInit, InvNext, PTL DEF Spec
=============================================================================
