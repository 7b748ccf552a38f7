------------------------------ MODULE VramBus ------------------------------
(***************************************************************************)
(* Buffers on the device: dsp_accel_sdk_allocate_vram, _upload_buffer and  *)
(* _free_vram send requests over memory_request_bus; the worker serves     *)
(* them at the end of every turn of its loop from the buffer pool of       *)
(* daemon/vulkan/vulkan_compute.c and answers over memory_response_bus.    *)
(* The same pool provides the state buffer of the plugin instance and, in  *)
(* zero-copy mode, the imported shared memory.                             *)
(***************************************************************************)
EXTENDS Integers, Sequences, FiniteSets, FiniteSetsExt

CONSTANTS PoolSize,    \* user_buffers has 256 entries, handle 0 is none
          BusDepth,    \* both buses have 32 slots and hold one less
          MaxPolls,    \* the SDK looks for an answer 500 times
          Data,        \* what a plugin uploads
          NoData,
          MaxRequests  \* bound: requests the SDK sends

ASSUME PoolAssumption ==
  /\ PoolSize \in Nat \ {0} /\ BusDepth \in Nat /\ BusDepth >= 2
  /\ MaxPolls \in Nat /\ MaxPolls >= BusDepth
  /\ NoData \notin Data /\ MaxRequests \in Nat

Handles == 1 .. PoolSize - 1
NoHandle == 0

VARIABLES
  requests, responses,  \* the two buses
  staging,              \* data_staging
  bypass,               \* bypass_zero_copy
  use,                  \* user_buffers: what an entry is used for, or "free"
  content,              \* user_buffers: what was uploaded into an entry
  wpc,                  \* the worker: "bypass", "audio" or "serve"
  shmHandle,            \* shm_buffer_handle_
  stateHandle,          \* instance_states_: the handle, or Unknown
  call,                 \* the SDK call in progress: "none", "alloc", "upload"
  polls,                \* tries it has left
  serial,               \* request ids used; rand() is taken to be free of repeats
  target, payload,      \* the arguments of the upload in progress
  held,                 \* handles the plugin was given and has not freed
  uploaded              \* what the plugin knows to be in them

busVars == <<requests, responses>>
poolVars == <<use, content>>
workerVars == <<wpc, shmHandle, stateHandle>>
callVars == <<call, polls, target, payload>>
vars == <<busVars, staging, bypass, poolVars, workerVars, callVars, serial,
          held, uploaded>>

Unknown == -1

Init ==
  /\ requests = << >> /\ responses = << >> /\ staging = NoData /\ bypass = FALSE
  /\ use = [h \in Handles |-> "free"] /\ content = [h \in Handles |-> NoData]
  /\ wpc = "bypass" /\ shmHandle = NoHandle /\ stateHandle = Unknown
  /\ call = "none" /\ polls = 0 /\ serial = 0
  /\ target = NoHandle /\ payload = NoData
  /\ held = {} /\ uploaded = [h \in Handles |-> NoData]

\* mutant: the slot that tells full from empty is used as well
IsFullLate(bus) == Len(bus) = BusDepth

IsFull(bus) == Len(bus) = BusDepth - 1

\* push: false, and no effect, on a full bus.
Push(bus, m) == IF IsFull(bus) THEN bus ELSE Append(bus, m)

-----------------------------------------------------------------------------
(* The SDK.  Every call but free_vram waits for its answer, so there is at *)
(* most one of them at a time.                                             *)

\* A request that fits is sent and waited for; otherwise the call has failed.
SendAndWait(kind, h) ==
  /\ call = "none" /\ serial < MaxRequests
  /\ serial' = serial + 1
  /\ requests' = Push(requests, [id |-> serial + 1, type |-> kind, handle |-> h])
  /\ call' = IF IsFull(requests) THEN "none" ELSE kind
  /\ polls' = MaxPolls

AllocateVram ==
  /\ SendAndWait("alloc", NoHandle)
  /\ UNCHANGED <<responses, staging, bypass, poolVars, workerVars,
                 target, payload, held, uploaded>>

\* The data goes to the one staging area before it is known whether the
\* request can be sent.
UploadBuffer(h, d) ==
  /\ h \in held
  /\ SendAndWait("upload", h)
  /\ staging' = d /\ target' = h /\ payload' = d
  /\ uploaded' = [uploaded EXCEPT ![h] = NoData]
  /\ UNCHANGED <<responses, bypass, poolVars, workerVars, held>>

\* Request id 0; nobody waits for the answer, or notices a full bus.
FreeVram(h) ==
  /\ call = "none" /\ h \in held
  /\ requests' = Push(requests, [id |-> 0, type |-> "free", handle |-> h])
  /\ held' = held \ {h}
  /\ uploaded' = [uploaded EXCEPT ![h] = NoData]
  /\ UNCHANGED <<responses, staging, bypass, poolVars, workerVars, callVars, serial>>

\* allocate_vram is content with a success that carries its request id.
Grants(r) == call = "alloc" /\ r.id = serial /\ r.success

\* mutant: any answer is taken for one's own
ConfirmsAny(r) == call = "upload"

\* upload_buffer with any answer that carries its request id.
Confirms(r) == call = "upload" /\ r.id = serial

\* One turn of the polling loop: allocate_vram goes on polling after a refusal,
\* both go on after an answer to an older request.
Poll ==
  /\ call # "none" /\ polls > 0
  /\ polls' = polls - 1
  /\ IF responses = << >>
     THEN UNCHANGED <<responses, call, held, uploaded>>
     ELSE LET r == Head(responses)
          IN  /\ responses' = Tail(responses)
              /\ call' = IF Grants(r) \/ Confirms(r) THEN "none" ELSE call
              /\ held' = IF Grants(r) THEN held \cup {r.handle} ELSE held
              /\ uploaded' = IF Confirms(r) /\ r.success
                             THEN [uploaded EXCEPT ![target] = payload]
                             ELSE uploaded
  /\ UNCHANGED <<requests, staging, bypass, poolVars, workerVars,
                 target, payload, serial>>

\* The tries are used up: the call returns 0 or false.
GiveUp ==
  /\ call # "none" /\ polls = 0
  /\ call' = "none"
  /\ UNCHANGED <<busVars, staging, bypass, poolVars, workerVars,
                 polls, target, payload, serial, held, uploaded>>

SetZeroCopyBypass(enabled) ==
  /\ bypass # enabled
  /\ bypass' = enabled
  /\ UNCHANGED <<busVars, staging, poolVars, workerVars, callVars, serial,
                 held, uploaded>>

-----------------------------------------------------------------------------
(* The pool. *)

Free == {h \in Handles : use[h] = "free"}

\* mutant: the search for a free entry ignores the active flag
FirstEntry(vkOk) == IF vkOk /\ Handles # {} THEN Min(Handles) ELSE NoHandle

\* The first entry that is not active; 0 when the pool is full or Vulkan
\* refuses.
FirstFree(vkOk) == IF vkOk /\ Free # {} THEN Min(Free) ELSE NoHandle

\* The pool once handle h (if any) is taken.
Take(h, purpose) ==
  /\ use' = [u \in Handles |-> IF u = h THEN purpose ELSE use[u]]
  /\ content' = [u \in Handles |-> IF u = h THEN NoData ELSE content[u]]

-----------------------------------------------------------------------------
(* The worker's loop. *)

\* dsp_vulkan_import_shm: always a new entry.  (What a failed call leaves behind, the
\* descriptor of dup(), is no entry of the pool and not in the model.)
ImportShm(vkOk) == FirstFree(vkOk)

\* set_zero_copy_bypass, in every turn: the shared memory is imported again.
FollowBypass(vkOk) ==
  LET h == IF bypass THEN ImportShm(vkOk) ELSE NoHandle
  IN  /\ wpc = "bypass"
      /\ wpc' = "audio"
      /\ shmHandle' = h
      /\ Take(h, "shm")
      /\ UNCHANGED <<busVars, staging, bypass, stateHandle, callVars, serial,
                     held, uploaded>>

\* A frame, or the timeout of poll.  The first frame allocates the state buffer,
\* and what it got is remembered even if it is 0.
ProcessStage(frame, vkOk) ==
  LET h == FirstFree(vkOk)
      first == frame /\ stateHandle = Unknown
  IN  /\ wpc = "audio"
      /\ wpc' = "serve"
      /\ stateHandle' = IF first THEN h ELSE stateHandle
      /\ Take(IF first THEN h ELSE NoHandle, "state")
      /\ UNCHANGED <<busVars, staging, bypass, shmHandle, callVars, serial,
                     held, uploaded>>

\* dsp_vulkan_upload_buffer and _free_buffer act on active entries only.
IsActive(h) == h \in Handles /\ use[h] # "free"

\* An upload works on an active entry, if Vulkan can map it.
Uploads(h, vkOk) == IsActive(h) /\ vkOk

VulkanUpload(h, d, vkOk) ==
  content' = IF Uploads(h, vkOk) THEN [content EXCEPT ![h] = d] ELSE content

VulkanFree(h) ==
  use' = IF IsActive(h) THEN [use EXCEPT ![h] = "free"] ELSE use

Answer(id, h, success) == [id |-> id, handle |-> h, success |-> success]

\* The answer is pushed without looking whether there is room.
Reply(r) == responses' = Push(responses, r)

ServeAllocate(vkOk) ==
  LET m == Head(requests)
      h == FirstFree(vkOk)
  IN  /\ m.type = "alloc"
      /\ Take(h, "vram")
      /\ Reply(Answer(m.id, h, h # NoHandle))

ServeUpload(vkOk) ==
  LET m == Head(requests)
  IN  /\ m.type = "upload"
      /\ VulkanUpload(m.handle, staging, vkOk)
      /\ UNCHANGED use
      /\ Reply(Answer(m.id, NoHandle, Uploads(m.handle, vkOk)))

ServeFree ==
  LET m == Head(requests)
  IN  /\ m.type = "free"
      /\ VulkanFree(m.handle)
      /\ UNCHANGED content
      /\ Reply(Answer(m.id, NoHandle, TRUE))

Serve(vkOk) ==
  /\ wpc = "serve" /\ requests # << >>
  /\ requests' = Tail(requests)
  /\ ServeAllocate(vkOk) \/ ServeUpload(vkOk) \/ ServeFree
  /\ UNCHANGED <<staging, bypass, workerVars, callVars, serial, held, uploaded>>

ServeDone ==
  /\ wpc = "serve" /\ requests = << >>
  /\ wpc' = "bypass"
  /\ UNCHANGED <<busVars, staging, bypass, poolVars, shmHandle, stateHandle,
                 callVars, serial, held, uploaded>>

-----------------------------------------------------------------------------
Sdk ==
  \/ AllocateVram
  \/ \E h \in Handles, d \in Data : UploadBuffer(h, d)
  \/ \E h \in Handles : FreeVram(h)
  \/ Poll \/ GiveUp
  \/ \E enabled \in BOOLEAN : SetZeroCopyBypass(enabled)

Worker ==
  \E vkOk \in BOOLEAN :
    \/ FollowBypass(vkOk)
    \/ \E frame \in BOOLEAN : ProcessStage(frame, vkOk)
    \/ Serve(vkOk)
    \/ ServeDone

Next == Sdk \/ Worker

Spec == Init /\ [][Next]_vars

-----------------------------------------------------------------------------
(* Properties. *)

Requests == [id : 0 .. MaxRequests, type : {"alloc", "upload", "free"},
             handle : 0 .. PoolSize - 1]
Responses == [id : 0 .. MaxRequests, handle : 0 .. PoolSize - 1, success : BOOLEAN]

\* TypeOK: the variables have their types and the buses keep within their size.
TypeOK ==
  /\ requests \in Seq(Requests) /\ Len(requests) < BusDepth
  /\ responses \in Seq(Responses) /\ Len(responses) < BusDepth
  /\ staging \in Data \cup {NoData} /\ bypass \in BOOLEAN
  /\ use \in [Handles -> {"free", "vram", "state", "shm"}]
  /\ content \in [Handles -> Data \cup {NoData}]
  /\ wpc \in {"bypass", "audio", "serve"}
  /\ shmHandle \in 0 .. PoolSize - 1 /\ stateHandle \in {Unknown} \cup 0 .. PoolSize - 1
  /\ call \in {"none", "alloc", "upload"} /\ polls \in 0 .. MaxPolls
  /\ serial \in 0 .. MaxRequests
  /\ target \in 0 .. PoolSize - 1 /\ payload \in Data \cup {NoData}
  /\ held \subseteq Handles /\ uploaded \in [Handles -> Data \cup {NoData}]

\* HeldIsReserved: a handle that allocate_vram returned and that was not freed is a
\* buffer of the plugin's own: not free, not the state buffer and not the imported
\* shared memory, in spite of calls that timed out and answers that came late.
HeldIsReserved == \A h \in held : use[h] = "vram"

\* UploadSticks: after upload_buffer has returned true the buffer holds that data,
\* until the plugin uploads to it again or frees it, although all uploads go
\* through one staging area and an upload that timed out may be served later.
UploadSticks ==
  \A h \in held : uploaded[h] # NoData => content[h] = uploaded[h]

\* OneImport: the pool holds the shared memory at most once, however often zero-copy
\* is switched on and off ("You can safely toggle this flag during playback").
OneImport == Cardinality({h \in Handles : use[h] = "shm"}) <= 1
=============================================================================
