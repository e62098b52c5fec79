----------------------------- MODULE AudioDriver -----------------------------
(****************************************************************************)
(* The macOS audio driver (src/src/audio/OSXDriver/HulaLoop/Plug-In): the   *)
(* object map and its reference counts, the plug-in with its device list,   *)
(* the device, the serial dispatch queue, and the audio server (the HAL)    *)
(* that calls in from several threads at once.                              *)
(*                                                                          *)
(* Every entry point of SA_PlugIn.cpp has the same three steps: copy a      *)
(* reference to the object out of the map, work on the object, release the  *)
(* reference.  The map's own lock covers the first and the last, the        *)
(* object's locks at most the second, so other threads run in between, and  *)
(* so does the queue, which may take the device apart.                      *)
(*                                                                          *)
(* Only Deactivate keeps a lock over several steps; any other critical      *)
(* section is one action that waits for the lock to be free.                *)
(****************************************************************************)
EXTENDS DriverProperties

CONSTANTS
  Clients,     \* threads of the HAL
  Does,        \* the entry points each of them calls
  NoObject,    \* NULL
  NoThread,    \* an unlocked mutex
  Questions,   \* the property addresses the clients ask about: [id, sel, scope]
  Settings,    \* the addresses they set
  Deactivates, \* whether SA_PlugIn::Deactivate is called: no code calls it
  MaxQueue     \* bound: rate requests on their way to the HAL

PlugIn == "plugin"
Device == "device"
Objects == {PlugIn, Device}

HalThread == "hal"
QueueThread == "queue"
Threads == Clients \cup {HalThread, QueueThread}

ASSUME NullIsNoObject == NoObject \notin Objects
ASSUME ClientsAreThreads ==
  IsFiniteSet(Clients) /\ {HalThread, QueueThread} \cap Clients = {}
ASSUME QueueHolds == MaxQueue \in Nat
ASSUME DeactivatesOrNot == Deactivates \in BOOLEAN
ASSUME QuestionsLegal ==
  Questions \cup Settings \subseteq [id : ObjectIDs, sel : Selectors, scope : Scopes]

JB_DRV_STATUS_INIT == 0
JB_DRV_STATUS_ACTIVE == 1
JB_DRV_STATUS_STARTED == 2
RingBufferFrameSize == 4096   \* STRBUFNUM / 2

VARIABLES
  hal,          \* how far the HAL has loaded the driver
  objectInfo,   \* the map: reference count and IDs of each object in it
  deleted,      \* objects whose destructor has run
  queue,        \* the global serial queue's blocks
  worker,       \* what the queue's thread is doing
  deviceList,   \* mDeviceInfoList
  stateMutex,   \* the thread that holds mStateMutex of the device
  ioMutex,      \* and mIOMutex
  device,       \* the device's state
  requests,     \* configuration changes the HAL has been asked for
  changing,     \* the HAL is inside PerformDeviceConfigurationChange
  held,         \* the object each thread holds a reference to
  owned,        \* objects whose owner has not released them
  pc, call,     \* each client: where it is, in which call
  reply,        \* what the call gave back
  started       \* clients whose StartIO is in effect

mapVars == <<objectInfo, deleted, queue, held, owned>>
deviceVars == <<deviceList, stateMutex, ioMutex, device>>
hostVars == <<hal, requests, changing, started>>
clientVars == <<pc, call, reply>>
vars == <<hostVars, mapVars, worker, deviceVars, clientVars>>

NoEntry == [refs |-> 0, ids |-> {}]
NoReply == [status |-> "none", data |-> <<>>]
Error(e) == [status |-> e, data |-> <<>>]
Ok == [status |-> "ok", data |-> <<>>]

\* The blocks dispatched to the queue.
Destroy(o) == [do |-> "destroy", arg |-> o]
Request(rate) == [do |-> "request", arg |-> rate]
Remove(id) == [do |-> "remove", arg |-> id]

\* Rate requests that have not reached the HAL or not been answered by it.
IsRequest(block) == block.do = "request"
Pending == Len(SelectSeq(queue, IsRequest)) + Len(requests)

----------------------------------------------------------------------------
(* The object map, each operation under its mutex.                          *)

Mapped(id) == {o \in Objects : id \in objectInfo[o].ids}

\* Maps an ID unless it is taken; the first mapping of an object makes the
\* reference of its owner.
MapObject(info, id, o) ==
  IF \E p \in Objects : id \in info[p].ids THEN info
  ELSE [info EXCEPT ![o] = [refs |-> IF @ = NoEntry THEN 1 ELSE @.refs,
                            ids |-> @.ids \cup {id}]]

\* Takes one ID off; an object without IDs is destroyed whatever its count.
UnmapObject(id, o) ==
  LET left == objectInfo[o].ids \ {id}
      last == id \in objectInfo[o].ids /\ left = {} IN
  /\ objectInfo' = IF last THEN [objectInfo EXCEPT ![o] = NoEntry]
                    ELSE [objectInfo EXCEPT ![o].ids = left]
  /\ queue' = IF last THEN Append(queue, Destroy(o)) ELSE queue

\* As a bug would have it: the object is looked up and not retained.
CopyUnretained(t, id) ==
  /\ held' = IF Mapped(id) = {} THEN held
             ELSE [held EXCEPT ![t] = CHOOSE o \in Mapped(id) : TRUE]
  /\ UNCHANGED objectInfo

\* Thread t looks an ID up and, where it is mapped, has a reference from then.
CopyObjectByObjectID(t, id) ==
  IF Mapped(id) = {} THEN UNCHANGED <<objectInfo, held>>
  ELSE \E o \in Mapped(id) :
         /\ objectInfo' = [objectInfo EXCEPT ![o].refs = @ + 1]
         /\ held' = [held EXCEPT ![t] = o]

\* Gives a reference back; the last takes the object off the map and has the
\* queue destroy it.  An object that is not on the map is left alone.
ReleaseObject(o) ==
  LET last == objectInfo[o].refs = 1 IN
  IF objectInfo[o] = NoEntry THEN UNCHANGED <<objectInfo, queue>>
  ELSE /\ objectInfo' = IF last THEN [objectInfo EXCEPT ![o] = NoEntry]
                         ELSE [objectInfo EXCEPT ![o].refs = @ - 1]
       /\ queue' = IF last THEN Append(queue, Destroy(o)) ELSE queue

\* SA_ObjectReleaser's destructor: thread t lets go of what it holds, if any.
LetGo(t) ==
  /\ IF held[t] = NoObject THEN UNCHANGED <<objectInfo, queue>>
     ELSE ReleaseObject(held[t])
  /\ held' = [held EXCEPT ![t] = NoObject]

----------------------------------------------------------------------------
(* Loading the driver.                                                      *)

NewDevice ==
  [startCount |-> 0, status |-> JB_DRV_STATUS_INIT,
   shmStatus |-> JB_DRV_STATUS_INIT, rate |-> 48000, ticksRate |-> 0,
   ringFrames |-> 0, active |-> [s \in {"Input", "Output"} |-> TRUE]]

Init ==
  /\ hal = "unloaded"
  /\ objectInfo = [o \in Objects |-> NoEntry]
  /\ deleted = {} /\ queue = <<>> /\ owned = {}
  /\ held = [t \in Threads |-> NoObject]
  /\ worker = "idle"
  /\ deviceList = <<>>
  /\ stateMutex = NoThread /\ ioMutex = NoThread
  /\ device = NewDevice
  /\ requests = <<>> /\ changing = FALSE
  /\ pc = [c \in Clients |-> "idle"]
  /\ call = [c \in Clients |-> [op |-> "none"]]
  /\ reply = [c \in Clients |-> NoReply]
  /\ started = {}

\* As a bug would have it: the plug-in lists its own ID.
SA_CreateSelf ==
  /\ hal = "unloaded"
  /\ hal' = "creating"
  /\ objectInfo' = MapObject(MapObject(objectInfo, kAudioObjectPlugInObject, PlugIn),
                             mObjectID, Device)
  /\ owned' = Objects
  /\ deviceList' = <<kAudioObjectPlugInObject>>
  /\ UNCHANGED <<deleted, queue, held, worker, stateMutex, ioMutex, device,
                 requests, changing, started, clientVars>>

\* The factory makes the plug-in and its one device, maps both and lists the
\* device; nobody else runs yet, pthread_once holds the other threads back.
SA_Create ==
  /\ hal = "unloaded"
  /\ hal' = "creating"
  /\ objectInfo' = MapObject(MapObject(objectInfo, kAudioObjectPlugInObject, PlugIn),
                             mObjectID, Device)
  /\ owned' = Objects
  /\ deviceList' = <<mObjectID>>
  /\ UNCHANGED <<deleted, queue, held, worker, stateMutex, ioMutex, device,
                 requests, changing, started, clientVars>>

\* The device comes to life: its streams' IDs lead to it from now on, _HW_Open
\* sets up the memory it shares with the daemon, and the ticks are worked out.
ActivateDevice ==
  /\ hal = "creating"
  /\ hal' = "created"
  /\ objectInfo' = MapObject(MapObject(MapObject(objectInfo,
                      mInputStreamObjectID, Device), mOutputStreamObjectID, Device),
                      mOutputStreamObjectID2, Device)
  /\ device' = [device EXCEPT !.shmStatus = JB_DRV_STATUS_ACTIVE,
                              !.status = JB_DRV_STATUS_ACTIVE,
                              !.ringFrames = RingBufferFrameSize, !.ticksRate = device.rate]
  /\ UNCHANGED <<deleted, queue, held, owned, worker, deviceList, stateMutex,
                 ioMutex, requests, changing, started, clientVars>>

\* Erases the first entry of the list that is the device's, if there is one.
RemoveDevice ==
  IF \A i \in DOMAIN deviceList : deviceList[i] # mObjectID THEN UNCHANGED deviceList
  ELSE \E i \in DOMAIN deviceList :
         /\ deviceList[i] = mObjectID /\ \A j \in 1 .. i - 1 : deviceList[j] # mObjectID
         /\ deviceList' = SubSeq(deviceList, 1, i - 1)
                            \o SubSeq(deviceList, i + 1, Len(deviceList))

\* The shared memory is not to be had: the device is withdrawn.
ActivateFails ==
  /\ hal = "creating"
  /\ hal' = "created"
  /\ RemoveDevice
  /\ ReleaseObject(Device)
  /\ owned' = owned \ {Device}
  /\ UNCHANGED <<deleted, held, worker, stateMutex, ioMutex, device, requests,
                 changing, started, clientVars>>

SA_Initialize ==
  /\ hal = "created"
  /\ hal' = "ready"
  /\ UNCHANGED <<requests, changing, started, mapVars, worker, deviceVars, clientVars>>

----------------------------------------------------------------------------
(* The calls of a client.                                                   *)

\* Room is what a caller of GetPropertyData has: for an ID, or for a format.  Only
\* TranslateUIDToDevice looks at a qualifier.
Asks(op) ==
  {[op |-> op, id |-> q.id, sel |-> q.sel, scope |-> q.scope, room |-> room,
    qualified |-> q.sel # "TranslateUIDToDevice" \/ b] :
     q \in Questions, room \in {4, 64}, b \in BOOLEAN}
SA_HasProperty == Asks("HasProperty")
SA_IsPropertySettable == Asks("IsPropertySettable")
SA_GetPropertyDataSize == Asks("GetPropertyDataSize")
SA_GetPropertyData == Asks("GetPropertyData")

\* A rate goes through the device or, in a format, through a stream.  The data
\* is proper when it has the size, and a format or a rate, that the setter takes.
ValuesOf(sel) == IF sel = "IsActive" THEN BOOLEAN ELSE SupportedRates
SA_SetPropertyData ==
  UNION {{[op |-> "SetPropertyData", id |-> q.id, sel |-> q.sel, scope |-> q.scope,
           value |-> v, proper |-> b] : v \in ValuesOf(q.sel), b \in BOOLEAN} :
         q \in Settings}

\* An IO cycle: the time, then each operation the device said it will do.
Operations == {"Thread", "Cycle", "ReadInput", "ConvertInput", "ProcessInput",
               "ProcessOutput", "MixOutput", "ProcessMix", "ConvertMix", "WriteMix"}
WillDoIOOperation(operation) == operation \in {"ReadInput", "WriteMix"}
OnDevice(op) == {[op |-> op, id |-> mObjectID]}
OnOperations(op, operations) ==
  {[op |-> op, id |-> mObjectID, operation |-> o] : o \in operations}
SA_StartIO == OnDevice("StartIO")
SA_StopIO == OnDevice("StopIO")
SA_GetZeroTimeStamp == OnDevice("GetZeroTimeStamp")
SA_WillDoIOOperation == OnOperations("WillDoIOOperation", Operations)
SA_BeginIOOperation == OnOperations("BeginIOOperation", {o \in Operations : WillDoIOOperation(o)})
SA_DoIOOperation == OnOperations("DoIOOperation", {o \in Operations : WillDoIOOperation(o)})
SA_EndIOOperation == OnOperations("EndIOOperation", {o \in Operations : WillDoIOOperation(o)})
Calls ==
  SA_HasProperty \cup SA_IsPropertySettable \cup SA_GetPropertyDataSize
    \cup SA_GetPropertyData \cup SA_SetPropertyData \cup SA_StartIO \cup SA_StopIO
    \cup SA_GetZeroTimeStamp \cup SA_WillDoIOOperation \cup SA_BeginIOOperation \cup SA_DoIOOperation
    \cup SA_EndIOOperation

\* The HAL pairs its calls: it starts a client's IO once, does IO only for a
\* client it has started, and starts none while a change is performed.
Sensible(c, k) ==
  CASE k.op = "StartIO" -> c \notin started /\ ~changing /\ requests = <<>>
    [] k.op \in {"StopIO", "GetZeroTimeStamp", "BeginIOOperation", "DoIOOperation",
                  "EndIOOperation"} -> c \in started
    [] k.op = "SetPropertyData" -> Pending < MaxQueue
    [] OTHER -> TRUE

\* Every entry point begins with a reference; without one it is over, and a
\* client that wanted to stop counts as stopped.
Begin(c, k) ==
  /\ pc[c] = "idle"
  /\ hal \in {"ready", "retired"}
  /\ k.op \in Does[c] /\ Sensible(c, k)
  /\ call' = [call EXCEPT ![c] = k]
  /\ CopyObjectByObjectID(c, k.id)
  /\ IF Mapped(k.id) = {}
     THEN /\ pc' = [pc EXCEPT ![c] = "done"]
          /\ reply' = [reply EXCEPT ![c] = Error("BadObject")]
          /\ started' = IF k.op = "StopIO" THEN started \ {c} ELSE started
     ELSE /\ pc' = [pc EXCEPT ![c] = "held"]
          /\ UNCHANGED <<reply, started>>
  /\ UNCHANGED <<hal, requests, changing, deleted, queue, owned, worker, deviceVars>>

\* The locks the object takes to answer.
StateSelectors == {"DeviceIsRunning", "NominalSampleRate", "IsActive"}
                    \cup FormatSelectors
UsesStateMutex(k) ==
  \/ k.op \in {"StartIO", "StopIO", "SetPropertyData"}
  \/ k.op = "GetPropertyData" /\ k.sel \in StateSelectors /\ k.id # kAudioObjectPlugInObject
UsesIOMutex(k) == k.op = "DoIOOperation"

Enter(c) ==
  /\ pc[c] = "held"
  /\ UsesStateMutex(call[c]) => stateMutex = NoThread
  /\ UsesIOMutex(call[c]) => ioMutex = NoThread

Answers(c, r) ==
  /\ reply' = [reply EXCEPT ![c] = r]
  /\ pc' = [pc EXCEPT ![c] = "done"]
  /\ UNCHANGED call

State == [devices |-> deviceList, startCount |-> device.startCount,
          rate |-> device.rate, ringFrames |-> device.ringFrames,
          active |-> device.active]

\* What the four questions answer.
Answer(k) ==
  IF ~HasProperty(k.id, k.sel, k.scope) THEN Error("UnknownProperty")
  ELSE CASE k.op = "HasProperty" -> Reply(<<1>>)
         [] k.op = "IsPropertySettable" ->
              Reply(<<IF IsPropertySettable(k.id, k.sel) = "yes" THEN 1 ELSE 0>>)
         [] k.op = "GetPropertyDataSize" ->
              Reply(<<GetPropertyDataSize(k.id, k.sel, k.scope, Len(deviceList))>>)
         [] k.op = "GetPropertyData" ->
              GetPropertyData(k.id, k.sel, k.scope, k.room, k.qualified, State)

Ask(c) ==
  /\ Enter(c)
  /\ call[c].op \in {"HasProperty", "IsPropertySettable",
                    "GetPropertyDataSize", "GetPropertyData"}
  /\ Answers(c, Answer(call[c]))
  /\ UNCHANGED <<hostVars, mapVars, worker, deviceVars>>

\* What the entry point and the setters check first, before they take a lock.
IsSettable(k) == HasProperty(k.id, k.sel, k.scope) /\ IsPropertySettable(k.id, k.sel) = "yes"
MaySet(k) == IsSettable(k) /\ k.proper

\* An unknown property, one that may not be set, or data that is not taken.
SetRefused(c) ==
  LET k == call[c] IN
  /\ pc[c] = "held"
  /\ k.op = "SetPropertyData" /\ ~MaySet(k)
  /\ Answers(c, Error(IF ~HasProperty(k.id, k.sel, k.scope) THEN "UnknownProperty"
                      ELSE IF ~IsSettable(k) THEN "UnsupportedOperation" ELSE "BadData"))
  /\ UNCHANGED <<hostVars, mapVars, worker, deviceVars>>

SetActive(c) ==
  /\ Enter(c)
  /\ call[c].op = "SetPropertyData" /\ call[c].sel = "IsActive" /\ MaySet(call[c])
  /\ LET side == IF call[c].id = mInputStreamObjectID THEN "Input" ELSE "Output" IN
     device' = [device EXCEPT !.active[side] = call[c].value]
  /\ Answers(c, Ok)
  /\ UNCHANGED <<hostVars, mapVars, worker, deviceList, stateMutex, ioMutex>>

\* A new rate: the old one is read under the lock and compared after it; the
\* HAL is asked from the queue.
ReadRate(c) ==
  /\ Enter(c)
  /\ call[c].op = "SetPropertyData" /\ call[c].sel # "IsActive" /\ MaySet(call[c])
  /\ reply' = [reply EXCEPT ![c] = Reply(<<device.rate>>)]
  /\ pc' = [pc EXCEPT ![c] = "compare"]
  /\ UNCHANGED <<call, hostVars, mapVars, worker, deviceVars>>

RequestRate(c) ==
  /\ pc[c] = "compare"
  /\ queue' = IF reply[c].data = <<call[c].value>> THEN queue
              ELSE Append(queue, Request(call[c].value))
  /\ Answers(c, Ok)
  /\ UNCHANGED <<hostVars, objectInfo, deleted, held, owned, worker, deviceVars>>

\* The first client starts the hardware, which refuses once it is closed.
StartIO(c) ==
  LET first == device.startCount = 0 IN
  /\ Enter(c)
  /\ call[c].op = "StartIO"
  /\ IF first /\ device.status = JB_DRV_STATUS_INIT
     THEN Answers(c, Error("NotRunning")) /\ UNCHANGED <<device, started>>
     ELSE /\ device' = [device EXCEPT !.startCount = @ + 1,
                          !.status = IF first THEN JB_DRV_STATUS_STARTED ELSE @,
                          !.shmStatus = IF first THEN JB_DRV_STATUS_STARTED ELSE @]
          /\ started' = started \cup {c}
          /\ Answers(c, Ok)
  /\ UNCHANGED <<hal, requests, changing, mapVars, worker, deviceList, stateMutex, ioMutex>>

\* As a bug would have it: any client's stop stops the hardware.
StopIOAlways(c) ==
  /\ Enter(c)
  /\ call[c].op = "StopIO"
  /\ device' = [device EXCEPT !.startCount = IF @ = 0 THEN 0 ELSE @ - 1,
                  !.status = JB_DRV_STATUS_ACTIVE, !.shmStatus = JB_DRV_STATUS_ACTIVE]
  /\ started' = started \ {c}
  /\ Answers(c, Ok)
  /\ UNCHANGED <<hal, requests, changing, mapVars, worker, deviceList, stateMutex, ioMutex>>

\* The last one stops it.
StopIO(c) ==
  LET last == device.startCount = 1 IN
  /\ Enter(c)
  /\ call[c].op = "StopIO"
  /\ device' = [device EXCEPT !.startCount = IF @ = 0 THEN 0 ELSE @ - 1,
                  !.status = IF last THEN JB_DRV_STATUS_ACTIVE ELSE @,
                  !.shmStatus = IF last THEN JB_DRV_STATUS_ACTIVE ELSE @]
  /\ started' = started \ {c}
  /\ Answers(c, Ok)
  /\ UNCHANGED <<hal, requests, changing, mapVars, worker, deviceList, stateMutex, ioMutex>>

\* The calls of a cycle leave the device's state as it is: their frames and
\* time stamps are DriverBridge's.  The frames are copied under the IO lock.
DoIO(c) ==
  /\ Enter(c)
  /\ call[c].op \in {"GetZeroTimeStamp", "WillDoIOOperation", "BeginIOOperation",
                    "DoIOOperation", "EndIOOperation"}
  /\ Answers(c, IF call[c].op = "WillDoIOOperation"
                THEN Reply(<<IF WillDoIOOperation(call[c].operation) THEN 1 ELSE 0>>)
                ELSE Ok)
  /\ UNCHANGED <<hostVars, mapVars, worker, deviceVars>>

\* The reference goes back, and the call returns.
Finish(c) ==
  /\ pc[c] = "done"
  /\ LetGo(c)
  /\ pc' = [pc EXCEPT ![c] = "idle"]
  /\ call' = [call EXCEPT ![c] = [op |-> "none"]]
  /\ reply' = [reply EXCEPT ![c] = NoReply]
  /\ UNCHANGED <<hostVars, deleted, owned, worker, deviceVars>>

----------------------------------------------------------------------------
(* The HAL performs a change it was asked for, with all IO at rest, or lets *)
(* it go.                                                                   *)

\* As a bug would have it: every call has to be over, not those of IO alone.
AtRestAll == started = {} /\ \A c \in Clients : pc[c] = "idle"

AtRest ==
  /\ started = {}
  /\ \A c \in Clients : call[c].op = "StartIO" => pc[c] \notin {"held", "done"}

BeginChange ==
  /\ requests # <<>> /\ ~changing /\ AtRest
  /\ changing' = TRUE
  /\ CopyObjectByObjectID(HalThread, mObjectID)
  /\ UNCHANGED <<hal, requests, started, deleted, queue, owned, worker, deviceVars, clientVars>>

\* As a bug would have it: the ticks stay those of the old rate.
EndChangeRateOnly ==
  /\ changing /\ stateMutex = NoThread
  /\ changing' = FALSE
  /\ requests' = Tail(requests)
  /\ device' = [device EXCEPT !.rate = Head(requests)]
  /\ LetGo(HalThread)
  /\ UNCHANGED <<hal, started, deleted, owned, worker, deviceList, stateMutex,
                 ioMutex, clientVars>>

\* PerformConfigChange, or AbortConfigChange, which does nothing; either way
\* the reference goes back.
EndChange ==
  /\ changing
  /\ changing' = FALSE
  /\ requests' = Tail(requests)
  /\ \/ /\ held[HalThread] # NoObject /\ stateMutex = NoThread
        /\ Head(requests) \in SupportedRates
        /\ device' = [device EXCEPT !.rate = Head(requests),
                                   !.ticksRate = Head(requests)]
     \/ UNCHANGED device
  /\ LetGo(HalThread)
  /\ UNCHANGED <<hal, started, deleted, owned, worker, deviceList, stateMutex,
                 ioMutex, clientVars>>

----------------------------------------------------------------------------
(* Taking the plug-in down, and the queue's thread.                         *)

\* SA_PlugIn::Deactivate: the list keeps its length, its IDs become 0, and
\* the queue is left to take each device apart.  The HAL never releases a
\* plug-in it opens (SA_PlugIn.cpp:524), and nothing else calls it.
DeactivatePlugIn ==
  /\ Deactivates
  /\ hal = "ready"
  /\ hal' = "retired"
  /\ deviceList' = [i \in DOMAIN deviceList |-> 0]
  /\ queue' = queue \o [i \in DOMAIN deviceList |-> Remove(deviceList[i])]
  /\ UNCHANGED <<requests, changing, started, objectInfo, deleted, held, owned,
                 worker, stateMutex, ioMutex, device, clientVars>>

Dequeue(do) ==
  /\ worker = "idle" /\ queue # <<>> /\ Head(queue).do = do

RunDestroy ==
  /\ Dequeue("destroy")
  /\ deleted' = deleted \cup {Head(queue).arg}
  /\ queue' = Tail(queue)
  /\ UNCHANGED <<hostVars, objectInfo, held, owned, worker, deviceVars, clientVars>>

RunRequest ==
  /\ Dequeue("request")
  /\ requests' = Append(requests, Head(queue).arg)
  /\ queue' = Tail(queue)
  /\ UNCHANGED <<hal, changing, started, objectInfo, deleted, held, owned, worker,
                 deviceVars, clientVars>>

RunRemove ==
  /\ Dequeue("remove")
  /\ CopyObjectByObjectID(QueueThread, Head(queue).arg)
  /\ worker' = IF Mapped(Head(queue).arg) = {} THEN "idle" ELSE "state"
  /\ queue' = Tail(queue)
  /\ UNCHANGED <<hostVars, deleted, owned, deviceVars, clientVars>>

\* SA_Device::Deactivate takes both locks, in this order.
LockState ==
  /\ worker = "state" /\ stateMutex = NoThread
  /\ worker' = "io" /\ stateMutex' = QueueThread
  /\ UNCHANGED <<hostVars, mapVars, deviceList, ioMutex, device, clientVars>>

LockIO ==
  /\ worker = "io" /\ ioMutex = NoThread
  /\ worker' = "unmap" /\ ioMutex' = QueueThread
  /\ UNCHANGED <<hostVars, mapVars, deviceList, stateMutex, device, clientVars>>

\* As a bug would have it: the device's own ID goes with the streams'.
UnmapAll ==
  /\ worker = "unmap"
  /\ \E id \in objectInfo[Device].ids : UnmapObject(id, Device)
  /\ UNCHANGED <<hostVars, deleted, held, owned, worker, deviceVars, clientVars>>

\* The streams' IDs go one after the other; the device keeps its own.
Unmap ==
  /\ worker = "unmap"
  /\ \E id \in Streams :
       /\ id \in objectInfo[Device].ids
       /\ \A s \in Streams : s \in objectInfo[Device].ids => id <= s
       /\ UnmapObject(id, Device)
  /\ UNCHANGED <<hostVars, deleted, held, owned, worker, deviceVars, clientVars>>

\* _HW_Close leaves the shared status to the daemon as it is.
CloseDevice ==
  /\ worker = "unmap" /\ Streams \cap objectInfo[Device].ids = {}
  /\ device' = [device EXCEPT !.status = JB_DRV_STATUS_INIT]
  /\ stateMutex' = NoThread /\ ioMutex' = NoThread
  /\ worker' = "release"
  /\ UNCHANGED <<hostVars, mapVars, deviceList, clientVars>>

\* The owner's reference, then the block's own.
ReleaseOwned ==
  /\ worker = "release"
  /\ ReleaseObject(held[QueueThread])
  /\ owned' = owned \ {held[QueueThread]}
  /\ worker' = "letgo"
  /\ UNCHANGED <<hostVars, deleted, held, deviceVars, clientVars>>

ReleaseOwn ==
  /\ worker = "letgo"
  /\ LetGo(QueueThread)
  /\ worker' = "idle"
  /\ UNCHANGED <<hostVars, deleted, owned, deviceVars, clientVars>>

----------------------------------------------------------------------------
Loading == SA_Create \/ ActivateDevice \/ ActivateFails \/ SA_Initialize

Serve(c) ==
  \/ Ask(c) \/ SetRefused(c) \/ SetActive(c) \/ ReadRate(c) \/ RequestRate(c)
  \/ StartIO(c) \/ StopIO(c) \/ DoIO(c) \/ Finish(c)

QueueStep ==
  \/ RunDestroy \/ RunRequest \/ RunRemove \/ LockState \/ LockIO
  \/ Unmap \/ CloseDevice \/ ReleaseOwned \/ ReleaseOwn

Change == BeginChange \/ EndChange

Next ==
  \/ Loading
  \/ \E c \in Clients :
       \/ \E k \in Calls : Begin(c, k)
       \/ Serve(c)
  \/ Change
  \/ DeactivatePlugIn
  \/ QueueStep

Spec == Init /\ [][Next]_vars

\* The HAL asks its IO clients to stop when it has a change to perform, calls
\* that have begun go on, and so do the queue's thread and the HAL's.
StopForChange == requests # <<>> /\ \E c \in Clients, k \in SA_StopIO : Begin(c, k)

FairSpec ==
  /\ Spec
  /\ \A c \in Clients : WF_vars(Serve(c))
  /\ SF_vars(StopForChange) /\ WF_vars(QueueStep) /\ WF_vars(Change)

----------------------------------------------------------------------------
(* Properties.                                                              *)

Entries == [refs : Nat, ids : SUBSET ObjectIDs]
Blocks == {Destroy(o) : o \in Objects} \cup {Request(r) : r \in SupportedRates}
            \cup {Remove(i) : i \in ObjectIDs}

\* The types of the map, the queue, the device and the clients.
TypeOK ==
  /\ hal \in {"unloaded", "creating", "created", "ready", "retired"}
  /\ objectInfo \in [Objects -> Entries]
  /\ deleted \in SUBSET Objects /\ owned \in SUBSET Objects
  /\ queue \in Seq(Blocks)
  /\ held \in [Threads -> Objects \cup {NoObject}]
  /\ worker \in {"idle", "state", "io", "unmap", "release", "letgo"}
  /\ deviceList \in Seq({0, mObjectID})
  /\ stateMutex \in {NoThread, QueueThread} /\ ioMutex \in {NoThread, QueueThread}
  /\ device.startCount \in Nat /\ device.rate \in SupportedRates
  /\ requests \in Seq(SupportedRates) /\ changing \in BOOLEAN
  /\ started \in SUBSET Clients
  /\ pc \in [Clients -> {"idle", "held", "compare", "done"}]

\* The count of a mapped object is the number of references that exist: its
\* owner's and one for each thread that holds it.
Holders(o) == {t \in Threads : held[t] = o}
CountsExact ==
  \A o \in Objects : objectInfo[o] # NoEntry =>
    objectInfo[o].refs = Cardinality(Holders(o)) + (IF o \in owned THEN 1 ELSE 0)

\* No thread is inside an object that has been destroyed or is about to be
\* ("it is important that a thread retain and hold a reference while it is
\* using an SA_Object"), in whatever order calls and teardown meet, and an object
\* is handed to its destructor at most once.
Doomed == deleted \cup {o \in Objects : \E i \in DOMAIN queue : queue[i] = Destroy(o)}
ReferencesHold == \A t \in Threads : held[t] \notin Doomed

DestroyedOnce ==
  \A o \in Objects :
    /\ Cardinality({i \in DOMAIN queue : queue[i] = Destroy(o)})
         + (IF o \in deleted THEN 1 ELSE 0) <= 1
    /\ o \in Doomed => objectInfo[o] = NoEntry
LifetimesExact == ReferencesHold /\ DestroyedOnce

\* Until the plug-in is taken down the hardware runs exactly while some client
\* has IO started, and the daemon sees it so.
HardwareFollowsClients ==
  hal # "retired" =>
    /\ device.startCount = Cardinality(started)
    /\ device.status = JB_DRV_STATUS_STARTED <=> started # {}
    /\ device.shmStatus = device.status

\* The ticks per frame that time stamps are made from are those of the rate.
TicksMatchRate == device.status # JB_DRV_STATUS_INIT => device.ticksRate = device.rate

\* The tables agree: a property an object has can be asked about, has a size,
\* and a caller with room for that size or more gets exactly that many bytes;
\* and what is said to be settable is what the setters accept.  It is about
\* sizes: whether a value is the right one, or written at all, it does not say.
Setters(id) ==
  CASE id = kAudioObjectPlugInObject -> {}
    [] id = mObjectID -> {"NominalSampleRate"}
    [] id \in Streams -> FormatSelectors \cup {"IsActive"}
Agree(id, sel, scope) ==
  LET size == GetPropertyDataSize(id, sel, scope, Len(deviceList)) IN
  /\ IsPropertySettable(id, sel) # "unknown"
  /\ IsPropertySettable(id, sel) = "yes" <=> sel \in Setters(id)
  /\ \A room \in {size, size + 64} :
       LET answer == GetPropertyData(id, sel, scope, room, TRUE, State) IN
       answer.status = "ok" /\ Len(answer.data) * ItemBytes(sel) = size
Quiet == \A c \in Clients : pc[c] = "idle"
SizesAgree ==
  Quiet => \A id \in ObjectIDs, sel \in Selectors, scope \in Scopes :
             HasProperty(id, sel, scope) => Agree(id, sel, scope)

\* The object tree the HAL scans is one tree: each stream the device lists is
\* owned by it, lies on the side its direction says, and the channels of two
\* streams of one side do not overlap.
Value(id, sel, scope) == GetPropertyData(id, sel, scope, 64, TRUE, State).data
ChannelsOf(id) ==
  LET first == Value(id, "StartingChannel", "Global")[1] IN
  first .. first + ChannelsPerStream - 1
Listed(scope) ==
  LET list == Value(mObjectID, "Streams", scope) IN {list[i] : i \in DOMAIN list}
StreamsFitTogether ==
  Quiet =>
    /\ Listed("Global") = Listed("Input") \cup Listed("Output")
    /\ \A s \in Listed("Global") :
         /\ Value(s, "Owner", "Global") = <<mObjectID>>
         /\ s \in Listed("Input") <=> Value(s, "Direction", "Global") = <<1>>
    /\ \A side \in {"Input", "Output"} : \A s, t \in Listed(side) :
         s # t => ChannelsOf(s) \cap ChannelsOf(t) = {}
TablesAgree == SizesAgree /\ StreamsFitTogether

\* While changes keep being asked for, the HAL keeps completing them: a stop
\* that waits for the device's locks does not hold them up for ever.
ChangesComplete == ([]<>(requests # <<>>)) => ([]<><<changing /\ ~changing'>>_vars)

=============================================================================
