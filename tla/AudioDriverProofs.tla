-------------------------- MODULE AudioDriverProofs --------------------------
(****************************************************************************)
(* Proofs about AudioDriver, for any finite set of client threads, whatever *)
(* entry points they call and whatever they ask about and set.              *)
(****************************************************************************)
EXTENDS AudioDriver, SequenceTheorems, FiniteSetTheorems, TLAPS

(****************************************************************************)
(* The inductive invariant.                                                 *)
(****************************************************************************)

\* What TypeOK leaves open: the calls, and all the fields of the device.
CallType == call \in [Clients -> Calls \cup {[op |-> "none"]}]
Statuses == {JB_DRV_STATUS_INIT, JB_DRV_STATUS_ACTIVE, JB_DRV_STATUS_STARTED}
DeviceStates ==
  [startCount : Nat, status : Statuses, shmStatus : Statuses,
   rate : SupportedRates, ticksRate : SupportedRates \cup {0},
   ringFrames : Nat, active : [{"Input", "Output"} -> BOOLEAN]]
DeviceType == device \in DeviceStates

\* A new rate is compared only by a call that sets one.
Comparing ==
  \A c \in Clients :
    pc[c] = "compare" => call[c].op = "SetPropertyData" /\ call[c].sel # "IsActive"

Types == TypeOK /\ CallType /\ DeviceType /\ Comparing

\* Until the HAL may call, nothing is on its way.
Loaded ==
  /\ hal = "unloaded" => \A o \in Objects : objectInfo[o] = NoEntry /\ o \notin owned
  /\ hal = "creating" => \A o \in Objects : objectInfo[o] # NoEntry /\ o \in owned
  /\ hal \in {"unloaded", "creating"} =>
       queue = <<>> /\ deleted = {} /\ device.status = JB_DRV_STATUS_INIT
  /\ hal \in {"unloaded", "creating", "created"} =>
       /\ requests = <<>> /\ \A c \in Clients : pc[c] = "idle"
       /\ \A i \in DOMAIN queue : queue[i].do # "request"
  /\ changing => requests # <<>>

\* The device is listed as long as its owner has it, until the teardown.
ListedOwned ==
  /\ hal = "unloaded" => deviceList = <<>>
  /\ hal = "creating" => deviceList = <<mObjectID>>
  /\ hal \in {"created", "ready"} =>
       \/ deviceList = <<mObjectID>> /\ Device \in owned
       \/ deviceList = <<>>

\* A thread holds an object only in a call, a change, or a removal.
Resting ==
  /\ \A c \in Clients : pc[c] = "idle" => held[c] = NoObject
  /\ ~changing => held[HalThread] = NoObject
  /\ worker = "idle" => held[QueueThread] = NoObject

\* The device is removed once, by the queue, while its owner's reference is
\* still there.
Removes == {i \in DOMAIN queue : queue[i].do = "remove"}
Removal ==
  /\ \A i \in Removes : queue[i] = Remove(mObjectID)
  /\ \A i, j \in Removes : i = j
  /\ Removes # {} \/ worker # "idle" => hal = "retired"
  /\ Removes # {} => worker = "idle" /\ Device \in owned
  /\ worker # "idle" => held[QueueThread] = Device
  /\ worker \notin {"idle", "letgo"} => Device \in owned

\* What the map says of an object.
Names(o) ==
  IF o = PlugIn THEN {kAudioObjectPlugInObject} ELSE ObjectIDs \ {kAudioObjectPlugInObject}
OwnName(o) == IF o = PlugIn THEN kAudioObjectPlugInObject ELSE mObjectID
Identified ==
  \A o \in Objects :
    /\ objectInfo[o].ids \subseteq Names(o)
    /\ objectInfo[o] # NoEntry => objectInfo[o].refs > 0 /\ OwnName(o) \in objectInfo[o].ids

\* Whoever holds or owns an object finds it on the map.
Mapping ==
  /\ \A t \in Threads : held[t] # NoObject => objectInfo[held[t]] # NoEntry
  /\ \A o \in owned : objectInfo[o] # NoEntry

\* An object is off the map before it is given to its destructor, once.
DestroyOnce ==
  \A o \in Objects :
    /\ o \in Doomed => objectInfo[o] = NoEntry
    /\ o \in deleted => \A i \in DOMAIN queue : queue[i] # Destroy(o)
    /\ \A i, j \in DOMAIN queue : queue[i] = Destroy(o) /\ queue[j] = Destroy(o) => i = j

References == CountsExact /\ Identified /\ Mapping /\ DestroyOnce

\* A call to start or stop is made by a client that has not, or has.
Paired ==
  \A c \in Clients : pc[c] = "held" =>
    /\ call[c].op = "StartIO" => c \notin started
    /\ call[c].op = "StopIO" => c \in started

\* A device that is open and not taken down is its owner's.
OpenOwned ==
  hal \notin {"unloaded", "creating", "retired"} /\ device.status # JB_DRV_STATUS_INIT
    => Device \in owned

\* The last client's stop opens a device again that was taken down in between,
\* so the ticks are right also while some client has it running.
TicksSound ==
  device.status # JB_DRV_STATUS_INIT \/ device.startCount > 0 =>
    device.ticksRate = device.rate

IO == Paired /\ OpenOwned /\ HardwareFollowsClients /\ TicksSound

IInv == Types /\ Loaded /\ ListedOwned /\ Resting /\ Removal /\ References /\ IO

----------------------------------------------------------------------------
(****************************************************************************)
(* The object map: what its operations do to the references.                *)
(****************************************************************************)

\* The references to an object, where h says who holds what and w is owned.
HoldersOf(h, o) == {t \in Threads : h[t] = o}
Count(h, w, o) == Cardinality(HoldersOf(h, o)) + (IF o \in w THEN 1 ELSE 0)
Holdings == [Threads -> Objects \cup {NoObject}]

LEMMA ThreadsFinite == IsFiniteSet(Threads)
<1>1. IsFiniteSet(Clients \cup {HalThread})
  BY ClientsAreThreads, FS_AddElement
<1>2. IsFiniteSet((Clients \cup {HalThread}) \cup {QueueThread})
  BY <1>1, FS_AddElement
<1>3. Threads = (Clients \cup {HalThread}) \cup {QueueThread}
  BY DEF Threads
<1> QED
  BY <1>2, <1>3

LEMMA HoldersFinite ==
  ASSUME NEW h, NEW o
  PROVE  /\ IsFiniteSet(HoldersOf(h, o)) /\ Cardinality(HoldersOf(h, o)) \in Nat
         /\ Cardinality(HoldersOf(h, o)) = 0 <=> HoldersOf(h, o) = {}
BY ThreadsFinite, FS_Subset, FS_CardinalityType, FS_EmptySet DEF HoldersOf

LEMMA CountIsNat ==
  ASSUME NEW h, NEW w, NEW o
  PROVE  /\ Count(h, w, o) \in Nat
         /\ Count(h, w, o) = 0 <=> o \notin w /\ \A t \in Threads : h[t] # o
<1>1. Cardinality(HoldersOf(h, o)) \in Nat
  BY HoldersFinite
<1>2. Cardinality(HoldersOf(h, o)) = 0 <=> \A t \in Threads : h[t] # o
  BY HoldersFinite DEF HoldersOf
<1> QED
  BY <1>1, <1>2 DEF Count

\* A thread that takes hold of an object, and one that lets go of it.
LEMMA HoldersGrow ==
  ASSUME held \in Holdings, NEW t \in Threads, held[t] = NoObject, NEW o \in Objects,
         held' = [held EXCEPT ![t] = o], UNCHANGED owned, NEW p \in Objects
  PROVE  Count(held', owned', p)
           = IF p = o THEN Count(held, owned, p) + 1 ELSE Count(held, owned, p)
<1>1. CASE p = o
  <2>1. HoldersOf(held', p) = HoldersOf(held, p) \cup {t} /\ t \notin HoldersOf(held, p)
    BY <1>1, NullIsNoObject DEF HoldersOf, Holdings
  <2>2. Cardinality(HoldersOf(held', p)) = Cardinality(HoldersOf(held, p)) + 1
    BY <2>1, FS_AddElement, HoldersFinite
  <2> QED
    BY <1>1, <2>2, HoldersFinite DEF Count
<1>2. CASE p # o
  <2>1. HoldersOf(held', p) = HoldersOf(held, p)
    BY <1>2, NullIsNoObject DEF HoldersOf, Holdings
  <2> QED
    BY <1>2, <2>1 DEF Count
<1> QED
  BY <1>1, <1>2

LEMMA HoldersShrink ==
  ASSUME held \in Holdings, NEW t \in Threads, held[t] # NoObject,
         held' = [held EXCEPT ![t] = NoObject], UNCHANGED owned, NEW p \in Objects
  PROVE  Count(held', owned', p)
           = IF p = held[t] THEN Count(held, owned, p) - 1 ELSE Count(held, owned, p)
<1>1. CASE p = held[t]
  <2>1. HoldersOf(held', p) = HoldersOf(held, p) \ {t} /\ t \in HoldersOf(held, p)
    BY <1>1, NullIsNoObject DEF HoldersOf, Holdings
  <2>2. Cardinality(HoldersOf(held', p)) = Cardinality(HoldersOf(held, p)) - 1
    <3>1. Cardinality(HoldersOf(held, p) \ {t}) = Cardinality(HoldersOf(held, p)) - 1
      BY <2>1, FS_RemoveElement, HoldersFinite
    <3> QED
      BY <2>1, <3>1
  <2> QED
    BY <1>1, <2>2, HoldersFinite DEF Count
<1>2. CASE p # held[t]
  <2>1. HoldersOf(held', p) = HoldersOf(held, p)
    BY <1>2, NullIsNoObject DEF HoldersOf, Holdings
  <2> QED
    BY <1>2, <2>1 DEF Count
<1> QED
  BY <1>1, <1>2

LEMMA OwnersShrink ==
  ASSUME NEW h, NEW w, NEW o \in w, NEW p
  PROVE  Count(h, w \ {o}, p) = IF p = o THEN Count(h, w, p) - 1 ELSE Count(h, w, p)
BY HoldersFinite DEF Count

\* A changed count, and a changed set of IDs.
LEMMA ChangeRefs ==
  ASSUME NEW info \in [Objects -> Entries], NEW o \in Objects, NEW n \in Nat
  PROVE  LET new == [info EXCEPT ![o].refs = n] IN
         /\ new \in [Objects -> Entries]
         /\ new[o].refs = n /\ new[o].ids = info[o].ids
         /\ \A p \in Objects : p # o => new[p] = info[p]
BY DEF Entries

LEMMA ChangeIds ==
  ASSUME NEW info \in [Objects -> Entries], NEW o \in Objects, NEW ids \in SUBSET ObjectIDs
  PROVE  LET new == [info EXCEPT ![o].ids = ids] IN
         /\ new \in [Objects -> Entries]
         /\ new[o].refs = info[o].refs /\ new[o].ids = ids
         /\ \A p \in Objects : p # o => new[p] = info[p]
BY DEF Entries

LEMMA EntryCounts ==
  ASSUME NEW e, e.refs # 0
  PROVE  e # NoEntry
BY DEF NoEntry

\* The map as the queue and the destroyed objects go with it.
LEMMA DestroyOnceMore ==
  ASSUME TypeOK, DestroyOnce, NEW o \in Objects, objectInfo[o] # NoEntry,
         objectInfo' = [objectInfo EXCEPT ![o] = NoEntry],
         queue' = Append(queue, Destroy(o)), UNCHANGED deleted
  PROVE  DestroyOnce' /\ queue' \in Seq(Blocks)
<1>1. queue \in Seq(Blocks) /\ Destroy(o) \in Blocks
  BY DEF TypeOK, Blocks
<1>2. /\ queue' \in Seq(Blocks) /\ DOMAIN queue = 1 .. Len(queue)
      /\ Len(queue) \in Nat /\ DOMAIN queue' = 1 .. Len(queue) + 1
      /\ \A i \in DOMAIN queue : queue'[i] = queue[i]
      /\ queue'[Len(queue) + 1] = Destroy(o)
  BY <1>1, AppendProperties, LenProperties
<1>3. o \notin Doomed
  BY DEF DestroyOnce
<1>4. o \notin deleted /\ \A i \in DOMAIN queue : queue[i] # Destroy(o)
  BY <1>3 DEF Doomed
<1>5. Doomed' = Doomed \cup {o}
  <2>1. ASSUME NEW p \in Objects
        PROVE  (\E i \in DOMAIN queue' : queue'[i] = Destroy(p))
                 <=> p = o \/ \E i \in DOMAIN queue : queue[i] = Destroy(p)
    BY <1>2 DEF Destroy
  <2> QED
    BY <2>1 DEF Doomed
<1>6. \A p \in Objects : p # o => Destroy(p) # Destroy(o)
  BY DEF Destroy
<1> SUFFICES ASSUME NEW p \in Objects
             PROVE  /\ p \in Doomed' => objectInfo'[p] = NoEntry
                    /\ p \in deleted' => \A i \in DOMAIN queue' : queue'[i] # Destroy(p)
                    /\ \A i, j \in DOMAIN queue' :
                         queue'[i] = Destroy(p) /\ queue'[j] = Destroy(p) => i = j
  BY <1>2 DEF DestroyOnce
<1>7. p \in Doomed' => objectInfo'[p] = NoEntry
  BY <1>5 DEF DestroyOnce, TypeOK
<1>8. p \in deleted' => \A i \in DOMAIN queue' : queue'[i] # Destroy(p)
  BY <1>2, <1>4, <1>6 DEF DestroyOnce
<1>9. ASSUME NEW i \in DOMAIN queue', NEW j \in DOMAIN queue',
             queue'[i] = Destroy(p), queue'[j] = Destroy(p)
      PROVE  i = j
  BY <1>2, <1>4, <1>6, <1>9 DEF DestroyOnce
<1> QED
  BY <1>7, <1>8, <1>9

LEMMA DestroyOnceStill ==
  ASSUME DestroyOnce, UNCHANGED <<queue, deleted>>,
         \A o \in Objects : objectInfo[o] = NoEntry => objectInfo'[o] = NoEntry
  PROVE  DestroyOnce'
BY DEF DestroyOnce, Doomed

\* One reference to a mapped object, out of those that exist, is released.
LEMMA DropReference ==
  ASSUME TypeOK, References, NEW o \in Objects, objectInfo[o] # NoEntry,
         ReleaseObject(o), UNCHANGED deleted,
         owned' \subseteq owned, \A t \in Threads : held'[t] \in {held[t], NoObject},
         \A p \in Objects : Count(held', owned', p)
           = IF p = o THEN Count(held, owned, p) - 1 ELSE Count(held, owned, p)
  PROVE  /\ References'
         /\ objectInfo' \in [Objects -> Entries] /\ queue' \in Seq(Blocks)
         /\ queue' = queue \/ queue' = Append(queue, Destroy(o))
<1> USE DEF References
<1>1. objectInfo[o].refs = Count(held, owned, o) /\ objectInfo[o].refs \in Nat \ {0}
  BY DEF CountsExact, Count, Holders, HoldersOf, Identified, TypeOK, Entries
<1>2. CASE objectInfo[o].refs = 1
  <2>1. objectInfo' = [objectInfo EXCEPT ![o] = NoEntry] /\ queue' = Append(queue, Destroy(o))
    BY <1>2 DEF ReleaseObject
  <2>2. DestroyOnce' /\ queue' \in Seq(Blocks)
    BY <2>1, DestroyOnceMore
  <2>3. Count(held', owned', o) = 0
    <3>1. Count(held, owned, o) = 1
      BY <1>1, <1>2
    <3>2. Count(held', owned', o) = Count(held, owned, o) - 1
      OBVIOUS
    <3> QED
      BY <3>1, <3>2
  <2>4. (\A t \in Threads : held'[t] # o) /\ o \notin owned'
    BY <2>3, CountIsNat
  <2>5. objectInfo' \in [Objects -> Entries]
    BY <2>1 DEF TypeOK, Entries, NoEntry
  <2>6. CountsExact'
    BY <2>1 DEF CountsExact, Count, Holders, HoldersOf, TypeOK
  <2>7. Identified'
    BY <2>1 DEF Identified, TypeOK, NoEntry
  <2>8. Mapping'
    <3>1. ASSUME NEW t \in Threads, held'[t] # NoObject
          PROVE  objectInfo'[held'[t]] # NoEntry
      <4>1. held'[t] = held[t] /\ held[t] # o
        BY <2>4, <3>1
      <4> QED
        BY <2>1, <3>1, <4>1 DEF Mapping, TypeOK
    <3>2. \A p \in owned' : objectInfo'[p] # NoEntry
      BY <2>1, <2>4 DEF Mapping, TypeOK
    <3> QED
      BY <3>1, <3>2 DEF Mapping
  <2> QED
    BY <2>1, <2>2, <2>5, <2>6, <2>7, <2>8
<1>3. CASE objectInfo[o].refs # 1
  <2>1. /\ objectInfo' = [objectInfo EXCEPT ![o].refs = objectInfo[o].refs - 1]
        /\ queue' = queue
    BY <1>3 DEF ReleaseObject
  <2>2. objectInfo[o].refs - 1 \in Nat \ {0} /\ objectInfo \in [Objects -> Entries]
    BY <1>1, <1>3 DEF TypeOK
  <2>3. /\ objectInfo' \in [Objects -> Entries]
        /\ objectInfo'[o].refs = objectInfo[o].refs - 1
        /\ objectInfo'[o].ids = objectInfo[o].ids
        /\ \A p \in Objects : p # o => objectInfo'[p] = objectInfo[p]
    BY <2>1, <2>2, ChangeRefs
  <2>4. objectInfo'[o] # NoEntry
    BY <2>2, <2>3, EntryCounts
  <2>5. CountsExact'
    BY <1>1, <2>3 DEF CountsExact, Count, Holders, HoldersOf
  <2>6. Identified'
    <3>1. ASSUME NEW p \in Objects
          PROVE  /\ objectInfo'[p].ids = objectInfo[p].ids
                 /\ objectInfo'[p].refs > 0 <=> objectInfo[p].refs > 0
                 /\ objectInfo'[p] # NoEntry <=> objectInfo[p] # NoEntry
      BY <1>1, <2>2, <2>3, <2>4
    <3> QED
      BY <3>1 DEF Identified
  <2>7. Mapping'
    <3>1. \A p \in Objects : objectInfo[p] # NoEntry => objectInfo'[p] # NoEntry
      BY <2>3, <2>4
    <3> QED
      BY <3>1 DEF Mapping, TypeOK
  <2>8. DestroyOnce'
    BY <2>1, <2>3, DestroyOnceStill
  <2> QED
    BY <2>1, <2>3, <2>5, <2>6, <2>7, <2>8 DEF TypeOK
<1> QED
  BY <1>2, <1>3

\* What a look-up by thread t does to the map.
MapSound == CountsExact /\ Identified /\ Mapping

LEMMA LookUp ==
  ASSUME TypeOK, MapSound, NEW t \in Threads, held[t] = NoObject, NEW id,
         CopyObjectByObjectID(t, id), UNCHANGED owned
  PROVE  /\ MapSound' /\ objectInfo' \in [Objects -> Entries] /\ held' \in Holdings
         /\ \A o \in Objects : objectInfo'[o] = NoEntry <=> objectInfo[o] = NoEntry
         /\ \A s \in Threads : s # t => held'[s] = held[s]
         /\ Mapped(id) = {} => held' = held
         /\ Mapped(id) # {} => held'[t] \in Mapped(id)
<1>1. CASE Mapped(id) = {}
  <2>1. UNCHANGED <<objectInfo, held>>
    BY <1>1 DEF CopyObjectByObjectID
  <2> QED
    BY <1>1, <2>1 DEF MapSound, CountsExact, Holders, Identified, Mapping, TypeOK, Holdings
<1>2. CASE Mapped(id) # {}
  <2>1. PICK o \in Mapped(id) :
          /\ objectInfo' = [objectInfo EXCEPT ![o].refs = objectInfo[o].refs + 1]
          /\ held' = [held EXCEPT ![t] = o]
    BY <1>2 DEF CopyObjectByObjectID
  <2>2. o \in Objects /\ objectInfo[o].ids # {} /\ objectInfo \in [Objects -> Entries]
    BY DEF Mapped, TypeOK
  <2>3. objectInfo[o] # NoEntry
    BY <2>2 DEF NoEntry
  <2>4. objectInfo[o].refs \in Nat \ {0}
    BY <2>2, <2>3 DEF MapSound, Identified, Entries
  <2>5. /\ objectInfo' \in [Objects -> Entries]
        /\ objectInfo'[o].refs = objectInfo[o].refs + 1
        /\ objectInfo'[o].ids = objectInfo[o].ids
        /\ \A p \in Objects : p # o => objectInfo'[p] = objectInfo[p]
    <3>1. objectInfo[o].refs + 1 \in Nat
      BY <2>4
    <3> QED
      BY <2>1, <2>2, <3>1, ChangeRefs
  <2>6. objectInfo'[o] # NoEntry
    BY <2>4, <2>5, EntryCounts
  <2>7. held \in Holdings /\ held' \in Holdings
    BY <2>1, <2>2 DEF TypeOK, Holdings
  <2>8. \A p \in Objects : Count(held', owned', p)
          = IF p = o THEN Count(held, owned, p) + 1 ELSE Count(held, owned, p)
    BY <2>1, <2>2, <2>7, HoldersGrow
  <2>9. CountsExact'
    <3>1. \A p \in Objects : objectInfo[p] # NoEntry => objectInfo[p].refs = Count(held, owned, p)
      BY DEF MapSound, CountsExact, Count, Holders, HoldersOf
    <3>2. \A p \in Objects :
            objectInfo'[p] # NoEntry => objectInfo'[p].refs = Count(held', owned', p)
      BY <2>3, <2>5, <2>8, <3>1
    <3> QED
      BY <3>2 DEF CountsExact, Count, Holders, HoldersOf
  <2>10. Identified'
    <3>1. \A p \in Objects : /\ objectInfo'[p].ids = objectInfo[p].ids
                             /\ objectInfo'[p] # NoEntry <=> objectInfo[p] # NoEntry
                             /\ p # o => objectInfo'[p].refs = objectInfo[p].refs
      BY <2>3, <2>5, <2>6
    <3> QED
      BY <2>4, <2>5, <3>1 DEF Identified, MapSound
  <2>11. Mapping'
    BY <2>1, <2>2, <2>3, <2>5, <2>6 DEF Mapping, MapSound, TypeOK
  <2> QED
    BY <1>2, <2>1, <2>3, <2>5, <2>6, <2>7, <2>9, <2>10, <2>11 DEF MapSound, Holdings
<1> QED
  BY <1>1, <1>2

\* What thread t's letting go does.
LEMMA LettingGo ==
  ASSUME TypeOK, References, NEW t \in Threads, LetGo(t), UNCHANGED <<owned, deleted>>
  PROVE  /\ References'
         /\ objectInfo' \in [Objects -> Entries] /\ queue' \in Seq(Blocks)
         /\ held' \in Holdings /\ held' = [held EXCEPT ![t] = NoObject]
         /\ queue' = queue \/ \E o \in Objects : queue' = Append(queue, Destroy(o))
<1>1. held' = [held EXCEPT ![t] = NoObject] /\ held \in Holdings /\ held' \in Holdings
  BY DEF LetGo, TypeOK, Holdings
<1>2. CASE held[t] = NoObject
  <2>1. UNCHANGED <<objectInfo, queue, held, owned, deleted>>
    BY <1>1, <1>2 DEF LetGo, TypeOK
  <2> QED
    BY <1>1, <2>1 DEF TypeOK, References, CountsExact, Holders, Identified, Mapping,
                      DestroyOnce, Doomed
<1>3. CASE held[t] # NoObject
  <2>1. held[t] \in Objects /\ objectInfo[held[t]] # NoEntry /\ ReleaseObject(held[t])
    BY <1>3 DEF LetGo, TypeOK, References, Mapping
  <2>2. \A p \in Objects : Count(held', owned', p)
          = IF p = held[t] THEN Count(held, owned, p) - 1 ELSE Count(held, owned, p)
    BY <1>1, <1>3, HoldersShrink
  <2>3. \A s \in Threads : held'[s] \in {held[s], NoObject}
    BY <1>1 DEF Holdings
  <2> QED
    BY <1>1, <2>1, <2>2, <2>3, DropReference
<1> QED
  BY <1>2, <1>3

----------------------------------------------------------------------------
(****************************************************************************)
(* The queue: blocks come at its end and go at its head.                    *)
(****************************************************************************)

LEMMA QueueGrows ==
  ASSUME queue \in Seq(Blocks), NEW b \in Blocks, queue' = Append(queue, b)
  PROVE  /\ queue' \in Seq(Blocks) /\ Len(queue) \in Nat
         /\ DOMAIN queue = 1 .. Len(queue) /\ DOMAIN queue' = 1 .. Len(queue) + 1
         /\ \A i \in DOMAIN queue : queue'[i] = queue[i]
         /\ queue'[Len(queue) + 1] = b
BY AppendProperties, LenProperties

LEMMA QueueShrinks ==
  ASSUME queue \in Seq(Blocks), queue # <<>>, queue' = Tail(queue)
  PROVE  /\ queue' \in Seq(Blocks) /\ Len(queue) \in Nat \ {0}
         /\ DOMAIN queue = 1 .. Len(queue) /\ DOMAIN queue' = 1 .. Len(queue) - 1
         /\ \A i \in DOMAIN queue' : i + 1 \in DOMAIN queue /\ queue'[i] = queue[i + 1]
         /\ 1 \in DOMAIN queue /\ Head(queue) = queue[1] /\ Head(queue) \in Blocks
<1>1. /\ Head(queue) \in Blocks /\ Tail(queue) \in Seq(Blocks)
      /\ Len(Tail(queue)) = Len(queue) - 1
      /\ \A i \in 1 .. Len(Tail(queue)) : Tail(queue)[i] = queue[i + 1]
  BY HeadTailProperties
<1>2. Len(queue) \in Nat \ {0} /\ DOMAIN queue = 1 .. Len(queue)
  BY EmptySeq, LenProperties
<1>3. DOMAIN queue' = 1 .. Len(queue) - 1
  BY <1>1, LenProperties
<1>4. Head(queue) = queue[1]
  OBVIOUS
<1> QED
  BY <1>1, <1>2, <1>3, <1>4

\* Other blocks than those that destroy come and go.
LEMMA DestroyOnceGrows ==
  ASSUME queue \in Seq(Blocks), DestroyOnce, UNCHANGED <<objectInfo, deleted>>,
         NEW b \in Blocks, b.do # "destroy", queue' = Append(queue, b)
  PROVE  DestroyOnce'
<1>1. \A o \in Objects : b # Destroy(o)
  BY DEF Destroy
<1>2. \A o \in Objects : o \in Doomed' <=> o \in Doomed
  BY <1>1, QueueGrows DEF Doomed
<1>3. ASSUME NEW o \in Objects, NEW i \in DOMAIN queue', queue'[i] = Destroy(o)
      PROVE  i \in DOMAIN queue /\ queue[i] = Destroy(o)
  BY <1>1, <1>3, QueueGrows
<1> QED
  BY <1>2, <1>3 DEF DestroyOnce

LEMMA DestroyOnceShrinks ==
  ASSUME queue \in Seq(Blocks), queue # <<>>, DestroyOnce, queue' = Tail(queue),
         \A o \in Objects : objectInfo[o] = NoEntry => objectInfo'[o] = NoEntry,
         \/ UNCHANGED deleted
         \/ Head(queue).do = "destroy" /\ deleted' = deleted \cup {Head(queue).arg}
  PROVE  DestroyOnce'
<1>1. ASSUME NEW i \in DOMAIN queue'
      PROVE  i + 1 \in DOMAIN queue /\ queue'[i] = queue[i + 1] /\ i \in Nat /\ i + 1 # 1
  BY QueueShrinks
<1>2. ASSUME NEW o \in Objects, o \in deleted' \ deleted
      PROVE  queue[1] = Destroy(o) /\ 1 \in DOMAIN queue
  <2>1. /\ Head(queue).do = "destroy" /\ Head(queue).arg = o
        /\ 1 \in DOMAIN queue /\ Head(queue) = queue[1] /\ Head(queue) \in Blocks
    BY <1>2, QueueShrinks
  <2> QED
    BY <2>1 DEF Blocks, Destroy, Request, Remove
<1>3. ASSUME NEW o \in Objects, o \in Doomed'
      PROVE  o \in Doomed
  BY <1>1, <1>2, <1>3 DEF Doomed
<1>4. ASSUME NEW o \in Objects, o \in deleted', NEW i \in DOMAIN queue'
      PROVE  queue'[i] # Destroy(o)
  BY <1>1, <1>2, <1>4 DEF DestroyOnce
<1>5. ASSUME NEW o \in Objects, NEW i \in DOMAIN queue', NEW j \in DOMAIN queue',
             queue'[i] = Destroy(o), queue'[j] = Destroy(o)
      PROVE  i = j
  <2>1. i + 1 = j + 1
    BY <1>1, <1>5 DEF DestroyOnce
  <2> QED
    BY <1>1, <2>1
<1> QED
  BY <1>3, <1>4, <1>5 DEF DestroyOnce

\* The removal of the device, while other blocks come and go.
LEMMA RemovalGrows ==
  ASSUME TypeOK, Removal, UNCHANGED <<hal, worker>>,
         held'[QueueThread] = held[QueueThread],
         \/ UNCHANGED queue
         \/ \E b \in Blocks : b.do # "remove" /\ queue' = Append(queue, b),
         Device \in owned => Device \in owned'
  PROVE  Removal'
<1>1. \A i \in Removes' : i \in Removes /\ queue'[i] = queue[i]
  <2>1. CASE UNCHANGED queue
    BY <2>1 DEF Removes
  <2>2. ASSUME NEW b \in Blocks, b.do # "remove", queue' = Append(queue, b)
        PROVE  \A i \in Removes' : i \in Removes /\ queue'[i] = queue[i]
    BY <2>2, QueueGrows DEF Removes, TypeOK
  <2> QED
    BY <2>1, <2>2
<1> QED
  BY <1>1 DEF Removal

LEMMA RemovalShrinks ==
  ASSUME TypeOK, Removal, UNCHANGED <<hal, worker, held, owned>>,
         queue # <<>>, queue' = Tail(queue)
  PROVE  Removal'
<1>1. \A i \in Removes' : i \in Nat /\ i + 1 \in Removes /\ queue'[i] = queue[i + 1]
  BY QueueShrinks DEF Removes, TypeOK
<1>2. \A i, j \in Removes' : i = j
  BY <1>1 DEF Removal
<1> QED
  BY <1>1, <1>2 DEF Removal

----------------------------------------------------------------------------
(****************************************************************************)
(* The steps of a client.                                                   *)
(****************************************************************************)

\* What is set is a rate, or a stream's being active.
LEMMA CallsSet ==
  ASSUME NEW k \in Calls, k.op = "SetPropertyData"
  PROVE  /\ k.sel = "IsActive" => k.value \in BOOLEAN
         /\ k.sel # "IsActive" => k.value \in SupportedRates
<1>1. k \in SA_SetPropertyData
  BY DEF Calls, SA_HasProperty, SA_IsPropertySettable, SA_GetPropertyDataSize,
         SA_GetPropertyData, SA_StartIO, SA_StopIO, SA_GetZeroTimeStamp,
         SA_WillDoIOOperation, SA_BeginIOOperation, SA_DoIOOperation, SA_EndIOOperation,
         Asks, OnDevice, OnOperations
<1>2. PICK q \in Settings :
        k \in {[op |-> "SetPropertyData", id |-> q.id, sel |-> q.sel, scope |-> q.scope,
                value |-> v, proper |-> b] : v \in ValuesOf(q.sel), b \in BOOLEAN}
  BY <1>1 DEF SA_SetPropertyData
<1>3. k.value \in ValuesOf(k.sel)
  BY <1>2
<1> QED
  BY <1>3 DEF ValuesOf

LEMMA NoneIsNoCall == \A k \in Calls : k.op # "none"
BY DEF Calls, SA_HasProperty, SA_IsPropertySettable, SA_GetPropertyDataSize,
       SA_GetPropertyData, SA_StartIO, SA_StopIO, SA_GetZeroTimeStamp, SA_SetPropertyData,
       SA_WillDoIOOperation, SA_BeginIOOperation, SA_DoIOOperation, SA_EndIOOperation,
       Asks, OnDevice, OnOperations

LEMMA ReferencesStay ==
  ASSUME References, UNCHANGED mapVars
  PROVE  References'
BY DEF References, mapVars, CountsExact, Holders, Identified, Mapping, DestroyOnce, Doomed

\* A client whose call is answered: whatever the answer does to the device,
\* the rest of the invariant stands.
LEMMA Answered ==
  ASSUME IInv, NEW c \in Clients, pc[c] \in {"held", "compare"}, NEW r, Answers(c, r),
         UNCHANGED <<hal, requests, changing, mapVars, worker, deviceList, stateMutex, ioMutex>>,
         DeviceType', started' \in SUBSET Clients,
         \A d \in Clients : d # c => (d \in started' <=> d \in started),
         OpenOwned', HardwareFollowsClients', TicksSound'
  PROVE  IInv'
<1> USE DEF IInv
<1>1. /\ pc' = [pc EXCEPT ![c] = "done"] /\ call' = call
      /\ UNCHANGED <<objectInfo, deleted, queue, held, owned>>
      /\ hal \notin {"unloaded", "creating", "created"}
  BY DEF Answers, mapVars, Loaded
<1>2. Types'
  BY <1>1 DEF Types, TypeOK, CallType, Comparing, DeviceType, DeviceStates
<1>3. Loaded' /\ ListedOwned'
  BY <1>1 DEF Loaded, ListedOwned
<1>4. Resting'
  BY <1>1 DEF Resting, Types, TypeOK
<1>5. Removal'
  BY <1>1, RemovalGrows DEF Types
<1>6. References'
  BY ReferencesStay
<1>7. Paired'
  BY <1>1 DEF Paired, IO, Types, TypeOK
<1> QED
  BY <1>2, <1>3, <1>4, <1>5, <1>6, <1>7 DEF IO

LEMMA AskKeeps ==
  ASSUME IInv, NEW c \in Clients, Ask(c) \/ SetRefused(c) \/ DoIO(c)
  PROVE  IInv'
<1>1. pc[c] = "held" /\ UNCHANGED <<hostVars, mapVars, worker, deviceVars>>
  BY DEF Ask, SetRefused, DoIO, Enter
<1>2. PICK r : Answers(c, r)
  BY DEF Ask, SetRefused, DoIO
<1>3. DeviceType' /\ started' \in SUBSET Clients /\ OpenOwned'
        /\ HardwareFollowsClients' /\ TicksSound'
  BY <1>1 DEF IInv, Types, TypeOK, DeviceType, IO, OpenOwned, HardwareFollowsClients,
              TicksSound, hostVars, mapVars, deviceVars
<1> QED
  BY <1>1, <1>2, <1>3, Answered DEF hostVars, deviceVars

LEMMA SetActiveKeeps ==
  ASSUME IInv, NEW c \in Clients, SetActive(c)
  PROVE  IInv'
<1>1. pc[c] = "held" /\ Answers(c, Ok)
        /\ UNCHANGED <<hostVars, mapVars, worker, deviceList, stateMutex, ioMutex>>
  BY DEF SetActive, Enter
<1>2. PICK side \in {"Input", "Output"} :
        device' = [device EXCEPT !.active[side] = call[c].value]
  BY DEF SetActive
<1>3. call[c].value \in BOOLEAN
  BY CallsSet DEF SetActive, IInv, Types, CallType
<1>4. DeviceType'
  BY <1>2, <1>3 DEF IInv, Types, DeviceType, DeviceStates
<1>5. /\ device'.startCount = device.startCount /\ device'.status = device.status
      /\ device'.shmStatus = device.shmStatus /\ device'.rate = device.rate
      /\ device'.ticksRate = device.ticksRate
  BY <1>2 DEF IInv, Types, DeviceType, DeviceStates
<1>6. started' \in SUBSET Clients /\ OpenOwned' /\ HardwareFollowsClients' /\ TicksSound'
  BY <1>1, <1>5 DEF IInv, Types, TypeOK, IO, OpenOwned, HardwareFollowsClients,
                    TicksSound, hostVars, mapVars
<1> QED
  BY <1>1, <1>4, <1>6, Answered DEF hostVars

LEMMA ReadRateKeeps ==
  ASSUME IInv, NEW c \in Clients, ReadRate(c)
  PROVE  IInv'
<1> USE DEF IInv
<1>1. /\ pc[c] = "held" /\ call[c].op = "SetPropertyData" /\ call[c].sel # "IsActive"
      /\ pc' = [pc EXCEPT ![c] = "compare"]
      /\ UNCHANGED <<hal, requests, changing, started, objectInfo, deleted, queue, held, owned,
                     worker, deviceList, stateMutex, ioMutex, device, call>>
  BY DEF ReadRate, Enter, hostVars, mapVars, deviceVars
<1>2. hal \notin {"unloaded", "creating", "created"}
  BY <1>1 DEF Loaded
<1>3. Types'
  BY <1>1 DEF Types, TypeOK, CallType, Comparing, DeviceType
<1>4. Loaded' /\ ListedOwned'
  BY <1>1, <1>2 DEF Loaded, ListedOwned
<1>5. Resting'
  BY <1>1 DEF Resting, Types, TypeOK
<1>6. Removal'
  BY <1>1, RemovalGrows DEF Types
<1>7. References'
  BY <1>1, ReferencesStay DEF mapVars
<1>8. IO'
  BY <1>1 DEF IO, Paired, Types, TypeOK, OpenOwned, HardwareFollowsClients, TicksSound
<1> QED
  BY <1>3, <1>4, <1>5, <1>6, <1>7, <1>8

LEMMA RequestRateKeeps ==
  ASSUME IInv, NEW c \in Clients, RequestRate(c)
  PROVE  IInv'
<1> USE DEF IInv
<1>1. /\ pc[c] = "compare" /\ pc' = [pc EXCEPT ![c] = "done"]
      /\ UNCHANGED <<hal, requests, changing, started, objectInfo, deleted, held, owned,
                     worker, deviceList, stateMutex, ioMutex, device, call>>
  BY DEF RequestRate, Answers, hostVars, deviceVars
<1>2. call[c].value \in SupportedRates
  BY <1>1, CallsSet, NoneIsNoCall DEF Types, CallType, Comparing
<1>3. \/ UNCHANGED queue
      \/ \E b \in Blocks : b.do = "request" /\ queue' = Append(queue, b)
  BY <1>2 DEF RequestRate, Blocks, Request
<1>4. queue' \in Seq(Blocks)
  BY <1>3, QueueGrows DEF Types, TypeOK
<1>5. Types'
  BY <1>1, <1>4 DEF Types, TypeOK, CallType, Comparing, DeviceType
<1>6. hal \notin {"unloaded", "creating", "created"}
  BY <1>1 DEF Loaded
<1>7. Loaded' /\ ListedOwned'
  BY <1>1, <1>6 DEF Loaded, ListedOwned
<1>8. Resting'
  BY <1>1 DEF Resting, Types, TypeOK
<1>9. Removal'
  BY <1>1, <1>3, RemovalGrows DEF Types
<1>10. References'
  <2>1. CASE UNCHANGED queue
    BY <1>1, <2>1, ReferencesStay DEF mapVars
  <2>2. CASE \E b \in Blocks : b.do = "request" /\ queue' = Append(queue, b)
    <3>1. DestroyOnce'
      BY <1>1, <2>2, DestroyOnceGrows DEF References, Types, TypeOK
    <3> QED
      BY <1>1, <3>1 DEF References, CountsExact, Holders, Identified, Mapping
  <2> QED
    BY <1>3, <2>1, <2>2
<1>11. IO'
  BY <1>1 DEF IO, Paired, Types, TypeOK, OpenOwned, HardwareFollowsClients, TicksSound
<1> QED
  BY <1>5, <1>7, <1>8, <1>9, <1>10, <1>11

LEMMA StartedFinite ==
  ASSUME TypeOK
  PROVE  /\ IsFiniteSet(started) /\ Cardinality(started) \in Nat
         /\ Cardinality(started) = 0 <=> started = {}
BY ClientsAreThreads, FS_Subset, FS_CardinalityType, FS_EmptySet DEF TypeOK

\* The hardware is started or stopped, in a new count of clients.
LEMMA NewCount ==
  ASSUME DeviceType, NEW n \in Nat, NEW s \in Statuses, NEW u \in Statuses,
         device' = [device EXCEPT !.startCount = n, !.status = s, !.shmStatus = u]
  PROVE  /\ DeviceType'
         /\ device'.startCount = n /\ device'.status = s /\ device'.shmStatus = u
         /\ device'.rate = device.rate /\ device'.ticksRate = device.ticksRate
BY DEF DeviceType, DeviceStates

LEMMA StartIOKeeps ==
  ASSUME IInv, NEW c \in Clients, StartIO(c)
  PROVE  IInv'
<1> USE DEF IInv
<1>1. /\ pc[c] = "held" /\ call[c].op = "StartIO"
      /\ UNCHANGED <<hal, requests, changing, mapVars, worker, deviceList, stateMutex, ioMutex>>
  BY DEF StartIO, Enter
<1>2. c \notin started
  BY <1>1 DEF IO, Paired
<1>3. CASE Answers(c, Error("NotRunning")) /\ UNCHANGED <<device, started>>
  <2>1. DeviceType' /\ started' \in SUBSET Clients /\ OpenOwned'
          /\ HardwareFollowsClients' /\ TicksSound'
    BY <1>1, <1>3 DEF Types, TypeOK, DeviceType, IO, OpenOwned, HardwareFollowsClients,
                      TicksSound, mapVars
  <2> QED
    BY <1>1, <1>3, <2>1, Answered
<1>4. CASE /\ ~(device.startCount = 0 /\ device.status = JB_DRV_STATUS_INIT)
           /\ device' = [device EXCEPT !.startCount = device.startCount + 1,
                !.status = IF device.startCount = 0 THEN JB_DRV_STATUS_STARTED ELSE device.status,
                !.shmStatus =
                  IF device.startCount = 0 THEN JB_DRV_STATUS_STARTED ELSE device.shmStatus]
           /\ started' = started \cup {c}
           /\ Answers(c, Ok)
  <2> DEFINE status == IF device.startCount = 0 THEN JB_DRV_STATUS_STARTED ELSE device.status
             shmStatus ==
               IF device.startCount = 0 THEN JB_DRV_STATUS_STARTED ELSE device.shmStatus
  <2>1. device.startCount \in Nat /\ DeviceType
    BY DEF Types, DeviceType, DeviceStates
  <2>2. device.startCount + 1 \in Nat /\ status \in Statuses /\ shmStatus \in Statuses
    BY <2>1 DEF DeviceType, DeviceStates, Statuses
  <2>3. /\ DeviceType' /\ device'.startCount = device.startCount + 1
        /\ device'.status = status /\ device'.shmStatus = shmStatus
        /\ device'.rate = device.rate /\ device'.ticksRate = device.ticksRate
    BY <1>4, <2>1, <2>2, NewCount
  <2>4. DeviceType' /\ started' \in SUBSET Clients
    BY <1>4, <2>3 DEF Types, TypeOK
  <2>5. Cardinality(started') = Cardinality(started) + 1
    BY <1>2, <1>4, StartedFinite, FS_AddElement DEF Types
  <2>6. HardwareFollowsClients'
    BY <1>1, <1>4, <2>3, <2>1, <2>5, StartedFinite DEF HardwareFollowsClients, IO, Types
  <2>7. TicksSound'
    BY <1>4, <2>3, <2>1 DEF TicksSound, IO
  <2>8. OpenOwned'
    BY <1>1, <1>4, <2>3, <2>1 DEF OpenOwned, IO, mapVars
  <2> QED
    BY <1>1, <1>4, <2>4, <2>6, <2>7, <2>8, Answered
<1> QED
  BY <1>3, <1>4 DEF StartIO

LEMMA StopIOKeeps ==
  ASSUME IInv, NEW c \in Clients, StopIO(c)
  PROVE  IInv'
<1> USE DEF IInv
<1>1. /\ pc[c] = "held" /\ call[c].op = "StopIO" /\ started' = started \ {c} /\ Answers(c, Ok)
      /\ UNCHANGED <<hal, requests, changing, mapVars, worker, deviceList, stateMutex, ioMutex>>
      /\ device' = [device EXCEPT
           !.startCount = IF device.startCount = 0 THEN 0 ELSE device.startCount - 1,
           !.status = IF device.startCount = 1 THEN JB_DRV_STATUS_ACTIVE ELSE device.status,
           !.shmStatus = IF device.startCount = 1 THEN JB_DRV_STATUS_ACTIVE ELSE device.shmStatus]
  BY DEF StopIO, Enter
<1>2. c \in started
  BY <1>1 DEF IO, Paired
<1> DEFINE count == IF device.startCount = 0 THEN 0 ELSE device.startCount - 1
           status == IF device.startCount = 1 THEN JB_DRV_STATUS_ACTIVE ELSE device.status
           shmStatus == IF device.startCount = 1 THEN JB_DRV_STATUS_ACTIVE ELSE device.shmStatus
<1>3. device.startCount \in Nat /\ DeviceType
  BY DEF Types, DeviceType, DeviceStates
<1>4. count \in Nat /\ status \in Statuses /\ shmStatus \in Statuses
  BY <1>3 DEF DeviceType, DeviceStates, Statuses
<1>5. /\ DeviceType' /\ device'.startCount = count
      /\ device'.status = status /\ device'.shmStatus = shmStatus
      /\ device'.rate = device.rate /\ device'.ticksRate = device.ticksRate
  <2>1. device' = [device EXCEPT !.startCount = count, !.status = status,
                                 !.shmStatus = shmStatus]
    BY <1>1
  <2> HIDE DEF count, status, shmStatus
  <2> QED
    BY <2>1, <1>3, <1>4, NewCount
<1>6. DeviceType' /\ started' \in SUBSET Clients
  BY <1>1, <1>5 DEF Types, TypeOK
<1>7. Cardinality(started') = Cardinality(started) - 1
  BY <1>1, <1>2, StartedFinite, FS_RemoveElement DEF Types
<1>8. Cardinality(started') = 0 <=> started' = {}
  BY <1>6, ClientsAreThreads, FS_Subset, FS_EmptySet
<1>9. HardwareFollowsClients'
  BY <1>1, <1>2, <1>5, <1>3, <1>7, <1>8, StartedFinite
  DEF HardwareFollowsClients, IO, Types, JB_DRV_STATUS_ACTIVE, JB_DRV_STATUS_STARTED
<1>10. TicksSound'
  BY <1>5, <1>3 DEF TicksSound, IO
<1>11. OpenOwned'
  <2>1. hal # "retired" /\ device.startCount = 1 => device.status # JB_DRV_STATUS_INIT
    BY <1>2 DEF IO, HardwareFollowsClients, JB_DRV_STATUS_INIT, JB_DRV_STATUS_STARTED
  <2> QED
    BY <1>1, <1>5, <2>1 DEF OpenOwned, IO, mapVars
<1> QED
  BY <1>1, <1>6, <1>9, <1>10, <1>11, Answered

\* While IO is started and the plug-in in place, the device is found.
LEMMA StopFindsDevice ==
  ASSUME IInv, hal = "ready", started # {}
  PROVE  Mapped(mObjectID) # {}
<1> USE DEF IInv
<1>1. device.status = JB_DRV_STATUS_STARTED
  BY DEF IO, HardwareFollowsClients
<1>2. Device \in owned
  BY <1>1 DEF IO, OpenOwned, JB_DRV_STATUS_STARTED, JB_DRV_STATUS_INIT
<1>3. mObjectID \in objectInfo[Device].ids
  BY <1>2 DEF References, Mapping, Identified, OwnName, Objects, Device, PlugIn
<1> QED
  BY <1>3 DEF Mapped, Objects

LEMMA BeginKeeps ==
  ASSUME IInv, NEW c \in Clients, NEW k \in Calls, Begin(c, k)
  PROVE  IInv'
<1> USE DEF IInv
<1>1. /\ pc[c] = "idle" /\ hal \in {"ready", "retired"} /\ Sensible(c, k)
      /\ call' = [call EXCEPT ![c] = k]
      /\ CopyObjectByObjectID(c, k.id)
      /\ UNCHANGED <<hal, requests, changing, deleted, queue, owned, worker,
                     deviceList, stateMutex, ioMutex, device>>
  BY DEF Begin, deviceVars
<1>2. c \in Threads /\ held[c] = NoObject /\ c # HalThread /\ c # QueueThread
  BY <1>1, ClientsAreThreads DEF Threads, Resting
<1>3. \/ /\ Mapped(k.id) = {} /\ pc' = [pc EXCEPT ![c] = "done"]
         /\ started' = IF k.op = "StopIO" THEN started \ {c} ELSE started
      \/ pc' = [pc EXCEPT ![c] = "held"] /\ UNCHANGED started
  BY DEF Begin
<1>4. /\ MapSound' /\ objectInfo' \in [Objects -> Entries] /\ held' \in Holdings
      /\ \A o \in Objects : objectInfo'[o] = NoEntry <=> objectInfo[o] = NoEntry
      /\ \A s \in Threads : s # c => held'[s] = held[s]
  BY <1>1, <1>2, LookUp DEF References, MapSound, Types
<1>5. started' \in SUBSET Clients /\ \A d \in Clients : d # c => (d \in started' <=> d \in started)
  BY <1>3 DEF Types, TypeOK
<1>6. pc' \in [Clients -> {"idle", "held", "compare", "done"}] /\ pc'[c] \in {"held", "done"}
        /\ \A d \in Clients : d # c => pc'[d] = pc[d] /\ call'[d] = call[d]
  BY <1>1, <1>3 DEF Types, TypeOK, CallType
<1>7. CallType'
  BY <1>1 DEF Types, CallType
<1>8. Types'
  BY <1>1, <1>4, <1>5, <1>6, <1>7 DEF Types, TypeOK, DeviceType, Comparing, Holdings
<1>9. Loaded' /\ ListedOwned'
  BY <1>1 DEF Loaded, ListedOwned
<1>10. Resting'
  BY <1>1, <1>2, <1>4, <1>6 DEF Resting, Threads
<1>11. Removal'
  BY <1>1, <1>2, <1>4, RemovalGrows DEF Types, Threads
<1>12. References'
  BY <1>1, <1>4, DestroyOnceStill DEF References, MapSound
<1>13. Paired'
  <2>1. k.op = "StartIO" => c \notin started
    BY <1>1 DEF Sensible
  <2>2. k.op = "StopIO" => c \in started
    BY <1>1 DEF Sensible
  <2>3. pc'[c] = "held" => UNCHANGED started /\ call'[c] = k
    BY <1>1, <1>3 DEF Types, TypeOK, CallType
  <2> QED
    BY <1>5, <1>6, <2>1, <2>2, <2>3 DEF IO, Paired
<1>14. OpenOwned' /\ TicksSound'
  BY <1>1 DEF IO, OpenOwned, TicksSound
<1>15. HardwareFollowsClients'
  <2>1. CASE UNCHANGED started
    BY <1>1, <2>1 DEF IO, HardwareFollowsClients
  <2>2. CASE Mapped(k.id) = {} /\ k.op = "StopIO"
    <3>1. c \in started
      BY <1>1, <2>2 DEF Sensible
    <3>2. k.id = mObjectID
      BY <2>2 DEF Calls, SA_HasProperty, SA_IsPropertySettable, SA_GetPropertyDataSize,
         SA_GetPropertyData, SA_StartIO, SA_StopIO, SA_GetZeroTimeStamp, SA_SetPropertyData,
         SA_WillDoIOOperation, SA_BeginIOOperation, SA_DoIOOperation, SA_EndIOOperation,
         Asks, OnDevice, OnOperations
    <3>3. hal = "retired"
      BY <1>1, <2>2, <3>1, <3>2, StopFindsDevice
    <3> QED
      BY <1>1, <3>3 DEF HardwareFollowsClients
  <2> QED
    BY <1>3, <2>1, <2>2
<1> QED
  BY <1>8, <1>9, <1>10, <1>11, <1>12, <1>13, <1>14, <1>15 DEF IO

LEMMA FinishKeeps ==
  ASSUME IInv, NEW c \in Clients, Finish(c)
  PROVE  IInv'
<1> USE DEF IInv
<1>1. /\ pc[c] = "done" /\ LetGo(c)
      /\ pc' = [pc EXCEPT ![c] = "idle"] /\ call' = [call EXCEPT ![c] = [op |-> "none"]]
      /\ UNCHANGED <<hal, requests, changing, started, deleted, owned, worker,
                     deviceList, stateMutex, ioMutex, device>>
  BY DEF Finish, hostVars, deviceVars
<1>2. c \in Threads /\ c # HalThread /\ c # QueueThread
  BY ClientsAreThreads DEF Threads
<1>3. /\ References' /\ objectInfo' \in [Objects -> Entries] /\ queue' \in Seq(Blocks)
      /\ held' \in Holdings /\ held' = [held EXCEPT ![c] = NoObject]
      /\ queue' = queue \/ \E o \in Objects : queue' = Append(queue, Destroy(o))
  BY <1>1, <1>2, LettingGo DEF Types
<1>4. hal \notin {"unloaded", "creating", "created"}
  BY <1>1 DEF Loaded
<1>5. Types'
  BY <1>1, <1>3 DEF Types, TypeOK, DeviceType, CallType, Comparing, Holdings
<1>6. Loaded' /\ ListedOwned'
  BY <1>1, <1>4 DEF Loaded, ListedOwned
<1>7. Resting'
  BY <1>1, <1>2, <1>3 DEF Resting, Types, TypeOK, Threads
<1>8. Removal'
  <2>1. held'[QueueThread] = held[QueueThread]
    BY <1>2, <1>3 DEF Threads, Types, TypeOK
  <2>2. UNCHANGED queue \/ \E b \in Blocks : b.do # "remove" /\ queue' = Append(queue, b)
    BY <1>3 DEF Blocks, Destroy
  <2> QED
    BY <1>1, <2>1, <2>2, RemovalGrows DEF Types
<1>9. IO'
  BY <1>1 DEF IO, Paired, Types, TypeOK, CallType, OpenOwned, HardwareFollowsClients, TicksSound
<1> QED
  BY <1>3, <1>5, <1>6, <1>7, <1>8, <1>9

----------------------------------------------------------------------------
(****************************************************************************)
(* The changes the HAL performs.                                            *)
(****************************************************************************)

LEMMA BeginChangeKeeps ==
  ASSUME IInv, BeginChange
  PROVE  IInv'
<1> USE DEF IInv
<1>1. /\ requests # <<>> /\ ~changing /\ changing' = TRUE
      /\ CopyObjectByObjectID(HalThread, mObjectID)
      /\ UNCHANGED <<hal, requests, started, deleted, queue, owned, worker,
                     deviceList, stateMutex, ioMutex, device, pc, call>>
  BY DEF BeginChange, deviceVars, clientVars
<1>2. HalThread \in Threads /\ held[HalThread] = NoObject
  BY <1>1 DEF Threads, Resting
<1>3. /\ MapSound' /\ objectInfo' \in [Objects -> Entries] /\ held' \in Holdings
      /\ \A o \in Objects : objectInfo'[o] = NoEntry <=> objectInfo[o] = NoEntry
      /\ \A s \in Threads : s # HalThread => held'[s] = held[s]
  BY <1>1, <1>2, LookUp DEF References, MapSound, Types
<1>4. Types'
  BY <1>1, <1>3 DEF Types, TypeOK, DeviceType, CallType, Comparing, Holdings
<1>5. Loaded' /\ ListedOwned'
  BY <1>1 DEF Loaded, ListedOwned
<1>6. QueueThread # HalThread /\ \A c \in Clients : c # HalThread
  BY ClientsAreThreads DEF HalThread, QueueThread
<1>7. Resting'
  BY <1>1, <1>3, <1>6 DEF Resting, Threads
<1>8. Removal'
  BY <1>1, <1>3, <1>6, RemovalGrows DEF Types, Threads
<1>9. References'
  BY <1>1, <1>3, DestroyOnceStill DEF References, MapSound
<1>10. IO'
  BY <1>1 DEF IO, Paired, OpenOwned, HardwareFollowsClients, TicksSound
<1> QED
  BY <1>4, <1>5, <1>7, <1>8, <1>9, <1>10

LEMMA NewRate ==
  ASSUME DeviceType, NEW r \in SupportedRates,
         device' = [device EXCEPT !.rate = r, !.ticksRate = r]
  PROVE  /\ DeviceType' /\ device'.rate = r /\ device'.ticksRate = r
         /\ device'.startCount = device.startCount
         /\ device'.status = device.status /\ device'.shmStatus = device.shmStatus
BY DEF DeviceType, DeviceStates

LEMMA EndChangeKeeps ==
  ASSUME IInv, EndChange
  PROVE  IInv'
<1> USE DEF IInv
<1>1. /\ changing /\ changing' = FALSE /\ requests' = Tail(requests) /\ LetGo(HalThread)
      /\ UNCHANGED <<hal, started, deleted, owned, worker, deviceList, stateMutex,
                     ioMutex, pc, call>>
  BY DEF EndChange, clientVars
<1>2. requests # <<>> /\ hal \notin {"unloaded", "creating", "created"}
  BY <1>1 DEF Loaded
<1>3. Head(requests) \in SupportedRates /\ requests' \in Seq(SupportedRates)
  BY <1>1, <1>2, HeadTailProperties DEF Types, TypeOK
<1>4. \/ UNCHANGED device
      \/ device' = [device EXCEPT !.rate = Head(requests), !.ticksRate = Head(requests)]
  BY DEF EndChange
<1>5. /\ DeviceType' /\ device'.startCount = device.startCount
      /\ device'.status = device.status /\ device'.shmStatus = device.shmStatus
      /\ \/ device'.ticksRate = device'.rate
         \/ device'.ticksRate = device.ticksRate /\ device'.rate = device.rate
  <2>1. CASE UNCHANGED device
    BY <2>1 DEF Types, DeviceType, DeviceStates
  <2>2. CASE device' = [device EXCEPT !.rate = Head(requests), !.ticksRate = Head(requests)]
    BY <1>3, <2>2, NewRate DEF Types
  <2> QED
    BY <1>4, <2>1, <2>2
<1>6. /\ References' /\ objectInfo' \in [Objects -> Entries] /\ queue' \in Seq(Blocks)
      /\ held' \in Holdings /\ held' = [held EXCEPT ![HalThread] = NoObject]
      /\ queue' = queue \/ \E o \in Objects : queue' = Append(queue, Destroy(o))
  BY <1>1, LettingGo DEF Types, Threads
<1>7. Types'
  BY <1>1, <1>3, <1>5, <1>6
     DEF Types, TypeOK, DeviceType, DeviceStates, CallType, Comparing, Holdings
<1>8. Loaded' /\ ListedOwned'
  BY <1>1, <1>2 DEF Loaded, ListedOwned
<1>9. QueueThread # HalThread /\ \A c \in Clients : c # HalThread
  BY ClientsAreThreads DEF HalThread, QueueThread
<1>10. /\ held'[QueueThread] = held[QueueThread] /\ held'[HalThread] = NoObject
       /\ \A c \in Clients : held'[c] = held[c]
  BY <1>6, <1>9 DEF Types, TypeOK, Threads
<1>11. Resting'
  BY <1>1, <1>10 DEF Resting
<1>12. Removal'
  <2>1. UNCHANGED queue \/ \E b \in Blocks : b.do # "remove" /\ queue' = Append(queue, b)
    BY <1>6 DEF Blocks, Destroy
  <2> QED
    BY <1>1, <1>10, <2>1, RemovalGrows DEF Types
<1>13. IO'
  BY <1>1, <1>5 DEF IO, Paired, OpenOwned, HardwareFollowsClients, TicksSound
<1> QED
  BY <1>6, <1>7, <1>8, <1>11, <1>12, <1>13

----------------------------------------------------------------------------
(****************************************************************************)
(* The queue's thread.                                                      *)
(****************************************************************************)

\* What the steps of the queue's thread leave alone of the invariant.
LEMMA QueueStepFrame ==
  ASSUME IInv, UNCHANGED <<hal, started, device, pc, call>>
  PROVE  Paired' /\ HardwareFollowsClients' /\ TicksSound' /\ CallType' /\ DeviceType' /\ Comparing'
BY DEF IInv, Types, CallType, DeviceType, Comparing, IO, Paired, HardwareFollowsClients, TicksSound

LEMMA RunDestroyKeeps ==
  ASSUME IInv, RunDestroy
  PROVE  IInv'
<1> USE DEF IInv
<1>1. /\ queue # <<>> /\ Head(queue).do = "destroy" /\ queue' = Tail(queue)
      /\ deleted' = deleted \cup {Head(queue).arg}
      /\ UNCHANGED <<hal, requests, changing, started, objectInfo, held, owned, worker,
                     deviceList, stateMutex, ioMutex, device, pc, call>>
  BY DEF RunDestroy, Dequeue, hostVars, deviceVars, clientVars
<1>2. queue \in Seq(Blocks) /\ Head(queue) \in Blocks /\ queue' \in Seq(Blocks)
  BY <1>1, QueueShrinks DEF Types, TypeOK
<1>3. Head(queue).arg \in Objects
  BY <1>1, <1>2 DEF Blocks, Destroy, Request, Remove
<1>4. Types'
  BY <1>1, <1>2, <1>3, QueueStepFrame DEF Types, TypeOK
<1>5. Loaded' /\ ListedOwned'
  BY <1>1, <1>2, QueueShrinks DEF Loaded, ListedOwned
<1>6. Resting'
  BY <1>1 DEF Resting
<1>7. Removal'
  BY <1>1, RemovalShrinks DEF Types
<1>8. References'
  <2>1. DestroyOnce'
    BY <1>1, <1>2, DestroyOnceShrinks DEF References
  <2> QED
    BY <1>1, <2>1 DEF References, CountsExact, Holders, Identified, Mapping
<1>9. IO'
  BY <1>1, QueueStepFrame DEF IO, OpenOwned
<1> QED
  BY <1>4, <1>5, <1>6, <1>7, <1>8, <1>9

LEMMA RunRequestKeeps ==
  ASSUME IInv, RunRequest
  PROVE  IInv'
<1> USE DEF IInv
<1>1. /\ queue # <<>> /\ Head(queue).do = "request" /\ queue' = Tail(queue)
      /\ requests' = Append(requests, Head(queue).arg)
      /\ UNCHANGED <<hal, changing, started, objectInfo, deleted, held, owned, worker,
                     deviceList, stateMutex, ioMutex, device, pc, call>>
  BY DEF RunRequest, Dequeue, deviceVars, clientVars
<1>2. /\ queue \in Seq(Blocks) /\ Head(queue) \in Blocks /\ queue' \in Seq(Blocks)
      /\ 1 \in DOMAIN queue /\ Head(queue) = queue[1]
  BY <1>1, QueueShrinks DEF Types, TypeOK
<1>3. Head(queue).arg \in SupportedRates
  BY <1>1, <1>2 DEF Blocks, Destroy, Request, Remove
<1>4. requests' \in Seq(SupportedRates) /\ requests' # <<>>
  BY <1>1, <1>3, AppendProperties DEF Types, TypeOK
<1>5. Types'
  BY <1>1, <1>2, <1>4, QueueStepFrame DEF Types, TypeOK
<1>6. hal \notin {"unloaded", "creating", "created"}
  BY <1>1, <1>2 DEF Loaded
<1>7. Loaded' /\ ListedOwned'
  BY <1>1, <1>4, <1>6 DEF Loaded, ListedOwned
<1>8. Resting'
  BY <1>1 DEF Resting
<1>9. Removal'
  BY <1>1, RemovalShrinks DEF Types
<1>10. References'
  <2>1. DestroyOnce'
    BY <1>1, <1>2, DestroyOnceShrinks DEF References
  <2> QED
    BY <1>1, <2>1 DEF References, CountsExact, Holders, Identified, Mapping
<1>11. IO'
  BY <1>1, QueueStepFrame DEF IO, OpenOwned
<1> QED
  BY <1>5, <1>7, <1>8, <1>9, <1>10, <1>11

\* The block that removes the device finds it.
LEMMA RunRemoveKeeps ==
  ASSUME IInv, RunRemove
  PROVE  IInv'
<1> USE DEF IInv
<1>1. /\ worker = "idle" /\ queue # <<>> /\ Head(queue).do = "remove" /\ queue' = Tail(queue)
      /\ CopyObjectByObjectID(QueueThread, Head(queue).arg)
      /\ worker' = IF Mapped(Head(queue).arg) = {} THEN "idle" ELSE "state"
      /\ UNCHANGED <<hal, requests, changing, started, deleted, owned,
                     deviceList, stateMutex, ioMutex, device, pc, call>>
  BY DEF RunRemove, Dequeue, hostVars, deviceVars, clientVars
<1>2. /\ queue \in Seq(Blocks) /\ queue' \in Seq(Blocks)
      /\ 1 \in DOMAIN queue /\ Head(queue) = queue[1]
      /\ \A i \in DOMAIN queue' : i + 1 \in DOMAIN queue /\ queue'[i] = queue[i + 1]
      /\ DOMAIN queue' \subseteq Nat \ {0}
  BY <1>1, QueueShrinks DEF Types, TypeOK
<1>3. 1 \in Removes
  BY <1>1, <1>2 DEF Removes
<1>4. hal = "retired" /\ Device \in owned /\ Head(queue).arg = mObjectID
  BY <1>2, <1>3 DEF Removal, Remove
<1>5. Mapped(mObjectID) = {Device}
  <2>1. objectInfo[PlugIn].ids \subseteq {kAudioObjectPlugInObject}
    BY DEF References, Identified, Names, Objects
  <2>2. mObjectID \in objectInfo[Device].ids
    BY <1>4 DEF References, Mapping, Identified, OwnName, Objects, Device, PlugIn
  <2> QED
    BY <2>1, <2>2 DEF Mapped, Objects, mObjectID, kAudioObjectPlugInObject
<1>6. worker' = "state"
  BY <1>1, <1>4, <1>5
<1>7. QueueThread \in Threads /\ held[QueueThread] = NoObject
  BY <1>1 DEF Threads, Resting
<1>8. /\ MapSound' /\ objectInfo' \in [Objects -> Entries] /\ held' \in Holdings
      /\ \A o \in Objects : objectInfo'[o] = NoEntry <=> objectInfo[o] = NoEntry
      /\ \A s \in Threads : s # QueueThread => held'[s] = held[s]
      /\ held'[QueueThread] = Device
  BY <1>1, <1>4, <1>5, <1>7, LookUp DEF References, MapSound, Types
<1>9. Types'
  BY <1>1, <1>2, <1>6, <1>8, QueueStepFrame DEF Types, TypeOK, Holdings
<1>10. Loaded' /\ ListedOwned'
  BY <1>1, <1>4 DEF Loaded, ListedOwned
<1>11. QueueThread # HalThread /\ \A c \in Clients : c # QueueThread
  BY ClientsAreThreads DEF HalThread, QueueThread
<1>12. Resting'
  BY <1>1, <1>6, <1>8, <1>11 DEF Resting, Threads
<1>13. Removal'
  <2>1. ASSUME NEW i \in Removes'
        PROVE  FALSE
    <3>1. i \in Nat \ {0} /\ i + 1 \in Removes
      BY <1>2, <2>1 DEF Removes
    <3> QED
      BY <1>3, <3>1 DEF Removal
  <2> QED
    BY <1>1, <1>4, <1>6, <1>8, <2>1 DEF Removal
<1>14. References'
  BY <1>1, <1>2, <1>8, DestroyOnceShrinks DEF References, MapSound
<1>15. IO'
  BY <1>1, QueueStepFrame DEF IO, OpenOwned
<1> QED
  BY <1>9, <1>10, <1>12, <1>13, <1>14, <1>15

LEMMA LocksKeep ==
  ASSUME IInv, LockState \/ LockIO
  PROVE  IInv'
<1> USE DEF IInv
<1>1. /\ worker \in {"state", "io"} /\ worker' \in {"io", "unmap"}
      /\ stateMutex' \in {stateMutex, QueueThread} /\ ioMutex' \in {ioMutex, QueueThread}
      /\ UNCHANGED <<hal, requests, changing, started, objectInfo, deleted, queue, held, owned,
                     deviceList, device, pc, call>>
  BY DEF LockState, LockIO, hostVars, mapVars, clientVars
<1>2. Types'
  BY <1>1, QueueStepFrame DEF Types, TypeOK
<1>3. Loaded' /\ ListedOwned'
  BY <1>1 DEF Loaded, ListedOwned
<1>4. Resting'
  BY <1>1 DEF Resting
<1>5. Removal'
  BY <1>1 DEF Removal, Removes
<1>6. References'
  BY <1>1, ReferencesStay DEF mapVars
<1>7. IO'
  BY <1>1, QueueStepFrame DEF IO, OpenOwned
<1> QED
  BY <1>2, <1>3, <1>4, <1>5, <1>6, <1>7

\* The device keeps its own ID, so that no unmapping takes it off the map.
LEMMA UnmapKeeps ==
  ASSUME IInv, Unmap
  PROVE  IInv'
<1> USE DEF IInv
<1>1. PICK id \in Streams : id \in objectInfo[Device].ids /\ UnmapObject(id, Device)
  BY DEF Unmap
<1>2. /\ worker = "unmap"
      /\ UNCHANGED <<hal, requests, changing, started, deleted, held, owned, worker,
                     deviceList, stateMutex, ioMutex, device, pc, call>>
  BY DEF Unmap, hostVars, deviceVars, clientVars
<1>3. hal = "retired" /\ Device \in owned
  BY <1>2 DEF Removal
<1>4. /\ Device \in Objects /\ objectInfo \in [Objects -> Entries]
      /\ objectInfo[Device] # NoEntry /\ objectInfo[Device].refs > 0
      /\ mObjectID \in objectInfo[Device].ids /\ OwnName(Device) = mObjectID
  BY <1>3 DEF References, Mapping, Identified, OwnName, Objects, Device, PlugIn, Types, TypeOK
<1> DEFINE left == objectInfo[Device].ids \ {id}
<1>5. mObjectID \in left
  BY <1>4 DEF Streams, OutputStreams, mObjectID, mInputStreamObjectID, mOutputStreamObjectID,
              mOutputStreamObjectID2
<1>6. left \in SUBSET ObjectIDs
  BY <1>4 DEF Entries
<1>7. objectInfo' = [objectInfo EXCEPT ![Device].ids = left] /\ UNCHANGED queue
  BY <1>1, <1>5 DEF UnmapObject
<1>8. /\ objectInfo' \in [Objects -> Entries]
      /\ objectInfo'[Device].refs = objectInfo[Device].refs /\ objectInfo'[Device].ids = left
      /\ \A p \in Objects : p # Device => objectInfo'[p] = objectInfo[p]
  <2> HIDE DEF left
  <2> QED
    BY <1>4, <1>6, <1>7, ChangeIds
<1>9. objectInfo[Device].refs # 0
  BY <1>4 DEF Entries
<1>10. objectInfo'[Device] # NoEntry
  BY <1>8, <1>9, EntryCounts
<1>11. \A p \in Objects : /\ objectInfo'[p].refs = objectInfo[p].refs
                          /\ objectInfo'[p].ids \subseteq objectInfo[p].ids
                          /\ objectInfo'[p] = NoEntry <=> objectInfo[p] = NoEntry
  BY <1>4, <1>8, <1>10
<1>12. References'
  <2>1. CountsExact'
    BY <1>2, <1>11 DEF References, CountsExact, Holders
  <2>2. Identified'
    BY <1>4, <1>5, <1>8, <1>11 DEF References, Identified
  <2>3. Mapping'
    BY <1>2, <1>11 DEF References, Mapping, Types, TypeOK
  <2>4. DestroyOnce'
    BY <1>2, <1>7, <1>11, DestroyOnceStill DEF References
  <2> QED
    BY <2>1, <2>2, <2>3, <2>4 DEF References
<1>13. Types'
  BY <1>2, <1>7, <1>8, QueueStepFrame DEF Types, TypeOK
<1>14. Loaded' /\ ListedOwned' /\ Resting'
  BY <1>2, <1>3 DEF Loaded, ListedOwned, Resting
<1>15. Removal'
  BY <1>2, <1>7 DEF Removal, Removes
<1>16. IO'
  BY <1>2, QueueStepFrame DEF IO, OpenOwned
<1> QED
  BY <1>12, <1>13, <1>14, <1>15, <1>16

LEMMA CloseDeviceKeeps ==
  ASSUME IInv, CloseDevice
  PROVE  IInv'
<1> USE DEF IInv
<1>1. /\ worker = "unmap" /\ worker' = "release"
      /\ device' = [device EXCEPT !.status = JB_DRV_STATUS_INIT]
      /\ stateMutex' = NoThread /\ ioMutex' = NoThread
      /\ UNCHANGED <<hal, requests, changing, started, objectInfo, deleted, queue, held, owned,
                     deviceList, pc, call>>
  BY DEF CloseDevice, hostVars, mapVars, clientVars
<1>2. hal = "retired"
  BY <1>1 DEF Removal
<1>3. /\ DeviceType' /\ device'.startCount = device.startCount
      /\ device'.rate = device.rate /\ device'.ticksRate = device.ticksRate
      /\ device'.status = JB_DRV_STATUS_INIT
  BY <1>1 DEF Types, DeviceType, DeviceStates, Statuses
<1>4. Types'
  BY <1>1, <1>3 DEF Types, TypeOK, CallType, Comparing, DeviceType
<1>5. Loaded' /\ ListedOwned' /\ Resting'
  BY <1>1, <1>2 DEF Loaded, ListedOwned, Resting
<1>6. Removal'
  BY <1>1 DEF Removal, Removes
<1>7. References'
  BY <1>1, ReferencesStay DEF mapVars
<1>8. IO'
  BY <1>1, <1>2, <1>3 DEF IO, Paired, OpenOwned, HardwareFollowsClients, TicksSound
<1> QED
  BY <1>4, <1>5, <1>6, <1>7, <1>8

LEMMA ReleaseOwnedKeeps ==
  ASSUME IInv, ReleaseOwned
  PROVE  IInv'
<1> USE DEF IInv
<1>1. /\ worker = "release" /\ worker' = "letgo"
      /\ ReleaseObject(held[QueueThread]) /\ owned' = owned \ {held[QueueThread]}
      /\ UNCHANGED <<hal, requests, changing, started, deleted, held,
                     deviceList, stateMutex, ioMutex, device, pc, call>>
  BY DEF ReleaseOwned, hostVars, deviceVars, clientVars
<1>2. hal = "retired" /\ held[QueueThread] = Device /\ Device \in owned
  BY <1>1 DEF Removal
<1>3. Device \in Objects /\ objectInfo[Device] # NoEntry
  BY <1>2 DEF References, Mapping, Objects
<1>4. \A p \in Objects : Count(held', owned', p)
        = IF p = Device THEN Count(held, owned, p) - 1 ELSE Count(held, owned, p)
  <2>1. \A p \in Objects : Count(held, owned \ {Device}, p)
          = IF p = Device THEN Count(held, owned, p) - 1 ELSE Count(held, owned, p)
    BY <1>2, OwnersShrink
  <2> QED
    BY <1>1, <1>2, <2>1
<1>5. /\ References'
      /\ objectInfo' \in [Objects -> Entries] /\ queue' \in Seq(Blocks)
      /\ queue' = queue \/ queue' = Append(queue, Destroy(Device))
  <2>1. ReleaseObject(Device) /\ UNCHANGED deleted /\ owned' \subseteq owned
          /\ \A t \in Threads : held'[t] \in {held[t], NoObject}
    BY <1>1, <1>2
  <2> QED
    BY <1>3, <1>4, <2>1, DropReference DEF Types
<1>6. Types'
  BY <1>1, <1>2, <1>5, QueueStepFrame DEF Types, TypeOK
<1>7. Loaded' /\ ListedOwned' /\ Resting'
  BY <1>1, <1>2 DEF Loaded, ListedOwned, Resting
<1>8. Removal'
  <2>1. Removes = {}
    BY <1>1 DEF Removal
  <2>2. ASSUME NEW i \in Removes'
        PROVE  FALSE
    <3>1. CASE queue' = queue
      BY <2>1, <2>2, <3>1 DEF Removes
    <3>2. CASE queue' = Append(queue, Destroy(Device))
      <4>1. Destroy(Device) \in Blocks /\ Destroy(Device).do = "destroy" /\ queue \in Seq(Blocks)
        BY <1>3 DEF Blocks, Destroy, Types, TypeOK
      <4> QED
        BY <2>1, <2>2, <3>2, <4>1, QueueGrows DEF Removes
    <3> QED
      BY <1>5, <3>1, <3>2
  <2> QED
    BY <1>1, <1>2, <2>2 DEF Removal
<1>9. IO'
  BY <1>1, <1>2, QueueStepFrame DEF IO, OpenOwned
<1> QED
  BY <1>5, <1>6, <1>7, <1>8, <1>9

LEMMA ReleaseOwnKeeps ==
  ASSUME IInv, ReleaseOwn
  PROVE  IInv'
<1> USE DEF IInv
<1>1. /\ worker = "letgo" /\ worker' = "idle" /\ LetGo(QueueThread)
      /\ UNCHANGED <<hal, requests, changing, started, deleted, owned,
                     deviceList, stateMutex, ioMutex, device, pc, call>>
  BY DEF ReleaseOwn, hostVars, deviceVars, clientVars
<1>2. hal = "retired" /\ Removes = {}
  BY <1>1 DEF Removal
<1>3. /\ References' /\ objectInfo' \in [Objects -> Entries] /\ queue' \in Seq(Blocks)
      /\ held' \in Holdings /\ held' = [held EXCEPT ![QueueThread] = NoObject]
      /\ queue' = queue \/ \E o \in Objects : queue' = Append(queue, Destroy(o))
  BY <1>1, LettingGo DEF Types, Threads
<1>4. Types'
  BY <1>1, <1>3, QueueStepFrame DEF Types, TypeOK, Holdings
<1>5. Loaded' /\ ListedOwned'
  BY <1>1, <1>2 DEF Loaded, ListedOwned
<1>6. QueueThread # HalThread /\ \A c \in Clients : c # QueueThread
  BY ClientsAreThreads DEF HalThread, QueueThread
<1>7. Resting'
  BY <1>1, <1>3, <1>6 DEF Resting, Types, TypeOK, Threads
<1>8. Removal'
  <2>1. ASSUME NEW i \in Removes'
        PROVE  FALSE
    <3>1. CASE queue' = queue
      BY <1>2, <2>1, <3>1 DEF Removes
    <3>2. CASE \E o \in Objects : queue' = Append(queue, Destroy(o))
      <4>1. PICK o \in Objects : queue' = Append(queue, Destroy(o))
        BY <3>2
      <4>2. Destroy(o) \in Blocks /\ Destroy(o).do = "destroy" /\ queue \in Seq(Blocks)
        BY DEF Blocks, Destroy, Types, TypeOK
      <4> QED
        BY <1>2, <2>1, <4>1, <4>2, QueueGrows DEF Removes
    <3> QED
      BY <1>3, <3>1, <3>2
  <2> QED
    BY <1>1, <1>2, <2>1 DEF Removal
<1>9. IO'
  BY <1>1, <1>2, QueueStepFrame DEF IO, OpenOwned
<1> QED
  BY <1>3, <1>4, <1>5, <1>7, <1>8, <1>9

----------------------------------------------------------------------------
(****************************************************************************)
(* Loading the driver and taking the plug-in down.                          *)
(****************************************************************************)

LEMMA DeactivateKeeps ==
  ASSUME IInv, DeactivatePlugIn
  PROVE  IInv'
<1> USE DEF IInv
<1>1. /\ hal = "ready" /\ hal' = "retired"
      /\ deviceList' = [i \in DOMAIN deviceList |-> 0]
      /\ queue' = queue \o [i \in DOMAIN deviceList |-> Remove(deviceList[i])]
      /\ UNCHANGED <<requests, changing, started, objectInfo, deleted, held, owned,
                     worker, stateMutex, ioMutex, device, pc, call>>
  BY DEF DeactivatePlugIn, clientVars
<1>2. queue \in Seq(Blocks) /\ Remove(mObjectID) \in Blocks
  BY DEF Types, TypeOK, Blocks, ObjectIDs
<1>3. Removes = {} /\ worker = "idle"
  BY <1>1 DEF Removal
<1>4. deviceList' \in Seq({0, mObjectID})
  <2>1. deviceList \in Seq({0, mObjectID})
    BY DEF Types, TypeOK
  <2>2. DOMAIN deviceList = 1 .. Len(deviceList) /\ Len(deviceList) \in Nat
    BY <2>1, LenProperties
  <2> QED
    BY <1>1, <2>2
<1>5. \/ UNCHANGED queue
      \/ queue' = Append(queue, Remove(mObjectID)) /\ Device \in owned
  <2>1. CASE deviceList = <<>>
    <3>1. [i \in DOMAIN deviceList |-> Remove(deviceList[i])] = <<>>
      BY <2>1
    <3> QED
      BY <1>1, <1>2, <3>1, ConcatEmptySeq
  <2>2. CASE deviceList = <<mObjectID>> /\ Device \in owned
    <3>1. [i \in DOMAIN deviceList |-> Remove(deviceList[i])] = <<Remove(mObjectID)>>
      BY <2>2
    <3> QED
      BY <1>1, <1>2, <2>2, <3>1, AppendIsConcat
  <2> QED
    BY <1>1, <2>1, <2>2 DEF ListedOwned
<1>6. queue' \in Seq(Blocks)
  BY <1>2, <1>5, QueueGrows
<1>7. Types'
  BY <1>1, <1>4, <1>6, QueueStepFrame DEF Types, TypeOK, CallType, DeviceType, Comparing
<1>8. Loaded' /\ ListedOwned' /\ Resting'
  BY <1>1 DEF Loaded, ListedOwned, Resting
<1>9. Removal'
  <2>1. CASE UNCHANGED queue
    <3>1. Removes' = {}
      BY <1>3, <2>1 DEF Removes
    <3> QED
      BY <1>1, <1>3, <3>1 DEF Removal
  <2>2. CASE queue' = Append(queue, Remove(mObjectID)) /\ Device \in owned
    <3>1. \A i \in Removes' : i = Len(queue) + 1 /\ queue'[i] = Remove(mObjectID)
      BY <1>2, <1>3, <2>2, QueueGrows DEF Removes
    <3> QED
      BY <1>1, <1>3, <2>2, <3>1 DEF Removal
  <2> QED
    BY <1>5, <2>1, <2>2
<1>10. References'
  <2>1. CASE UNCHANGED queue
    BY <1>1, <2>1, ReferencesStay DEF mapVars
  <2>2. CASE queue' = Append(queue, Remove(mObjectID))
    <3>1. Remove(mObjectID).do # "destroy"
      BY DEF Remove
    <3>2. DestroyOnce'
      BY <1>1, <1>2, <2>2, <3>1, DestroyOnceGrows DEF References
    <3> QED
      BY <1>1, <3>2 DEF References, CountsExact, Holders, Identified, Mapping
  <2> QED
    BY <1>5, <2>1, <2>2
<1>11. IO'
  BY <1>1 DEF IO, Paired, OpenOwned, HardwareFollowsClients, TicksSound
<1> QED
  BY <1>7, <1>8, <1>9, <1>10, <1>11

\* The first mapping of an object, and the mapping of a further ID.
LEMMA MapFirst ==
  ASSUME NEW info \in [Objects -> Entries], NEW id \in ObjectIDs, NEW o \in Objects,
         info[o] = NoEntry, \A p \in Objects : id \notin info[p].ids
  PROVE  LET new == MapObject(info, id, o) IN
         /\ new \in [Objects -> Entries]
         /\ new[o].refs = 1 /\ new[o].ids = {id}
         /\ \A p \in Objects : p # o => new[p] = info[p]
<1>1. MapObject(info, id, o) = [info EXCEPT ![o] = [refs |-> 1, ids |-> {id}]]
  BY DEF MapObject, NoEntry
<1> QED
  BY <1>1 DEF Entries

LEMMA MapFurther ==
  ASSUME NEW info \in [Objects -> Entries], NEW id \in ObjectIDs, NEW o \in Objects,
         info[o] # NoEntry
  PROVE  LET new == MapObject(info, id, o) IN
         /\ new \in [Objects -> Entries]
         /\ new[o].refs = info[o].refs
         /\ info[o].ids \subseteq new[o].ids /\ new[o].ids \subseteq info[o].ids \cup {id}
         /\ \A p \in Objects : p # o => new[p] = info[p]
<1>1. \/ MapObject(info, id, o) = info
      \/ MapObject(info, id, o) =
           [info EXCEPT ![o] = [refs |-> info[o].refs, ids |-> info[o].ids \cup {id}]]
  BY DEF MapObject
<1> QED
  BY <1>1 DEF Entries

LEMMA NobodyHolds ==
  ASSUME IInv, hal \in {"unloaded", "creating", "created"}
  PROVE  /\ \A t \in Threads : held[t] = NoObject
         /\ worker = "idle" /\ Removes = {} /\ ~changing /\ requests = <<>>
BY DEF IInv, Loaded, Resting, Removal, Types, TypeOK, Threads

LEMMA SA_CreateKeeps ==
  ASSUME IInv, SA_Create
  PROVE  IInv'
<1> USE DEF IInv
<1> DEFINE first == MapObject(objectInfo, kAudioObjectPlugInObject, PlugIn)
<1>1. /\ hal = "unloaded" /\ hal' = "creating"
      /\ objectInfo' = MapObject(first, mObjectID, Device)
      /\ owned' = Objects /\ deviceList' = <<mObjectID>>
      /\ UNCHANGED <<deleted, queue, held, worker, stateMutex, ioMutex, device,
                     requests, changing, started, pc, call>>
  BY DEF SA_Create, clientVars
<1>2. \A o \in Objects : objectInfo[o] = NoEntry /\ objectInfo[o].ids = {}
  BY <1>1 DEF Loaded, NoEntry
<1>3. /\ PlugIn \in Objects /\ Device \in Objects /\ PlugIn # Device
      /\ kAudioObjectPlugInObject \in ObjectIDs /\ mObjectID \in ObjectIDs
      /\ mObjectID # kAudioObjectPlugInObject
  BY DEF Objects, PlugIn, Device, ObjectIDs, kAudioObjectPlugInObject, mObjectID
<1>4. /\ first \in [Objects -> Entries]
      /\ first[PlugIn].refs = 1 /\ first[PlugIn].ids = {kAudioObjectPlugInObject}
      /\ first[Device] = NoEntry
  BY <1>2, <1>3, MapFirst DEF Types, TypeOK
<1>5. /\ objectInfo' \in [Objects -> Entries]
      /\ objectInfo'[Device].refs = 1 /\ objectInfo'[Device].ids = {mObjectID}
      /\ objectInfo'[PlugIn] = first[PlugIn]
  <2>1. \A p \in Objects : mObjectID \notin first[p].ids
    BY <1>2, <1>3, <1>4 DEF Objects
  <2> HIDE DEF first
  <2> QED
    BY <1>1, <1>3, <1>4, <2>1, MapFirst
<1>6. \A o \in Objects : /\ objectInfo'[o].refs = 1 /\ objectInfo'[o].ids = {OwnName(o)}
                         /\ objectInfo'[o] # NoEntry
  <2>1. \A o \in Objects : objectInfo'[o].refs = 1 /\ objectInfo'[o].ids = {OwnName(o)}
    BY <1>3, <1>4, <1>5 DEF Objects, OwnName
  <2> QED
    BY <2>1, EntryCounts
<1>7. \A t \in Threads : held[t] = NoObject
  BY <1>1, NobodyHolds
<1>8. \A o \in Objects : Count(held', owned', o) = 1
  <2>1. \A o \in Objects : HoldersOf(held', o) = {}
    BY <1>1, <1>7, NullIsNoObject DEF HoldersOf
  <2> QED
    BY <1>1, <2>1, FS_EmptySet DEF Count
<1>9. CountsExact'
  BY <1>6, <1>8 DEF CountsExact, Count, Holders, HoldersOf
<1>10. Identified'
  BY <1>3, <1>6 DEF Identified, Names, OwnName
<1>11. Mapping'
  BY <1>1, <1>6, <1>7 DEF Mapping
<1>12. DestroyOnce'
  <2>1. queue' = <<>> /\ deleted' = {}
    BY <1>1 DEF Loaded
  <2> QED
    BY <2>1 DEF DestroyOnce, Doomed
<1>13. deviceList' \in Seq({0, mObjectID})
  BY <1>1
<1>14. Types'
  BY <1>1, <1>5, <1>13, QueueStepFrame DEF Types, TypeOK, CallType, DeviceType, Comparing
<1>15. Loaded' /\ ListedOwned' /\ Resting'
  BY <1>1, <1>6 DEF Loaded, ListedOwned, Resting
<1>16. Removal'
  BY <1>1, NobodyHolds DEF Removal, Removes
<1>17. IO'
  BY <1>1 DEF IO, Paired, OpenOwned, HardwareFollowsClients, TicksSound
<1> QED
  BY <1>9, <1>10, <1>11, <1>12, <1>14, <1>15, <1>16, <1>17 DEF References

\* The device is opened: its status, the shared one and the ticks are set.
LEMMA Opened ==
  ASSUME NEW d \in DeviceStates, NEW s \in Statuses, NEW n \in Nat,
         NEW r \in SupportedRates \cup {0}
  PROVE  [d EXCEPT !.shmStatus = s, !.status = s, !.ringFrames = n, !.ticksRate = r]
           \in DeviceStates
BY DEF DeviceStates

LEMMA OpenedByActivate ==
  ASSUME DeviceType,
         device' = [device EXCEPT !.shmStatus = JB_DRV_STATUS_ACTIVE,
                                  !.status = JB_DRV_STATUS_ACTIVE,
                                  !.ringFrames = RingBufferFrameSize,
                                  !.ticksRate = device.rate]
  PROVE  /\ DeviceType' /\ device'.startCount = device.startCount
         /\ device'.status = JB_DRV_STATUS_ACTIVE /\ device'.shmStatus = JB_DRV_STATUS_ACTIVE
         /\ device'.rate = device.rate /\ device'.ticksRate = device.rate
<1>1. /\ device'.startCount = device.startCount
      /\ device'.status = JB_DRV_STATUS_ACTIVE /\ device'.shmStatus = JB_DRV_STATUS_ACTIVE
      /\ device'.rate = device.rate /\ device'.ticksRate = device.rate
  BY DEF DeviceType, DeviceStates
<1>2. JB_DRV_STATUS_ACTIVE \in Statuses /\ RingBufferFrameSize \in Nat
  BY DEF Statuses, RingBufferFrameSize
<1>3. device \in DeviceStates /\ device.rate \in SupportedRates \cup {0}
  BY DEF DeviceType, DeviceStates
<1>4. device' \in DeviceStates
  BY <1>2, <1>3, Opened, Zenon
<1> QED
  BY <1>1, <1>4 DEF DeviceType, DeviceStates

LEMMA ActivateKeeps ==
  ASSUME IInv, ActivateDevice
  PROVE  IInv'
<1> USE DEF IInv
<1> DEFINE first == MapObject(objectInfo, mInputStreamObjectID, Device)
           second == MapObject(first, mOutputStreamObjectID, Device)
<1>1. /\ hal = "creating" /\ hal' = "created"
      /\ objectInfo' = MapObject(second, mOutputStreamObjectID2, Device)
      /\ device' = [device EXCEPT !.shmStatus = JB_DRV_STATUS_ACTIVE,
                                  !.status = JB_DRV_STATUS_ACTIVE,
                                  !.ringFrames = RingBufferFrameSize, !.ticksRate = device.rate]
      /\ UNCHANGED <<deleted, queue, held, owned, worker, deviceList, stateMutex,
                     ioMutex, requests, changing, started, pc, call>>
  BY DEF ActivateDevice, clientVars
<1>2. /\ Device \in Objects /\ objectInfo \in [Objects -> Entries]
      /\ objectInfo[Device] # NoEntry /\ objectInfo[Device].refs # 0
  BY <1>1 DEF Types, TypeOK, Loaded, Objects, References, Identified
<1>3. Streams \subseteq ObjectIDs \ {kAudioObjectPlugInObject}
  BY DEF ObjectIDs, Streams, OutputStreams, mInputStreamObjectID, mOutputStreamObjectID,
         mOutputStreamObjectID2, kAudioObjectPlugInObject
<1>4. /\ mInputStreamObjectID \in Streams /\ mOutputStreamObjectID \in Streams
      /\ mOutputStreamObjectID2 \in Streams
  BY DEF Streams, OutputStreams
<1>5. /\ first \in [Objects -> Entries] /\ first[Device].refs = objectInfo[Device].refs
      /\ objectInfo[Device].ids \subseteq first[Device].ids
      /\ first[Device].ids \subseteq objectInfo[Device].ids \cup Streams
      /\ \A p \in Objects : p # Device => first[p] = objectInfo[p]
  BY <1>2, <1>3, <1>4, MapFurther
<1> HIDE DEF first
<1>6. /\ second \in [Objects -> Entries] /\ second[Device].refs = objectInfo[Device].refs
      /\ objectInfo[Device].ids \subseteq second[Device].ids
      /\ second[Device].ids \subseteq objectInfo[Device].ids \cup Streams
      /\ \A p \in Objects : p # Device => second[p] = objectInfo[p]
  <2>1. first[Device] # NoEntry
    BY <1>2, <1>5, EntryCounts
  <2> QED
    BY <1>2, <1>3, <1>4, <1>5, <2>1, MapFurther
<1> HIDE DEF second
<1>7. /\ objectInfo' \in [Objects -> Entries]
      /\ objectInfo'[Device].refs = objectInfo[Device].refs
      /\ objectInfo[Device].ids \subseteq objectInfo'[Device].ids
      /\ objectInfo'[Device].ids \subseteq objectInfo[Device].ids \cup Streams
      /\ \A p \in Objects : p # Device => objectInfo'[p] = objectInfo[p]
  <2>1. second[Device] # NoEntry
    BY <1>2, <1>6, EntryCounts
  <2> QED
    BY <1>1, <1>2, <1>3, <1>4, <1>6, <2>1, MapFurther
<1>8. \A p \in Objects : /\ objectInfo'[p].refs = objectInfo[p].refs
                         /\ objectInfo'[p] # NoEntry /\ objectInfo[p] # NoEntry
  BY <1>1, <1>2, <1>7, EntryCounts DEF Loaded
<1>9. References'
  <2>1. CountsExact'
    BY <1>1, <1>8 DEF References, CountsExact, Holders
  <2>2. Identified'
    BY <1>3, <1>7, <1>8 DEF References, Identified, Names, OwnName, Device, PlugIn
  <2>3. Mapping'
    BY <1>1, <1>8 DEF References, Mapping, Types, TypeOK
  <2>4. DestroyOnce'
    BY <1>1, <1>8, DestroyOnceStill DEF References
  <2> QED
    BY <2>1, <2>2, <2>3, <2>4 DEF References
<1>10. /\ DeviceType' /\ device'.startCount = device.startCount
       /\ device'.status = JB_DRV_STATUS_ACTIVE /\ device'.shmStatus = JB_DRV_STATUS_ACTIVE
       /\ device'.rate = device.rate /\ device'.ticksRate = device.rate
  BY <1>1, OpenedByActivate DEF Types
<1>11. Types'
  BY <1>1, <1>7, <1>10 DEF Types, TypeOK, CallType, Comparing, DeviceType
<1>12. Loaded' /\ ListedOwned' /\ Resting'
  BY <1>1 DEF Loaded, ListedOwned, Resting, Objects
<1>13. Removal'
  BY <1>1, NobodyHolds DEF Removal, Removes
<1>14. IO'
  <2>1. Device \in owned
    BY <1>1 DEF Loaded, Objects
  <2>2. started = {}
    BY <1>1 DEF IO, HardwareFollowsClients, Loaded, JB_DRV_STATUS_INIT, JB_DRV_STATUS_STARTED
  <2> QED
    BY <1>1, <1>10, <2>1, <2>2
    DEF IO, Paired, OpenOwned, HardwareFollowsClients, TicksSound, JB_DRV_STATUS_ACTIVE,
        JB_DRV_STATUS_STARTED
<1> QED
  BY <1>9, <1>11, <1>12, <1>13, <1>14

LEMMA ActivateFailsKeeps ==
  ASSUME IInv, ActivateFails
  PROVE  IInv'
<1> USE DEF IInv
<1>1. /\ hal = "creating" /\ hal' = "created"
      /\ RemoveDevice /\ ReleaseObject(Device) /\ owned' = owned \ {Device}
      /\ UNCHANGED <<deleted, held, worker, stateMutex, ioMutex, device, requests,
                     changing, started, pc, call>>
  BY DEF ActivateFails, clientVars
<1>2. /\ Device \in Objects /\ objectInfo[Device] # NoEntry /\ Device \in owned
      /\ queue = <<>> /\ deviceList = <<mObjectID>> /\ device.status = JB_DRV_STATUS_INIT
  BY <1>1 DEF Loaded, ListedOwned, Objects
<1>3. deviceList' = <<>>
  <2>1. deviceList' = SubSeq(<<mObjectID>>, 1, 0) \o SubSeq(<<mObjectID>>, 2, 1)
    BY <1>1, <1>2 DEF RemoveDevice
  <2>2. SubSeq(<<mObjectID>>, 1, 0) = <<>> /\ SubSeq(<<mObjectID>>, 2, 1) = <<>>
    BY SubSeqEmpty
  <2>3. <<>> \in Seq({}) /\ <<>> \o <<>> = <<>>
    BY EmptySeq, ConcatEmptySeq
  <2> QED
    BY <2>1, <2>2, <2>3
<1>4. \A p \in Objects : Count(held', owned', p)
        = IF p = Device THEN Count(held, owned, p) - 1 ELSE Count(held, owned, p)
  <2>1. \A p \in Objects : Count(held, owned \ {Device}, p)
          = IF p = Device THEN Count(held, owned, p) - 1 ELSE Count(held, owned, p)
    BY <1>2, OwnersShrink
  <2> QED
    BY <1>1, <2>1
<1>5. /\ References'
      /\ objectInfo' \in [Objects -> Entries] /\ queue' \in Seq(Blocks)
      /\ queue' = queue \/ queue' = Append(queue, Destroy(Device))
  <2>1. UNCHANGED deleted /\ owned' \subseteq owned
          /\ \A t \in Threads : held'[t] \in {held[t], NoObject}
    BY <1>1
  <2> QED
    BY <1>1, <1>2, <1>4, <2>1, DropReference DEF Types
<1>6. deviceList' \in Seq({0, mObjectID})
  BY <1>3, EmptySeq
<1>7. Types'
  BY <1>1, <1>5, <1>6, QueueStepFrame DEF Types, TypeOK, CallType, DeviceType, Comparing
<1>8. \A i \in DOMAIN queue' : queue'[i].do = "destroy"
  <2>1. CASE queue' = queue
    BY <1>2, <2>1
  <2>2. CASE queue' = Append(queue, Destroy(Device))
    <3>1. Destroy(Device) \in Blocks /\ Destroy(Device).do = "destroy" /\ queue \in Seq(Blocks)
            /\ DOMAIN queue = {}
      BY <1>2 DEF Blocks, Destroy, Types, TypeOK
    <3> QED
      BY <2>2, <3>1, QueueGrows
  <2> QED
    BY <1>5, <2>1, <2>2
<1>9. Loaded' /\ ListedOwned' /\ Resting'
  BY <1>1, <1>3, <1>8 DEF Loaded, ListedOwned, Resting
<1>10. Removal'
  BY <1>1, <1>8, NobodyHolds DEF Removal, Removes
<1>11. IO'
  BY <1>1, <1>2 DEF IO, Paired, OpenOwned, HardwareFollowsClients, TicksSound
<1> QED
  BY <1>5, <1>7, <1>9, <1>10, <1>11

LEMMA InitializeKeeps ==
  ASSUME IInv, SA_Initialize
  PROVE  IInv'
<1> USE DEF IInv
<1>1. /\ hal = "created" /\ hal' = "ready"
      /\ UNCHANGED <<requests, changing, started, objectInfo, deleted, queue, held, owned,
                     worker, deviceList, stateMutex, ioMutex, device, pc, call>>
  BY DEF SA_Initialize, mapVars, deviceVars, clientVars
<1>2. Types'
  BY <1>1 DEF Types, TypeOK, CallType, DeviceType, Comparing
<1>3. Loaded' /\ ListedOwned' /\ Resting'
  BY <1>1 DEF Loaded, ListedOwned, Resting
<1>4. Removal'
  BY <1>1, NobodyHolds DEF Removal, Removes
<1>5. References'
  BY <1>1, ReferencesStay DEF mapVars
<1>6. IO'
  BY <1>1 DEF IO, Paired, OpenOwned, HardwareFollowsClients, TicksSound
<1> QED
  BY <1>2, <1>3, <1>4, <1>5, <1>6

----------------------------------------------------------------------------
(****************************************************************************)
(* The invariant, and what follows from it.                                 *)
(****************************************************************************)

LEMMA InvInit == Init => IInv
<1> SUFFICES ASSUME Init PROVE IInv
  OBVIOUS
<1> USE DEF Init
<1>1. Types
  <2>1. objectInfo \in [Objects -> Entries]
    BY DEF NoEntry, Entries
  <2>2. device = NewDevice /\ DeviceType
    BY DEF NewDevice, DeviceType, DeviceStates, Statuses, SupportedRates
  <2>3. device.startCount \in Nat /\ device.rate \in SupportedRates
    BY <2>2 DEF DeviceType, DeviceStates
  <2>4. queue \in Seq(Blocks) /\ deviceList \in Seq({0, mObjectID})
          /\ requests \in Seq(SupportedRates)
    BY EmptySeq
  <2> QED
    BY <2>1, <2>2, <2>3, <2>4 DEF Types, TypeOK, CallType, Comparing
<1>2. Loaded /\ ListedOwned /\ Resting /\ Removal
  BY DEF Loaded, ListedOwned, Resting, Removal, Removes, NewDevice, Threads
<1>3. References
  BY DEF References, CountsExact, Identified, Mapping, DestroyOnce, Doomed, NoEntry
<1>4. IO
  BY FS_EmptySet
  DEF IO, Paired, OpenOwned, HardwareFollowsClients, TicksSound, NewDevice,
      JB_DRV_STATUS_INIT, JB_DRV_STATUS_STARTED
<1> QED
  BY <1>1, <1>2, <1>3, <1>4 DEF IInv

LEMMA InvStutter ==
  ASSUME IInv, UNCHANGED vars
  PROVE  IInv'
<1> USE DEF IInv, vars, hostVars, mapVars, deviceVars, clientVars
<1>1. Types'
  BY DEF Types, TypeOK, CallType, DeviceType, Comparing
<1>2. Loaded' /\ ListedOwned' /\ Resting' /\ Removal'
  BY DEF Loaded, ListedOwned, Resting, Removal, Removes
<1>3. References'
  BY ReferencesStay
<1>4. IO'
  BY DEF IO, Paired, OpenOwned, HardwareFollowsClients, TicksSound
<1> QED
  BY <1>1, <1>2, <1>3, <1>4

LEMMA InvStep == IInv /\ [Next]_vars => IInv'
<1> SUFFICES ASSUME IInv, [Next]_vars
             PROVE  IInv'
  OBVIOUS
<1>1. CASE Loading
  BY <1>1, SA_CreateKeeps, ActivateKeeps, ActivateFailsKeeps, InitializeKeeps DEF Loading
<1>2. ASSUME NEW c \in Clients, NEW k \in Calls, Begin(c, k)
      PROVE  IInv'
  BY <1>2, BeginKeeps
<1>3. ASSUME NEW c \in Clients, Serve(c)
      PROVE  IInv'
  BY <1>3, AskKeeps, SetActiveKeeps, ReadRateKeeps, RequestRateKeeps, StartIOKeeps,
     StopIOKeeps, FinishKeeps DEF Serve
<1>4. CASE Change
  BY <1>4, BeginChangeKeeps, EndChangeKeeps DEF Change
<1>5. CASE DeactivatePlugIn
  BY <1>5, DeactivateKeeps
<1>6. CASE QueueStep
  BY <1>6, RunDestroyKeeps, RunRequestKeeps, RunRemoveKeeps, LocksKeep, UnmapKeeps,
     CloseDeviceKeeps, ReleaseOwnedKeeps, ReleaseOwnKeeps DEF QueueStep
<1>7. CASE UNCHANGED vars
  BY <1>7, InvStutter
<1> QED
  BY <1>1, <1>2, <1>3, <1>4, <1>5, <1>6, <1>7 DEF Next

\* The invariant holds in every reachable state of the driver.
THEOREM Invariance == Spec => []IInv
BY InvInit, InvStep, PTL DEF Spec

\* The map, the queue, the device and the clients keep their types, whatever
\* the HAL's threads ask for and in whatever order.
THEOREM TypeCorrect == Spec => []TypeOK
<1>1. IInv => TypeOK
  BY DEF IInv, Types
<1> QED
  BY <1>1, Invariance, PTL

\* The count of an object on the map (SA_ObjectMap's mReferenceCount) is its
\* owner's reference and one for each thread inside a call.
THEOREM CountsAlwaysExact == Spec => []CountsExact
<1>1. IInv => CountsExact
  BY DEF IInv, References
<1> QED
  BY <1>1, Invariance, PTL

\* No thread is inside an object that is destroyed or about to be, and each is
\* given to its destructor once: the references of SA_ObjectMap do what its
\* comment promises, teardown and failed loading included.
THEOREM LifetimesAlwaysExact == Spec => []LifetimesExact
<1>1. ASSUME IInv PROVE LifetimesExact
  <2> USE <1>1 DEF IInv, References
  <2>1. ReferencesHold
    <3>1. Doomed \subseteq Objects
      BY DEF Doomed, Types, TypeOK
    <3> QED
      BY <3>1, NullIsNoObject DEF ReferencesHold, Mapping, DestroyOnce, Types, TypeOK
  <2>2. ASSUME NEW o \in Objects
        PROVE  Cardinality({i \in DOMAIN queue : queue[i] = Destroy(o)})
                 + (IF o \in deleted THEN 1 ELSE 0) <= 1
    <3> DEFINE Now == {i \in DOMAIN queue : queue[i] = Destroy(o)}
    <3>1. CASE Now = {}
      <4>1. Cardinality(Now) = 0
        BY <3>1, FS_EmptySet
      <4> QED
        BY <4>1
    <3>2. CASE Now # {}
      <4>1. PICK i \in Now : TRUE
        BY <3>2
      <4>2. Now = {i} /\ o \notin deleted
        BY <4>1 DEF DestroyOnce
      <4>3. Cardinality(Now) = 1
        BY <4>2, FS_Singleton
      <4> QED
        BY <4>2, <4>3
    <3> QED
      BY <3>1, <3>2
  <2> QED
    BY <2>1, <2>2 DEF LifetimesExact, DestroyedOnce, DestroyOnce
<1> QED
  BY <1>1, Invariance, PTL

\* Until the teardown the hardware (_HW_StartIO, _HW_StopIO) runs exactly while
\* some client has IO started, and the shared status says so.
THEOREM HardwareAlwaysFollows == Spec => []HardwareFollowsClients
<1>1. IInv => HardwareFollowsClients
  BY DEF IInv, IO
<1> QED
  BY <1>1, Invariance, PTL

\* The ticks per frame of the time stamps are those of the sample rate.
THEOREM TicksAlwaysMatch == Spec => []TicksMatchRate
<1>1. IInv => TicksMatchRate
  BY DEF IInv, IO, TicksSound, TicksMatchRate
<1> QED
  BY <1>1, Invariance, PTL

(****************************************************************************)
(* The property tables.                                                     *)
(****************************************************************************)

USE DEF ObjectIDs, Streams, OutputStreams, kAudioObjectPlugInObject, mObjectID,
        mInputStreamObjectID, mOutputStreamObjectID, mOutputStreamObjectID2

\* A reply of exactly so many bytes.
Exact(answer, sel, size) ==
  answer.status = "ok" /\ Len(answer.data) * ItemBytes(sel) = size

\* With room for it, one value is written, and a list is written whole.
LEMMA SingleExact ==
  ASSUME NEW sel, NEW room \in Nat, NEW value,
         ItemBytes(sel) \in Nat, room >= ItemBytes(sel)
  PROVE  Exact(Single(sel, room, value), sel, ItemBytes(sel))
<1>1. Single(sel, room, value) = Reply(<<value>>)
  BY DEF Single
<1>2. Len(<<value>>) * ItemBytes(sel) = ItemBytes(sel)
  OBVIOUS
<1> QED
  BY <1>1, <1>2 DEF Exact, Reply

LEMMA FittingWhole ==
  ASSUME NEW S, NEW list \in Seq(S), NEW sel, NEW room \in Nat,
         ItemBytes(sel) \in {4, 16, 56}, room >= Len(list) * ItemBytes(sel)
  PROVE  Fitting(sel, room, list) = Reply(list)
<1>1. SubSeq(list, 1, Len(list)) = list
  BY SubSeqFull
<1> DEFINE n == Len(list)
<1>2. n \in Nat
  OBVIOUS
<1> HIDE DEF n
<1>3. ASSUME NEW k \in {4, 16, 56}, room >= n * k
      PROVE  ~(room \div k < n)
  <2>1. CASE k = 4
    BY <1>2, <1>3, <2>1
  <2>2. CASE k = 16
    BY <1>2, <1>3, <2>2
  <2>3. CASE k = 56
    BY <1>2, <1>3, <2>3
  <2> QED
    BY <1>3, <2>1, <2>2, <2>3
<1>4. ~(room \div ItemBytes(sel) < Len(list))
  BY <1>3 DEF n
<1> QED
  BY <1>1, <1>4 DEF Fitting

LEMMA FittingExact ==
  ASSUME NEW S, NEW list \in Seq(S), NEW sel, NEW room \in Nat, NEW size,
         ItemBytes(sel) \in {4, 16, 56}, size = Len(list) * ItemBytes(sel), room >= size
  PROVE  Exact(Fitting(sel, room, list), sel, size)
BY FittingWhole DEF Exact, Reply

LEMMA StringExact ==
  ASSUME NEW sel \in StringSelectors, NEW room \in Nat, room >= 8
  PROVE  Exact(String(room), sel, 8)
<1>1. ItemBytes(sel) = 8
  BY DEF ItemBytes, StringSelectors, FormatSelectors
<1>2. String(room) = Reply(<<0>>)
  BY DEF String
<1> QED
  BY <1>1, <1>2 DEF Exact, Reply

\* An item is never larger than a format and its range.
LEMMA ItemBytesType ==
  ASSUME NEW sel
  PROVE  ItemBytes(sel) \in {4, 8, 16, 40, 52, 56}
BY DEF ItemBytes

\* What the setters and the sizes have to say of one property.
AgreesOn(id, sel, scope) ==
  LET size == GetPropertyDataSize(id, sel, scope, Len(deviceList)) IN
  /\ IsPropertySettable(id, sel) # "unknown"
  /\ IsPropertySettable(id, sel) = "yes" <=> sel \in Setters(id)
  /\ size \in Nat
  /\ \A room \in Nat : room >= size =>
       Exact(GetPropertyData(id, sel, scope, room, TRUE, State), sel, size)

LEMMA PlugInAgrees ==
  ASSUME deviceList \in Seq({0, mObjectID}), NEW sel, NEW scope,
         PlugIn_HasProperty(sel)
  PROVE  AgreesOn(kAudioObjectPlugInObject, sel, scope)
<1> DEFINE id == kAudioObjectPlugInObject
           size == GetPropertyDataSize(id, sel, scope, Len(deviceList))
           data(room) == PlugIn_GetPropertyData(sel, room, TRUE, deviceList)
<1>1. /\ IsPropertySettable(id, sel) = "no"
      /\ Setters(id) = {}
  BY DEF PlugIn_HasProperty, SA_Object_HasProperty, IsPropertySettable,
         PlugIn_IsPropertySettable, SA_Object_IsPropertySettable, Settable, Setters
<1>2. size = PlugIn_GetPropertyDataSize(sel, Len(deviceList))
  BY DEF GetPropertyDataSize
<1>3. ASSUME NEW room
      PROVE  GetPropertyData(id, sel, scope, room, TRUE, State)
               = data(room)
  BY DEF GetPropertyData, State
<1>4. /\ size \in Nat
      /\ \A room \in Nat : room >= size =>
           Exact(data(room), sel, size)
  <2>1. CASE sel \in {"OwnedObjects", "DeviceList"}
    <3>1. ItemBytes(sel) = 4 /\ size = Len(deviceList) * 4
      BY <1>2, <2>1 DEF ItemBytes, StringSelectors, FormatSelectors, PlugIn_GetPropertyDataSize
    <3>2. \A room : data(room) = Fitting(sel, room, deviceList)
      BY <2>1 DEF PlugIn_GetPropertyData
    <3> HIDE DEF size, data
    <3>3. ASSUME NEW room \in Nat, room >= size
          PROVE  Exact(Fitting(sel, room, deviceList), sel, size)
      BY <3>1, <3>3, FittingExact
    <3> QED
      BY <3>1, <3>2, <3>3
  <2>2. CASE sel \in {"Manufacturer", "TranslateUIDToDevice", "BaseClass", "Class", "Owner"}
    <3>1. size = ItemBytes(sel)
      BY <1>2, <2>2 DEF PlugIn_GetPropertyDataSize, SA_Object_GetPropertyDataSize,
         PlugInSelectors
    <3>2. ASSUME NEW room
          PROVE  \E value : data(room) = Single(sel, room, value)
      BY <2>2 DEF PlugIn_GetPropertyData, SA_Object_GetPropertyData
    <3> HIDE DEF size, data
    <3>3. ASSUME NEW room \in Nat, room >= size
          PROVE  Exact(data(room), sel, size)
      <4>1. PICK value : data(room) = Single(sel, room, value)
        BY <3>2
      <4>2. size \in Nat /\ room >= ItemBytes(sel)
        BY <3>1, <3>3, ItemBytesType
      <4>3. Exact(Single(sel, room, value), sel, size)
        BY <3>1, <4>2, SingleExact
      <4> QED
        BY <4>1, <4>3
    <3> QED
      BY <3>1, <3>3, ItemBytesType
  <2>3. CASE sel = "ResourceBundle"
    <3>1. sel \in StringSelectors /\ ItemBytes(sel) = 8
      BY <2>3 DEF ItemBytes, StringSelectors, FormatSelectors
    <3>2. size = ItemBytes(sel)
      BY <1>2, <2>3 DEF PlugInSelectors, PlugIn_GetPropertyDataSize
    <3>3. \A room : data(room) = String(room)
      BY <2>3 DEF PlugIn_GetPropertyData
    <3> HIDE DEF size, data
    <3> QED
      BY <3>1, <3>2, <3>3, StringExact
  <2> QED
    BY <2>1, <2>2, <2>3 DEF PlugIn_HasProperty, SA_Object_HasProperty, PlugInSelectors,
       ObjectSelectors
<1> QED
  BY <1>1, <1>3, <1>4 DEF AgreesOn
LEMMA DeviceSizes ==
  ASSUME NEW sel, NEW scope \in Scopes, Device_HasProperty(sel, scope)
  PROVE  /\ sel \in {"OwnedObjects", "Streams"} =>
              /\ ItemBytes(sel) = 4
              /\ Device_GetPropertyDataSize(sel, scope) = Len(StreamsOf(scope)) * 4
         /\ sel = "ControlList" =>
              ItemBytes(sel) = 4 /\ Device_GetPropertyDataSize(sel, scope) = 0
         /\ sel = "AvailableNominalSampleRates" =>
              ItemBytes(sel) = 16 /\ Device_GetPropertyDataSize(sel, scope) = 32
         /\ sel \notin {"OwnedObjects", "Streams", "ControlList",
                        "AvailableNominalSampleRates"} =>
              Device_GetPropertyDataSize(sel, scope) = ItemBytes(sel)
<1>1. NumberOfStreams(scope) = Len(StreamsOf(scope))
  <2>1. CASE scope = "Global"
    BY <2>1 DEF NumberOfStreams, StreamsOf
  <2>2. CASE scope = "Input"
    BY <2>2 DEF NumberOfStreams, StreamsOf
  <2>3. CASE scope = "Output"
    BY <2>3 DEF NumberOfStreams, StreamsOf
  <2> QED
    BY <2>1, <2>2, <2>3 DEF Scopes
<1>2. ASSUME sel \in {"OwnedObjects", "Streams", "ControlList"}
      PROVE  ItemBytes(sel) = 4
  BY <1>2 DEF ItemBytes, StringSelectors, FormatSelectors
<1>3. ASSUME sel \in {"OwnedObjects", "Streams"}
      PROVE  Device_GetPropertyDataSize(sel, scope) = Len(StreamsOf(scope)) * 4
  BY <1>1, <1>2, <1>3 DEF Device_GetPropertyDataSize
<1>4. ASSUME sel = "ControlList"
      PROVE  Device_GetPropertyDataSize(sel, scope) = 0
  BY <1>4 DEF Device_GetPropertyDataSize
<1>5. ASSUME sel = "AvailableNominalSampleRates"
      PROVE  ItemBytes(sel) = 16 /\ Device_GetPropertyDataSize(sel, scope) = 32
  <2>1. ItemBytes(sel) = 16
    BY <1>5 DEF ItemBytes, StringSelectors, FormatSelectors
  <2>2. Device_GetPropertyDataSize(sel, scope) = 2 * ItemBytes(sel)
    BY <1>5 DEF Device_GetPropertyDataSize
  <2> QED
    BY <2>1, <2>2
<1>6. ASSUME sel \notin {"OwnedObjects", "Streams", "ControlList",
                        "AvailableNominalSampleRates"}
      PROVE  Device_GetPropertyDataSize(sel, scope) = ItemBytes(sel)
  BY <1>6 DEF Device_GetPropertyDataSize
<1> QED
  BY <1>2, <1>3, <1>4, <1>5, <1>6

LEMMA StreamsTyped ==
  ASSUME NEW scope \in Scopes
  PROVE  StreamsOf(scope) \in Seq(Streams)
<1>1. CASE scope = "Global"
  BY <1>1 DEF StreamsOf
<1>2. CASE scope = "Input"
  BY <1>2 DEF StreamsOf
<1>3. CASE scope = "Output"
  BY <1>3 DEF StreamsOf
<1> QED
  BY <1>1, <1>2, <1>3 DEF Scopes

LEMMA DeviceAgrees ==
  ASSUME NEW sel, NEW scope \in Scopes, Device_HasProperty(sel, scope)
  PROVE  AgreesOn(mObjectID, sel, scope)
<1> DEFINE size == Device_GetPropertyDataSize(sel, scope)
           data(room) == Device_GetPropertyData(sel, scope, room, State)
<1>1. /\ IsPropertySettable(mObjectID, sel) # "unknown"
      /\ IsPropertySettable(mObjectID, sel) = "yes" <=> sel \in Setters(mObjectID)
  <2>1. IsPropertySettable(mObjectID, sel) = Device_IsPropertySettable(sel)
    BY DEF IsPropertySettable
  <2>2. Setters(mObjectID) = {"NominalSampleRate"}
    BY DEF Setters
  <2>3. CASE sel \in DeviceSelectors \cup SideSelectors
    BY <2>1, <2>2, <2>3 DEF Device_IsPropertySettable, Settable
  <2>4. CASE sel \in ObjectSelectors /\ sel \notin DeviceSelectors \cup SideSelectors
    BY <2>1, <2>2, <2>4 DEF Device_IsPropertySettable, SA_Object_IsPropertySettable,
       Settable, ObjectSelectors
  <2> QED
    BY <2>3, <2>4 DEF Device_HasProperty, SA_Object_HasProperty
<1>2. /\ GetPropertyDataSize(mObjectID, sel, scope, Len(deviceList)) = size
      /\ \A room : GetPropertyData(mObjectID, sel, scope, room, TRUE, State) = data(room)
  BY DEF GetPropertyDataSize, GetPropertyData
<1>3. size \in Nat /\ \A room \in Nat : room >= size => Exact(data(room), sel, size)
  <2>1. CASE sel \in StringSelectors
    <3>1. ItemBytes(sel) = 8
      BY <2>1 DEF ItemBytes, StringSelectors, FormatSelectors
    <3>2. size = 8
      BY <2>1, <3>1, DeviceSizes DEF StringSelectors
    <3>3. \A room : data(room) = String(room)
      BY <2>1 DEF Device_GetPropertyData, StringSelectors, ObjectSelectors
    <3> HIDE DEF size, data
    <3> QED
      BY <2>1, <3>2, <3>3, StringExact
  <2>2. CASE sel \in {"OwnedObjects", "Streams"}
    <3>1. ItemBytes(sel) = 4 /\ size = Len(StreamsOf(scope)) * 4
      BY <2>2, DeviceSizes
    <3>2. \A room : data(room) = Fitting(sel, room, StreamsOf(scope))
      <4>1. \A room : data(room) = DeviceLists(sel, scope, room)
        BY <2>2 DEF Device_GetPropertyData, StringSelectors, ObjectSelectors
      <4>2. CASE sel = "OwnedObjects"
        BY <4>1, <4>2 DEF DeviceLists
      <4>3. CASE sel = "Streams"
        BY <4>1, <4>3 DEF DeviceLists
      <4> QED
        BY <2>2, <4>2, <4>3
    <3> HIDE DEF size, data
    <3>3. StreamsOf(scope) \in Seq(Streams)
      BY StreamsTyped
    <3>4. ASSUME NEW room \in Nat, room >= size
          PROVE  Exact(data(room), sel, size)
      BY <3>1, <3>2, <3>3, <3>4, FittingExact
    <3> QED
      BY <3>1, <3>3, <3>4
  <2>3. CASE sel = "ControlList"
    <3>1. ItemBytes(sel) = 4 /\ size = 0
      BY <2>3, DeviceSizes
    <3> DEFINE list == <<>>
    <3>2. \A room : data(room) = Fitting(sel, room, list)
      BY <2>3 DEF Device_GetPropertyData, DeviceLists, StringSelectors, ObjectSelectors
    <3> HIDE DEF size, data
    <3>typed. list \in Seq(Nat)
      OBVIOUS
    <3>3. Len(list) = 0
      OBVIOUS
    <3> HIDE DEF list
    <3>4. size = Len(list) * ItemBytes(sel) /\ ItemBytes(sel) \in {4, 16, 56}
      BY <3>1, <3>2, <3>3
    <3>5. ASSUME NEW room \in Nat, room >= size
          PROVE  Exact(data(room), sel, size)
      BY <3>2, <3>typed, <3>4, <3>5, FittingExact
    <3> QED
      BY <3>1, <3>5
  <2>4. CASE sel = "RelatedDevices"
    <3>1. ItemBytes(sel) = 4
      BY <2>4 DEF ItemBytes, StringSelectors, FormatSelectors
    <3>2. size = 4
      BY <2>4, <3>1, DeviceSizes
    <3> DEFINE list == <<mObjectID>>
    <3>3. \A room : data(room) = Fitting(sel, room, list)
      BY <2>4 DEF Device_GetPropertyData, DeviceLists, StringSelectors, ObjectSelectors
    <3> HIDE DEF size, data
    <3>typed. list \in Seq(Nat)
      OBVIOUS
    <3>4. Len(list) = 1
      OBVIOUS
    <3> HIDE DEF list
    <3>5. size = Len(list) * ItemBytes(sel) /\ ItemBytes(sel) \in {4, 16, 56}
      BY <3>1, <3>2, <3>3, <3>4
    <3>6. ASSUME NEW room \in Nat, room >= size
          PROVE  Exact(data(room), sel, size)
      BY <3>3, <3>typed, <3>5, <3>6, FittingExact
    <3> QED
      BY <3>2, <3>6
  <2>5. CASE sel = "AvailableNominalSampleRates"
    <3>1. ItemBytes(sel) = 16 /\ size = 32
      BY <2>5, DeviceSizes
    <3> DEFINE list == <<44100, 48000>>
    <3>2. \A room : data(room) = Fitting(sel, room, list)
      BY <2>5 DEF Device_GetPropertyData, DeviceFormats, StringSelectors, ObjectSelectors
    <3> HIDE DEF size, data
    <3>typed. list \in Seq(Nat)
      OBVIOUS
    <3>3. Len(list) = 2
      OBVIOUS
    <3> HIDE DEF list
    <3>4. size = Len(list) * ItemBytes(sel) /\ ItemBytes(sel) \in {4, 16, 56}
      BY <3>1, <3>2, <3>3
    <3>5. ASSUME NEW room \in Nat, room >= size
          PROVE  Exact(data(room), sel, size)
      BY <3>2, <3>typed, <3>4, <3>5, FittingExact
    <3> QED
      BY <3>1, <3>5
  <2>6. CASE sel \notin StringSelectors \cup {"OwnedObjects", "Streams", "ControlList",
                                           "RelatedDevices", "AvailableNominalSampleRates"}
    <3>1. size = ItemBytes(sel)
      BY <2>6, DeviceSizes
    <3>2. ASSUME NEW room
          PROVE  \E value : data(room) = Single(sel, room, value)
      <4>1. CASE sel \in {"NominalSampleRate", "ZeroTimeStampPeriod",
                          "PreferredChannelsForStereo", "PreferredChannelLayout"}
        <5>1. data(room) = DeviceFormats(sel, room, State)
          BY <2>6, <4>1 DEF Device_GetPropertyData, ObjectSelectors
        <5> QED
          BY <4>1, <5>1 DEF DeviceFormats
      <4>2. CASE sel \in ObjectSelectors
        <5>1. data(room) = SA_Object_GetPropertyData(mObjectID, sel, room)
          BY <2>6, <4>2 DEF Device_GetPropertyData, ObjectSelectors
        <5> QED
          BY <2>6, <5>1 DEF SA_Object_GetPropertyData
      <4>3. CASE sel \notin ObjectSelectors \cup
                  {"NominalSampleRate", "ZeroTimeStampPeriod",
                   "PreferredChannelsForStereo", "PreferredChannelLayout"}
        <5>1. data(room) = DeviceWords(sel, room, State)
          BY <2>6, <4>3 DEF Device_GetPropertyData, ObjectSelectors
        <5> QED
          BY <5>1 DEF DeviceWords
      <4> QED
        BY <4>1, <4>2, <4>3
    <3> HIDE DEF size, data
    <3> QED
      BY <3>1, <3>2, SingleExact, ItemBytesType
  <2> QED
    BY <2>1, <2>2, <2>3, <2>4, <2>5, <2>6
<1> QED
  BY <1>1, <1>2, <1>3 DEF AgreesOn

LEMMA StreamAgrees ==
  ASSUME NEW id \in Streams, NEW sel, NEW scope \in Scopes, Stream_HasProperty(sel)
  PROVE  AgreesOn(id, sel, scope)
<1> DEFINE size == Stream_GetPropertyDataSize(sel)
           data(room) == Stream_GetPropertyData(id, sel, scope, room, State)
<1>1. /\ IsPropertySettable(id, sel) # "unknown"
      /\ IsPropertySettable(id, sel) = "yes" <=> sel \in Setters(id)
  <2>1. IsPropertySettable(id, sel) = Stream_IsPropertySettable(sel)
    BY DEF IsPropertySettable
  <2>2. Setters(id) = FormatSelectors \cup {"IsActive"}
    BY DEF Setters
  <2>3. CASE sel \in StreamSelectors
    BY <2>1, <2>2, <2>3 DEF Stream_IsPropertySettable, Settable
  <2>4. CASE sel \in ObjectSelectors /\ sel \notin StreamSelectors
    BY <2>1, <2>2, <2>4 DEF Stream_IsPropertySettable, SA_Object_IsPropertySettable,
       Settable, ObjectSelectors, FormatSelectors
  <2> QED
    BY <2>3, <2>4 DEF Stream_HasProperty, SA_Object_HasProperty
<1>2. /\ GetPropertyDataSize(id, sel, scope, Len(deviceList)) = size
      /\ \A room : GetPropertyData(id, sel, scope, room, TRUE, State) = data(room)
  BY DEF GetPropertyDataSize, GetPropertyData
<1>3. size \in Nat /\ \A room \in Nat : room >= size => Exact(data(room), sel, size)
  <2>1. CASE sel \in {"AvailableVirtualFormats", "AvailablePhysicalFormats"}
    <3>1. ItemBytes(sel) = 56
      BY <2>1 DEF ItemBytes, StringSelectors, FormatSelectors
    <3>2. size = 2 * ItemBytes(sel)
      BY <2>1 DEF Stream_GetPropertyDataSize, ObjectSelectors
    <3> DEFINE list == <<44100, 48000>>
    <3>3. \A room : data(room) = Fitting(sel, room, list)
      BY <2>1 DEF Stream_GetPropertyData, StreamFormats, FormatSelectors, RateLists
    <3> HIDE DEF size, data
    <3>typed. list \in Seq(Nat)
      OBVIOUS
    <3>4. Len(list) = 2
      OBVIOUS
    <3> HIDE DEF list
    <3>5. size = Len(list) * ItemBytes(sel) /\ ItemBytes(sel) \in {4, 16, 56}
      BY <3>1, <3>2, <3>3, <3>4
    <3>6. ASSUME NEW room \in Nat, room >= size
          PROVE  Exact(data(room), sel, size)
      BY <3>3, <3>typed, <3>5, <3>6, FittingExact
    <3> QED
      BY <3>1, <3>2, <3>6
  <2>2. CASE sel = "OwnedObjects"
    <3>1. size = 0
      BY <2>2 DEF Stream_GetPropertyDataSize, SA_Object_GetPropertyDataSize, ObjectSelectors
    <3>2. \A room : data(room) = Reply(<<>>)
      BY <2>2 DEF Stream_GetPropertyData, SA_Object_GetPropertyData, FormatSelectors, RateLists
    <3> HIDE DEF size, data
    <3> QED
      BY <3>1, <3>2, ItemBytesType DEF Exact, Reply
  <2>3. CASE sel \notin {"AvailableVirtualFormats", "AvailablePhysicalFormats",
                         "OwnedObjects"}
    <3>1. size = ItemBytes(sel)
      BY <2>3 DEF Stream_GetPropertyDataSize, SA_Object_GetPropertyDataSize
    <3>2. ASSUME NEW room
          PROVE  \E value : data(room) = Single(sel, room, value)
      <4>1. CASE sel \in FormatSelectors
        BY <2>3, <4>1 DEF Stream_GetPropertyData, StreamFormats
      <4>2. CASE sel \notin FormatSelectors
        <5>1. sel \notin RateLists
          BY <2>3 DEF RateLists, Stream_HasProperty, StreamSelectors, ObjectSelectors,
             SA_Object_HasProperty
        <5>2. data(room) = StreamWords(id, sel, scope, room, State)
          BY <2>3, <4>2, <5>1 DEF Stream_GetPropertyData
        <5> QED
          BY <5>2 DEF StreamWords
      <4> QED
        BY <4>1, <4>2
    <3> HIDE DEF size, data
    <3> QED
      BY <3>1, <3>2, SingleExact, ItemBytesType
  <2> QED
    BY <2>1, <2>2, <2>3
<1> QED
  BY <1>1, <1>2, <1>3 DEF AgreesOn

\* A stream's own words, with room for them.
LEMMA StreamWord ==
  ASSUME NEW id \in Streams, NEW sel \in {"Owner", "Direction", "StartingChannel"}
  PROVE  /\ sel = "Owner" => Value(id, sel, "Global") = <<mObjectID>>
         /\ sel = "Direction" =>
              Value(id, sel, "Global") = <<IF id = mInputStreamObjectID THEN 1 ELSE 0>>
         /\ sel = "StartingChannel" =>
              Value(id, sel, "Global") = <<IF id = mOutputStreamObjectID2 THEN 3 ELSE 1>>
<1>1. Value(id, sel, "Global") = Stream_GetPropertyData(id, sel, "Global", 64, State).data
  BY DEF Value, GetPropertyData
<1>2. Stream_GetPropertyData(id, sel, "Global", 64, State)
        = StreamWords(id, sel, "Global", 64, State)
  BY DEF Stream_GetPropertyData, FormatSelectors, RateLists
<1>3. ItemBytes(sel) = 4
  BY DEF ItemBytes, StringSelectors, FormatSelectors
<1>4. ASSUME NEW value PROVE Single(sel, 64, value).data = <<value>>
  BY <1>3 DEF Single, Reply
<1>5. CASE sel = "Owner"
  <2>1. StreamWords(id, sel, "Global", 64, State) = Single(sel, 64, mObjectID)
    BY <1>5 DEF StreamWords
  <2> QED
    BY <1>1, <1>2, <1>4, <1>5, <2>1
<1>6. CASE sel = "Direction"
  <2>1. StreamWords(id, sel, "Global", 64, State)
          = Single(sel, 64, IF id = mInputStreamObjectID THEN 1 ELSE 0)
    BY <1>6 DEF StreamWords
  <2> QED
    BY <1>1, <1>2, <1>4, <1>6, <2>1
<1>7. CASE sel = "StartingChannel"
  <2>1. StreamWords(id, sel, "Global", 64, State)
          = Single(sel, 64, IF id = mOutputStreamObjectID2 THEN 3 ELSE 1)
    BY <1>7 DEF StreamWords
  <2> QED
    BY <1>1, <1>2, <1>4, <1>7, <2>1
<1> QED
  BY <1>5, <1>6, <1>7

LEMMA StreamsListed ==
  ASSUME NEW scope \in Scopes
  PROVE  Listed(scope) = {StreamsOf(scope)[i] : i \in DOMAIN StreamsOf(scope)}
<1>1. Value(mObjectID, "Streams", scope)
        = Device_GetPropertyData("Streams", scope, 64, State).data
  BY DEF Value, GetPropertyData
<1>2. Device_GetPropertyData("Streams", scope, 64, State) = DeviceLists("Streams", scope, 64)
  BY DEF Device_GetPropertyData, StringSelectors
<1>3. DeviceLists("Streams", scope, 64) = Fitting("Streams", 64, StreamsOf(scope))
  BY DEF DeviceLists
<1>4. ItemBytes("Streams") = 4
  BY DEF ItemBytes, StringSelectors, FormatSelectors
<1>5. 64 >= Len(StreamsOf(scope)) * ItemBytes("Streams")
  <2>1. CASE scope = "Global"
    BY <1>4, <2>1 DEF StreamsOf
  <2>2. CASE scope = "Input"
    BY <1>4, <2>2 DEF StreamsOf
  <2>3. CASE scope = "Output"
    BY <1>4, <2>3 DEF StreamsOf
  <2> QED
    BY <2>1, <2>2, <2>3 DEF Scopes
<1>6. Fitting("Streams", 64, StreamsOf(scope)) = Reply(StreamsOf(scope))
  BY <1>4, <1>5, StreamsTyped, FittingWhole
<1> QED
  BY <1>1, <1>2, <1>3, <1>6 DEF Listed, Reply

LEMMA TreeFits == StreamsFitTogether
<1>1. /\ Listed("Global") = Streams
      /\ Listed("Input") = {mInputStreamObjectID}
      /\ Listed("Output") = OutputStreams
  <2>1. \A scope \in Scopes :
          Listed(scope) = {StreamsOf(scope)[i] : i \in DOMAIN StreamsOf(scope)}
    BY StreamsListed
  <2>2. StreamsOf("Global") = <<33, 34, 35>> /\ StreamsOf("Input") = <<33>>
          /\ StreamsOf("Output") = <<34, 35>>
    BY DEF StreamsOf
  <2>3. Listed("Global") = {<<33, 34, 35>>[i] : i \in 1 .. 3}
    BY <2>1, <2>2 DEF Scopes
  <2>4. Listed("Input") = {<<33>>[i] : i \in 1 .. 1}
    BY <2>1, <2>2 DEF Scopes
  <2>5. Listed("Output") = {<<34, 35>>[i] : i \in 1 .. 2}
    BY <2>1, <2>2 DEF Scopes
  <2> QED
    BY <2>3, <2>4, <2>5
<1>2. ASSUME NEW s \in Streams
      PROVE  /\ Value(s, "Owner", "Global") = <<mObjectID>>
             /\ s = mInputStreamObjectID <=> Value(s, "Direction", "Global") = <<1>>
  <2>1. Value(s, "Owner", "Global") = <<mObjectID>>
    BY StreamWord
  <2>2. Value(s, "Direction", "Global") = <<IF s = mInputStreamObjectID THEN 1 ELSE 0>>
    BY StreamWord
  <2> QED
    BY <2>1, <2>2
<1>3. ChannelsOf(mOutputStreamObjectID) \cap ChannelsOf(mOutputStreamObjectID2) = {}
  <2>1. Value(mOutputStreamObjectID, "StartingChannel", "Global") = <<1>>
    BY StreamWord
  <2>2. Value(mOutputStreamObjectID2, "StartingChannel", "Global") = <<3>>
    BY StreamWord
  <2> QED
    BY <2>1, <2>2 DEF ChannelsOf, ChannelsPerStream
<1> QED
  BY <1>1, <1>2, <1>3 DEF StreamsFitTogether

\* The four tables of every object agree on every property it has, as far as
\* existence, settability and sizes go, and the streams the device lists are one
\* tree: in every state, since nothing but the length of the device list and the
\* values themselves depends on the state.  It does not say that a value is the
\* right one, or is written at all: TranslateUIDToDevice's is not.
THEOREM TablesAlwaysAgree == Spec => []TablesAgree
<1>1. ASSUME TypeOK PROVE TablesAgree
  <2>1. deviceList \in Seq({0, mObjectID})
    BY <1>1 DEF TypeOK
  <2>2. ASSUME NEW id \in ObjectIDs, NEW sel \in Selectors, NEW scope \in Scopes,
               HasProperty(id, sel, scope)
        PROVE  Agree(id, sel, scope)
    <3>1. AgreesOn(id, sel, scope)
      <4>1. CASE id = kAudioObjectPlugInObject
        BY <2>1, <2>2, <4>1, PlugInAgrees DEF HasProperty
      <4>2. CASE id = mObjectID
        BY <2>2, <4>2, DeviceAgrees DEF HasProperty
      <4>3. CASE id \in Streams
        BY <2>2, <4>3, StreamAgrees DEF HasProperty
      <4> QED
        BY <4>1, <4>2, <4>3
    <3> DEFINE size == GetPropertyDataSize(id, sel, scope, Len(deviceList))
    <3>2. /\ size \in Nat
          /\ \A room \in Nat : room >= size =>
               Exact(GetPropertyData(id, sel, scope, room, TRUE, State), sel, size)
      BY <3>1 DEF AgreesOn
    <3>3. \A room \in {size, size + 64} :
            Exact(GetPropertyData(id, sel, scope, room, TRUE, State), sel, size)
      <4> HIDE DEF size
      <4>1. \A room \in {size, size + 64} : room \in Nat /\ room >= size
        BY <3>2
      <4> QED
        BY <3>2, <4>1
    <3> QED
      BY <3>1, <3>3 DEF Agree, AgreesOn, Exact
  <2> QED
    BY <2>2, TreeFits DEF TablesAgree, SizesAgree
<1> QED
  BY <1>1, TypeCorrect, PTL

=============================================================================
