--------------------------- MODULE BackendsProofs ---------------------------
(****************************************************************************)
(* Proofs about Backends, for any gear, machines, systems and interfaces.   *)
(*                                                                          *)
(* Two invariants are kept apart because they need nothing of each other:   *)
(* IInv is about the engine, its stream and the library, DInv about the     *)
(* devices that are listed, chosen and opened.                              *)
(****************************************************************************)
EXTENDS Backends, FiniteSetTheorems, SequenceTheorems, WellFoundedInduction, TLAPS

(****************************************************************************)
(* The engine, its stream and the library.                                  *)
(****************************************************************************)

\* The engine thread has a place and a side, whatever they are.
EngineType == engine = [at |-> engine.at, side |-> engine.side]

\* A stream is open only between its opening and its close.
StreamHeld == stream # None => engine.at \in {"loop", "close"}

\* A stream of PortAudio needs the library.
StreamInLibrary == stream # None /\ stream.api = "pa" => paCount = 1

\* The table is there only while the library is initialized, once.
TableHeld == paCount \in Int /\ (paCount # 1 => paTable = << >>)

IInv == EngineType /\ StreamHeld /\ StreamInLibrary /\ TableHeld

----------------------------------------------------------------------------
LEMMA InitIInv == Init => IInv
BY DEF Init, IInv, EngineType, NoEngine, StreamHeld, StreamInLibrary, TableHeld

\* Steps of the engine's place and of nothing else that IInv speaks of.
LEMMA EngineMoves ==
  ASSUME IInv, UNCHANGED <<library, stream>>,
         \/ UNCHANGED engine
         \/ /\ EngineType'
            /\ engine.at \in {"loop", "close"} => engine'.at \in {"loop", "close"}
  PROVE  IInv'
BY DEF IInv, EngineType, StreamHeld, StreamInLibrary, TableHeld, library

LEMMA ToPlace ==
  ASSUME EngineType, NEW p, EngineTo(p)
  PROVE  EngineType' /\ engine'.at = p
BY DEF EngineType, EngineTo

\* The interface's thread starts an engine only when there is none.
LEMMA UiIInv == IInv /\ UiStep => IInv'
<1> SUFFICES ASSUME IInv, UiStep PROVE IInv'
  OBVIOUS
<1>1. CASE Construct
  <2>1. UNCHANGED <<engine, stream>> /\ (UNCHANGED library \/ paCount' = 1)
    BY <1>1 DEF Construct, Constructed
  <2> QED
    BY <2>1 DEF IInv, EngineType, StreamHeld, StreamInLibrary, TableHeld, library
<1>2. CASE Destroy
  <2>1. CASE UNCHANGED <<library, stream, engine>>
    BY <2>1, EngineMoves
  <2>2. CASE /\ paCount' = paCount - 1 /\ paTable' = Terminated /\ UNCHANGED engine
             /\ stream' = IF stream # None /\ stream.api = "pa" THEN None ELSE stream
    <3>1. TableHeld'
      BY <2>2 DEF IInv, TableHeld, Terminated
    <3>2. StreamInLibrary' /\ StreamHeld' /\ EngineType'
      BY <2>2 DEF IInv, EngineType, StreamHeld, StreamInLibrary
    <3> QED
      BY <3>1, <3>2 DEF IInv
  <2> QED
    BY <1>2, <2>1, <2>2 DEF Destroy
<1>3. CASE Joined \/ \E s \in Sides : Start(s)
  <2>1. /\ UNCHANGED <<library, stream>>
        /\ \/ UNCHANGED engine
           \/ engine.at = "none" /\ \E s : engine' = [at |-> "start", side |-> s]
    BY <1>3 DEF Joined, Start, StartEngine
  <2>2. UNCHANGED engine \/ EngineType'
    BY <2>1 DEF EngineType
  <2> QED
    BY <2>1, <2>2, EngineMoves
<1>4. CASE \/ StartDaemon \/ Destroyed \/ Stop \/ SetShowRecordDevices \/ GetDevices("ui")
           \/ EndSide \/ SwapDevice
           \/ PickNothing \/ \E i \in DOMAIN call["ui"].got : Pick(i)
           \/ \E s \in Sides, f \in Interfaces : AskDevices(s, f)
  <2>1. UNCHANGED <<engine, stream>>
    BY <1>4 DEF StartDaemon, Destroyed, Stop, EndSide, SwapDevice, SetShowRecordDevices,
                GetDevices, ListDevices, CreateEnumerator, UseEnumerator, ReleaseEnumerator,
                PickNothing, Pick, AskDevices
  <2>2. UNCHANGED library
    BY <1>4 DEF StartDaemon, Destroyed, Stop, EndSide, SwapDevice, SetShowRecordDevices,
                GetDevices, ListDevices, CreateEnumerator, UseEnumerator, ReleaseEnumerator,
                PickNothing, Pick, AskDevices
  <2> QED
    BY <2>1, <2>2, EngineMoves
<1> QED
  BY <1>1, <1>2, <1>3, <1>4 DEF UiStep

----------------------------------------------------------------------------
\* The engine thread opens at "open" or "select" and ends without a stream.
LEMMA EngineIInv == IInv /\ EngineStep => IInv'
<1> SUFFICES ASSUME IInv, EngineStep PROVE IInv'
  OBVIOUS
<1> USE DEF EngineAt
<1>0. EngineType
  BY DEF IInv
<1>1. CASE \/ Begin \/ TakeDefault \/ Publish \/ PureCall \/ BasePlayback \/ TestType
           \/ DanglingRead \/ OpenWasapi \/ NoIdentifier \/ SilentEnds
  <2>1. UNCHANGED <<library, stream>> /\ engine.at \notin {"loop", "close"}
    BY <1>1 DEF Begin, TakeDefault, Publish, PureCall, BasePlayback, TestType, DanglingRead,
                OpenWasapi, NoIdentifier, Reads, SilentEnds
  <2>2. UNCHANGED engine \/ engine' = NoEngine \/ \E p : EngineTo(p)
    BY <1>1 DEF Begin, TakeDefault, Publish, PureCall, BasePlayback, TestType, DanglingRead,
                OpenWasapi, NoIdentifier, SilentEnds, EngineEnds
  <2>3. UNCHANGED engine \/ EngineType'
    BY <1>0, <2>2, ToPlace DEF EngineType, NoEngine
  <2> QED
    BY <2>1, <2>3, EngineMoves
<1>2. CASE GetDevices("engine") \/ NoDefault \/ LoopFails
  <2>1. UNCHANGED <<engine, stream>>
    BY <1>2 DEF GetDevices, ListDevices, CreateEnumerator, UseEnumerator, ReleaseEnumerator,
                NoDefault, LoopFails
  <2>2. UNCHANGED library
    BY <1>2 DEF GetDevices, ListDevices, CreateEnumerator, UseEnumerator, ReleaseEnumerator,
                NoDefault, LoopFails
  <2> QED
    BY <2>1, <2>2, EngineMoves
<1>3. CASE SelectWasapi
  <2>1. UNCHANGED library
    BY <1>3 DEF SelectWasapi
  <2>2. CASE UNCHANGED <<engine, stream>>
    BY <2>1, <2>2, EngineMoves
  <2>3. ASSUME NEW g, Opened(g, "wasapi") PROVE IInv'
    <3>1. stream'.api = "wasapi" /\ EngineType' /\ engine'.at = "loop"
      BY <1>0, <2>3, ToPlace DEF Opened
    <3> QED
      BY <2>1, <3>1 DEF IInv, StreamHeld, StreamInLibrary, TableHeld, library
  <2> QED
    BY <1>3, <2>2, <2>3 DEF SelectWasapi
<1>4. CASE OpenStream
  <2> DEFINE d == active[engine.side]
  <2>1. UNCHANGED library
    BY <1>4 DEF OpenStream
  <2>2. CASE UNCHANGED <<engine, stream>>
    BY <2>1, <2>2, EngineMoves
  <2>3. CASE Opened(Found(d), "pulse")
    <3>1. stream'.api = "pulse" /\ EngineType' /\ engine'.at = "loop"
      BY <1>0, <2>3, ToPlace DEF Opened
    <3> QED
      BY <2>1, <3>1 DEF IInv, StreamHeld, StreamInLibrary, TableHeld, library
  <2>4. CASE ~ByPulse /\ Found(d) # None /\ Opened(Found(d), "pa")
    <3>1. d.pa \in DOMAIN paTable
      BY <1>4, <2>4 DEF OpenStream, Found
    <3>2. paCount = 1
      BY <3>1 DEF IInv, TableHeld
    <3>3. EngineType' /\ engine'.at = "loop"
      BY <1>0, <2>4, ToPlace DEF Opened
    <3> QED
      BY <2>1, <3>2, <3>3 DEF IInv, StreamHeld, StreamInLibrary, TableHeld, library
  <2> QED
    BY <1>4, <2>2, <2>3, <2>4 DEF OpenStream
<1>5. CASE LoopEnds
  <2>1. EngineType' /\ engine'.at = "close" /\ UNCHANGED <<library, stream>>
    BY <1>0, <1>5, ToPlace DEF LoopEnds
  <2> QED
    BY <2>1, EngineMoves
<1>6. CASE Close
  <2>1. stream' = None /\ UNCHANGED library /\ (UNCHANGED engine \/ engine' = NoEngine)
    BY <1>6 DEF Close, EngineEnds
  <2>2. EngineType'
    BY <1>0, <2>1 DEF EngineType, NoEngine
  <2> QED
    BY <2>1, <2>2 DEF IInv, StreamHeld, StreamInLibrary, TableHeld, library
<1> QED
  BY <1>1, <1>2, <1>3, <1>4, <1>5, <1>6 DEF EngineStep

LEMMA NextIInv == IInv /\ [Next]_vars => IInv'
<1> SUFFICES ASSUME IInv, [Next]_vars PROVE IInv'
  OBVIOUS
<1>1. CASE DaemonDies \/ \E g \in Gear : Plug(g) \/ Unplug(g)
  <2>1. UNCHANGED <<library, stream, engine>>
    BY <1>1 DEF DaemonDies, Plug, Unplug
  <2> QED
    BY <2>1, EngineMoves
<1>2. CASE UNCHANGED vars
  BY <1>2, EngineMoves DEF vars
<1> QED
  BY <1>1, <1>2, UiIInv, EngineIInv DEF Next

\* The inductive invariant holds in every reachable state.
THEOREM Invariance == Spec => []IInv
<1> QED
  BY InitIInv, NextIInv, PTL DEF Spec

\* On every system, with any gear that is plugged or unplugged at any time, no
\* stream outlives the thread that opened it or the PortAudio session it was
\* opened in (the capture and playback loops and the destructors of src/audio).
THEOREM StreamsOwned == Spec => []OwnedStreams
<1>1. IInv => OwnedStreams
  BY DEF IInv, StreamHeld, StreamInLibrary, OwnedStreams
<1> QED
  BY <1>1, Invariance, PTL

----------------------------------------------------------------------------
(****************************************************************************)
(* Part, the operator the lists are made of.                                *)
(****************************************************************************)

\* A set of natural numbers has a least one.
LEMMA LeastNumber ==
  ASSUME NEW T \in SUBSET Nat, T # {}
  PROVE  \E m \in T : \A n \in T : m <= n
<1>1. \E x \in T : \A y \in T : ~(<<y, x>> \in OpToRel(<, Nat))
  BY NatLessThanWellFounded, WFMin
<1>2. \A x, y \in Nat : <<y, x>> \in OpToRel(<, Nat) <=> y < x
  BY Zenon DEF OpToRel
<1>3. \E x \in T : \A y \in T : ~(y < x)
  BY <1>1, <1>2, Zenon
<1> QED
  BY <1>3

\* A set of indices has a k-th one: the least that has k of them up to it.
LEMMA NthExists ==
  ASSUME NEW n \in Nat, NEW S, \A j \in S : j \in Nat /\ 1 <= j /\ j <= n,
         NEW k, k \in 1 .. Cardinality(S)
  PROVE  Nth(S, k) \in S
<1> DEFINE Upto(i) == {j \in S : j <= i}
           T == {i \in Nat : Cardinality(Upto(i)) >= k}
<1>1. IsFiniteSet(S) /\ Cardinality(S) \in Nat
  <2>1. S \in SUBSET (1 .. n)
    OBVIOUS
  <2>2. IsFiniteSet(1 .. n)
    BY FS_Interval
  <2> QED
    BY <2>1, <2>2, FS_Subset, FS_CardinalityType
<1>2. \A i \in Nat : IsFiniteSet(Upto(i)) /\ Cardinality(Upto(i)) \in Nat
  <2>1. \A i \in Nat : Upto(i) \in SUBSET S
    OBVIOUS
  <2> QED
    BY <1>1, <2>1, FS_Subset, FS_CardinalityType
<1>3. n \in T
  <2>1. Upto(n) = S
    OBVIOUS
  <2> QED
    BY <1>1, <2>1
<1>4. PICK m \in T : \A i \in T : m <= i
  BY <1>3, LeastNumber
<1>5. m # 0
  <2>1. Upto(0) = {}
    OBVIOUS
  <2>2. Cardinality(Upto(0)) = 0
    BY <2>1, FS_EmptySet
  <2>3. 0 \notin T
    BY <1>1, <2>2
  <2> QED
    BY <1>4, <2>3
<1>6. m - 1 \in Nat /\ Cardinality(Upto(m - 1)) < k
  <2>1. m \in Nat /\ m - 1 \in Nat
    BY <1>4, <1>5
  <2>2. m - 1 \notin T
    BY <1>4, <2>1
  <2>3. Cardinality(Upto(m - 1)) \in Nat
    BY <1>2, <2>1
  <2> HIDE DEF Upto
  <2> QED
    BY <1>1, <2>1, <2>2, <2>3
<1>7. m \in S
  <2>1. SUFFICES ASSUME m \notin S PROVE FALSE
    OBVIOUS
  <2>2. Upto(m) = Upto(m - 1)
    BY <1>4, <2>1
  <2>3. Cardinality(Upto(m)) >= k
    BY <1>4
  <2>4. Cardinality(Upto(m - 1)) \in Nat
    BY <1>2, <1>6
  <2> HIDE DEF Upto
  <2> QED
    BY <1>1, <1>6, <2>2, <2>3, <2>4
<1>8. Cardinality(Upto(m)) = Cardinality(Upto(m - 1)) + 1
  <2>0. \A j \in S : j <= m <=> j <= m - 1 \/ j = m
    BY <1>4
  <2>1. Upto(m) = Upto(m - 1) \cup {m} /\ m \notin Upto(m - 1)
    <3>1. \A j : j \in Upto(m) <=> j \in Upto(m - 1) \cup {m}
      BY <1>7, <2>0
    <3>2. m \notin Upto(m - 1)
      BY <1>4
    <3> HIDE DEF Upto
    <3> QED
      BY <3>1, <3>2
  <2>2. IsFiniteSet(Upto(m - 1))
    BY <1>2, <1>6
  <2> HIDE DEF Upto
  <2> QED
    BY <2>1, <2>2, FS_AddElement
<1>9. Cardinality(Upto(m)) = k
  <2>1. Cardinality(Upto(m)) >= k
    BY <1>4
  <2>2. Cardinality(Upto(m - 1)) \in Nat
    BY <1>2, <1>6
  <2> HIDE DEF Upto
  <2> QED
    BY <1>1, <1>6, <1>8, <2>1, <2>2
<1> QED
  BY <1>7, <1>9 DEF Nth

\* A part of a sequence is a sequence of its elements.
LEMMA PartOf ==
  ASSUME NEW X, NEW s \in Seq(X), NEW S \in SUBSET (DOMAIN s)
  PROVE  /\ Part(s, S) \in Seq(X)
         /\ \A k \in DOMAIN Part(s, S) : Nth(S, k) \in S /\ Part(s, S)[k] = s[Nth(S, k)]
<1>1. Len(s) \in Nat /\ DOMAIN s = 1 .. Len(s)
  OBVIOUS
<1>2. Cardinality(S) \in Nat
  <2>1. S \in SUBSET (1 .. Len(s)) /\ IsFiniteSet(1 .. Len(s))
    BY <1>1, FS_Interval
  <2> QED
    BY <2>1, FS_Subset, FS_CardinalityType
<1>3. \A k \in 1 .. Cardinality(S) : Nth(S, k) \in S
  BY <1>1, NthExists
<1>4. \A k \in 1 .. Cardinality(S) : s[Nth(S, k)] \in X
  BY <1>1, <1>3
<1> QED
  BY <1>2, <1>3, <1>4 DEF Part

----------------------------------------------------------------------------
(****************************************************************************)
(* The lists.                                                               *)
(****************************************************************************)
Names == Gear \cup ({"render", "pa", "Monitor of"} \X Gear)
Device == [gear : Gear, name : Names, type : SUBSET Types, pa : Int, sys : Gear \cup {None}]

\* What a device is good for: its identifiers lead to the gear of its name or
\* to none.  PulseAudio's have one type.
SoundIn(system, table, d) ==
  /\ d \in Device /\ d.sys \in {d.gear, None}
  /\ d.pa \in DOMAIN table => table[d.pa] = d.gear
  /\ system = "Linux" => \E k \in Types : d.type = {k}

Sound(d) == SoundIn(platform, paTable, d)

SoundList(s) == s \in Seq(Device) /\ \A i \in DOMAIN s : Sound(s[i])

\* The machine and the library's table, which is there only in a session.
Systems ==
  /\ platform \in {"Windows", "OSX", "Linux"} /\ show \in BOOLEAN
  /\ plugged \in Seq(Gear) /\ paTable \in Seq(Gear)
  /\ paCount # 1 => paTable = << >>

LEMMA EntryType ==
  ASSUME NEW g \in Gear, NEW name \in Names, NEW type \in SUBSET Types, NEW pa \in Int,
         NEW sys \in {g, None}
  PROVE  /\ Entry(g, name, type, pa, sys) \in Device
         /\ Entry(g, name, type, pa, sys).sys \in {Entry(g, name, type, pa, sys).gear, None}
         /\ Entry(g, name, type, pa, sys).gear = g
         /\ Entry(g, name, type, pa, sys).name = name
         /\ Entry(g, name, type, pa, sys).type = type
         /\ Entry(g, name, type, pa, sys).pa = pa
BY DEF Entry, Device

LEMMA CapableType == \A g : Capable(g) \in SUBSET Types
BY DEF Capable, Types

\* A list that is built index by index.
LEMMA ListOf ==
  ASSUME NEW s \in Seq(Gear), NEW l, DOMAIN l = DOMAIN s, l = [i \in DOMAIN s |-> l[i]],
         \A i \in DOMAIN s : Sound(l[i])
  PROVE  SoundList(l)
<1>1. Len(s) \in Nat /\ DOMAIN s = 1 .. Len(s)
  OBVIOUS
<1>2. \A i \in 1 .. Len(s) : l[i] \in Device
  BY <1>1 DEF Sound, SoundIn
<1>3. l \in Seq(Device)
  BY <1>1, <1>2
<1> QED
  BY <1>3 DEF SoundList

LEMMA PartSound ==
  ASSUME NEW s, SoundList(s), NEW S \in SUBSET (DOMAIN s)
  PROVE  SoundList(Part(s, S))
BY PartOf DEF SoundList

LEMMA ConcatSound ==
  ASSUME NEW s, NEW t, SoundList(s), SoundList(t)
  PROVE  SoundList(s \o t)
<1>1. /\ s \in Seq(Device) /\ t \in Seq(Device)
      /\ \A i \in 1 .. Len(s) : Sound(s[i])
      /\ \A i \in 1 .. Len(t) : Sound(t[i])
  BY DEF SoundList
<1>2. /\ s \o t \in Seq(Device) /\ Len(s \o t) = Len(s) + Len(t)
      /\ \A i \in 1 .. Len(s) + Len(t) :
            (s \o t)[i] = IF i <= Len(s) THEN s[i] ELSE t[i - Len(s)]
  BY <1>1, ConcatProperties
<1>3. ASSUME NEW i \in 1 .. Len(s) + Len(t) PROVE Sound((s \o t)[i])
  <2>1. Len(s) \in Nat /\ Len(t) \in Nat
    BY <1>1
  <2>2. CASE i <= Len(s)
    BY <1>1, <1>2, <2>1, <2>2
  <2>3. CASE ~(i <= Len(s))
    <3>1. i - Len(s) \in 1 .. Len(t)
      BY <2>1, <2>3
    <3> QED
      BY <1>1, <1>2, <2>3, <3>1
  <2> QED
    BY <2>2, <2>3
<1>4. DOMAIN (s \o t) = 1 .. Len(s) + Len(t)
  BY <1>2
<1> QED
  BY <1>2, <1>3, <1>4 DEF SoundList

LEMMA NoList == SoundList(<< >>)
BY DEF SoundList

LEMMA PluggedSide == Systems => \A side : Plugged(side) \in Seq(Gear)
<1> SUFFICES ASSUME Systems, NEW side PROVE Plugged(side) \in Seq(Gear)
  OBVIOUS
<1>1. plugged \in Seq(Gear)
  BY DEF Systems
<1>2. {i \in DOMAIN plugged : side \in Does[plugged[i]]} \in SUBSET (DOMAIN plugged)
  OBVIOUS
<1> QED
  BY <1>1, <1>2, PartOf DEF Plugged

\* An element of a sequence of gear is gear.
LEMMA GearAt == \A s \in Seq(Gear) : \A i \in DOMAIN s : s[i] \in Gear /\ i \in Int /\ i >= 1
OBVIOUS

LEMMA NamesOfGear ==
  \A g \in Gear : /\ g \in Names /\ <<"render", g>> \in Names
                  /\ <<"pa", g>> \in Names /\ <<"Monitor of", g>> \in Names
BY DEF Names

LEMMA SoundEntry ==
  ASSUME NEW g \in Gear, NEW name \in Names, NEW type \in SUBSET Types, NEW pa \in Int,
         NEW sys \in {g, None},
         pa \in DOMAIN paTable => paTable[pa] = g,
         platform = "Linux" => \E k \in Types : type = {k}
  PROVE  Sound(Entry(g, name, type, pa, sys))
<1> DEFINE d == Entry(g, name, type, pa, sys)
<1>1. /\ d \in Device /\ d.sys \in {d.gear, None}
      /\ d.gear = g /\ d.type = type /\ d.pa = pa
  BY EntryType
<1> HIDE DEF d
<1>2. d.pa \in DOMAIN paTable => paTable[d.pa] = d.gear
  BY <1>1
<1>3. platform = "Linux" => \E k \in Types : d.type = {k}
  BY <1>1
<1>4. Sound(d)
  BY <1>1, <1>2, <1>3, Zenon DEF Sound, SoundIn
<1> QED
  BY <1>4 DEF d

\* -1 is no index of the table.
LEMMA NoIndex == Systems => -1 \notin DOMAIN paTable
<1> SUFFICES ASSUME Systems PROVE -1 \notin DOMAIN paTable
  OBVIOUS
<1>1. paTable \in Seq(Gear)
  BY DEF Systems
<1> QED
  BY <1>1, GearAt

LEMMA WasapiSound == Systems /\ platform = "Windows" => SoundList(WasapiDevices)
<1> SUFFICES ASSUME Systems, platform = "Windows" PROVE SoundList(WasapiDevices)
  OBVIOUS
<1> DEFINE outs == Plugged("out")
           l == [i \in DOMAIN outs |-> Entry(outs[i], <<"render", outs[i]>>,
                                              {"LOOPBACK", "PLAYBACK"}, -1, outs[i])]
<1>1. outs \in Seq(Gear)
  BY PluggedSide
<1>2. ASSUME NEW i \in DOMAIN outs PROVE Sound(l[i])
  <2>1. outs[i] \in Gear /\ <<"render", outs[i]>> \in Names
    BY <1>1, GearAt, NamesOfGear
  <2>2. {"LOOPBACK", "PLAYBACK"} \in SUBSET Types
    BY DEF Types
  <2>3. l[i] = Entry(outs[i], <<"render", outs[i]>>, {"LOOPBACK", "PLAYBACK"}, -1, outs[i])
    OBVIOUS
  <2> HIDE DEF outs, l
  <2> QED
    BY <2>1, <2>2, <2>3, SoundEntry, NoIndex
<1>3. DOMAIN l = DOMAIN outs /\ l = [i \in DOMAIN outs |-> l[i]]
  OBVIOUS
<1>4. SoundList(l)
  <2> HIDE DEF outs, l
  <2> QED
    BY <1>1, <1>2, <1>3, ListOf
<1> QED
  BY <1>4 DEF WasapiDevices

\* PortAudio's table, which is the one that an index will be looked up in, or
\* there is none.
LEMMA SnapshotIsTable ==
  Systems => /\ Snapshot \in Seq(Gear)
             /\ \A i \in DOMAIN Snapshot : i \in DOMAIN paTable => paTable[i] = Snapshot[i]
<1> SUFFICES ASSUME Systems
             PROVE  /\ Snapshot \in Seq(Gear)
                    /\ \A i \in DOMAIN Snapshot : i \in DOMAIN paTable => paTable[i] = Snapshot[i]
  OBVIOUS
<1>1. CASE paCount = 0
  <2>1. DOMAIN paTable = {} /\ Snapshot = plugged
    BY <1>1 DEF Systems, Snapshot
  <2> QED
    BY <2>1 DEF Systems
<1>2. CASE paCount # 0
  BY <1>2 DEF Systems, Snapshot
<1> QED
  BY <1>1, <1>2

WindowsPaAll(req) ==
  [i \in DOMAIN Snapshot |->
     Entry(Snapshot[i], <<"pa", Snapshot[i]>>, Capable(Snapshot[i]) \cap req, i, None)]

LEMMA WindowsPaAllSound ==
  ASSUME Systems, platform = "Windows", NEW req PROVE SoundList(WindowsPaAll(req))
<1> DEFINE t == Snapshot
           l == WindowsPaAll(req)
<1>1. t \in Seq(Gear) /\ \A i \in DOMAIN t : i \in DOMAIN paTable => paTable[i] = t[i]
  BY SnapshotIsTable
<1>2. ASSUME NEW i \in DOMAIN t PROVE Sound(l[i])
  <2>0. t[i] \in Gear /\ i \in Int /\ i # -1
    BY <1>1, GearAt
  <2>1. <<"pa", t[i]>> \in Names
    BY <2>0, NamesOfGear
  <2>2. Capable(t[i]) \cap req \in SUBSET Types
    BY CapableType
  <2>3. l[i] = Entry(t[i], <<"pa", t[i]>>, Capable(t[i]) \cap req, i, None)
    BY DEF WindowsPaAll
  <2> HIDE DEF t, l
  <2> QED
    BY <1>1, <2>0, <2>1, <2>2, <2>3, SoundEntry
<1>3. DOMAIN l = DOMAIN t /\ l = [i \in DOMAIN t |-> l[i]]
  BY DEF WindowsPaAll
<1> HIDE DEF t, l
<1>4. SoundList(l)
  BY <1>1, <1>2, <1>3, ListOf
<1> QED
  BY <1>4 DEF l

LEMMA WindowsPaSound ==
  ASSUME Systems, platform = "Windows", NEW req PROVE SoundList(WindowsPaDevices(req))
<1> DEFINE l == WindowsPaAll(req)
           S == {i \in DOMAIN Snapshot : l[i].type # {} /\ ~(OnlyRecords(l[i]) /\ ~show)}
<1>1. SoundList(l)
  BY WindowsPaAllSound
<1>2. S \in SUBSET (DOMAIN l) /\ WindowsPaDevices(req) = Part(l, S)
  BY DEF WindowsPaAll, WindowsPaDevices
<1> HIDE DEF l, S
<1> QED
  BY <1>1, <1>2, PartSound

LEMMA WindowsSound ==
  ASSUME Systems, platform = "Windows", NEW req PROVE SoundList(WindowsDevices(req))
BY WasapiSound, WindowsPaSound, NoList, ConcatSound DEF WindowsDevices

LEMMA OsxSound ==
  ASSUME Systems, platform = "OSX", NEW req PROVE SoundList(OsxDevices(req))
<1> DEFINE TypeOf(g) == IF g \in Own THEN {"LOOPBACK"} ELSE Capable(g)
           l == [i \in DOMAIN paTable |->
                   Entry(paTable[i], paTable[i], TypeOf(paTable[i]), i, None)]
           S == {i \in DOMAIN paTable :
                   l[i].type \cap req # {} /\ ~(OnlyRecords(l[i]) /\ ~show)}
<1>1. paTable \in Seq(Gear)
  BY DEF Systems
<1>2. ASSUME NEW i \in DOMAIN paTable PROVE Sound(l[i])
  <2>1. paTable[i] \in Gear /\ i \in Int /\ i # -1
    BY <1>1, GearAt
  <2>2. paTable[i] \in Names
    BY <2>1, NamesOfGear
  <2>3. TypeOf(paTable[i]) \in SUBSET Types
    BY CapableType DEF Types
  <2>4. l[i] = Entry(paTable[i], paTable[i], TypeOf(paTable[i]), i, None)
    OBVIOUS
  <2> HIDE DEF TypeOf, l
  <2> QED
    BY <2>1, <2>2, <2>3, <2>4, SoundEntry
<1>3. DOMAIN l = DOMAIN paTable /\ l = [i \in DOMAIN paTable |-> l[i]]
  OBVIOUS
<1>4. SoundList(l)
  <2> HIDE DEF TypeOf, l
  <2> QED
    BY <1>1, <1>2, <1>3, ListOf
<1>5. S \in SUBSET (DOMAIN l) /\ OsxDevices(req) = Part(l, S)
  BY DEF OsxDevices
<1> HIDE DEF l, S
<1> QED
  BY <1>4, <1>5, PartSound

\* A list of PulseAudio names the gear itself.
LEMMA PulseListOf ==
  ASSUME Systems, platform = "Linux", NEW s \in Seq(Gear),
         NEW type \in SUBSET Types, \E k \in Types : type = {k},
         NEW n, \A i \in DOMAIN s : n[i] \in Names
  PROVE  SoundList([i \in DOMAIN s |-> Entry(s[i], n[i], type, -1, s[i])])
<1> DEFINE l == [i \in DOMAIN s |-> Entry(s[i], n[i], type, -1, s[i])]
<1>1. ASSUME NEW i \in DOMAIN s PROVE Sound(l[i])
  <2>1. s[i] \in Gear /\ l[i] = Entry(s[i], n[i], type, -1, s[i])
    BY GearAt
  <2> HIDE DEF l
  <2> QED
    BY <2>1, SoundEntry, NoIndex
<1>2. DOMAIN l = DOMAIN s /\ l = [i \in DOMAIN s |-> l[i]]
  OBVIOUS
<1>3. SoundList(l)
  <2> HIDE DEF l
  <2> QED
    BY <1>1, <1>2, ListOf
<1> QED
  BY <1>3

LEMMA PulseSound == Systems /\ platform = "Linux" => SoundList(PulseDevices)
<1> SUFFICES ASSUME Systems, platform = "Linux" PROVE SoundList(PulseDevices)
  OBVIOUS
<1> DEFINE outs == Plugged("out")
           ins == Plugged("in")
           monitors == [i \in DOMAIN outs |-> <<"Monitor of", outs[i]>>]
<1>1. outs \in Seq(Gear) /\ ins \in Seq(Gear)
  BY PluggedSide
<1>2. /\ \A i \in DOMAIN outs : outs[i] \in Names /\ monitors[i] \in Names
      /\ \A i \in DOMAIN ins : ins[i] \in Names
  <2>1. \A i \in DOMAIN outs : outs[i] \in Gear
    BY <1>1, GearAt
  <2>2. \A i \in DOMAIN ins : ins[i] \in Gear
    BY <1>1, GearAt
  <2> QED
    BY <2>1, <2>2, NamesOfGear
<1>3. /\ {"LOOPBACK"} \in SUBSET Types /\ {"RECORD"} \in SUBSET Types
      /\ {"PLAYBACK"} \in SUBSET Types
      /\ \E k \in Types : {"LOOPBACK"} = {k}
      /\ \E k \in Types : {"RECORD"} = {k}
      /\ \E k \in Types : {"PLAYBACK"} = {k}
  BY DEF Types
<1>4. [i \in DOMAIN outs |-> Entry(outs[i], <<"Monitor of", outs[i]>>, {"LOOPBACK"}, -1, outs[i])]
        = [i \in DOMAIN outs |-> Entry(outs[i], monitors[i], {"LOOPBACK"}, -1, outs[i])]
  OBVIOUS
<1> DEFINE a == [i \in DOMAIN outs |-> Entry(outs[i], monitors[i], {"LOOPBACK"}, -1, outs[i])]
           b == [i \in DOMAIN ins |-> Entry(ins[i], ins[i], {"RECORD"}, -1, ins[i])]
           c == [i \in DOMAIN outs |-> Entry(outs[i], outs[i], {"PLAYBACK"}, -1, outs[i])]
<1>5. PulseDevices = (a \o b) \o c
  BY <1>4 DEF PulseDevices
<1>6. SoundList(a) /\ SoundList(b) /\ SoundList(c)
  <2> HIDE DEF outs, ins, monitors
  <2>2. SoundList(a)
    BY <1>1, <1>2, <1>3, PulseListOf
  <2>3. SoundList(b)
    BY <1>1, <1>2, <1>3, PulseListOf
  <2>4. SoundList(c)
    BY <1>1, <1>2, <1>3, PulseListOf
  <2> QED
    BY <2>2, <2>3, <2>4
<1> HIDE DEF a, b, c
<1> QED
  BY <1>5, <1>6, ConcatSound

LEMMA LinuxSound ==
  ASSUME Systems, platform = "Linux", NEW req PROVE SoundList(LinuxDevices(req))
<1> DEFINE l == PulseDevices
           S == {i \in DOMAIN l : l[i].type \subseteq req /\ ~(OnlyRecords(l[i]) /\ ~show)}
<1>1. SoundList(l)
  BY PulseSound
<1>2. S \in SUBSET (DOMAIN l) /\ LinuxDevices(req) = Part(l, S)
  BY DEF LinuxDevices
<1> HIDE DEF l, S
<1> QED
  BY <1>1, <1>2, PartSound

\* Whatever is asked for, the devices that are listed are sound.
LEMMA ListsSound ==
  ASSUME Systems, NEW req PROVE SoundList(Devices(req))
<1>1. CASE platform = "Windows"
  BY <1>1, WindowsSound DEF Devices
<1>2. CASE platform = "OSX"
  BY <1>2, OsxSound DEF Devices
<1>3. CASE platform = "Linux"
  BY <1>3, LinuxSound DEF Devices
<1> QED
  BY <1>1, <1>2, <1>3 DEF Systems

----------------------------------------------------------------------------
(****************************************************************************)
(* The numbers of the command line.                                         *)
(****************************************************************************)
Printed == {"PLAYBACK", "LOOPBACK"}
NamesIn(s) == [i \in DOMAIN s |-> s[i].name]

LEMMA SameNames ==
  ASSUME NEW w \in Seq(Device), NEW s \in Seq(Device), NEW t \in Seq(Device),
         DOMAIN s = DOMAIN t, \A i \in DOMAIN s : s[i].name = t[i].name
  PROVE  NamesIn(w \o s) = NamesIn(w \o t)
<1>1. /\ Len(w) \in Nat /\ Len(s) \in Nat /\ Len(t) = Len(s)
      /\ \A i \in 1 .. Len(s) : s[i].name = t[i].name
  BY LenProperties
<1>2. /\ DOMAIN (w \o s) = 1 .. Len(w) + Len(s)
      /\ DOMAIN (w \o t) = 1 .. Len(w) + Len(s)
  <2>1. w \o s \in Seq(Device) /\ Len(w \o s) = Len(w) + Len(s)
    BY ConcatProperties
  <2>2. w \o t \in Seq(Device) /\ Len(w \o t) = Len(w) + Len(t)
    BY ConcatProperties
  <2> QED
    BY <1>1, <2>1, <2>2, LenProperties
<1>3. ASSUME NEW i \in 1 .. Len(w) + Len(s) PROVE (w \o s)[i].name = (w \o t)[i].name
  <2>1. /\ (w \o s)[i] = IF i <= Len(w) THEN w[i] ELSE s[i - Len(w)]
        /\ (w \o t)[i] = IF i <= Len(w) THEN w[i] ELSE t[i - Len(w)]
    BY <1>1, ConcatProperties
  <2>2. ~(i <= Len(w)) => i - Len(w) \in 1 .. Len(s)
    BY <1>1
  <2> QED
    BY <1>1, <2>1, <2>2
<1> QED
  BY <1>2, <1>3 DEF NamesIn

\* What a piece of gear can do beside recording does not depend on whether
\* recording is asked for.
LEMMA BesidesRecording ==
  \A g : (Capable(g) \cap Types # {} /\ Capable(g) \cap Types # {"RECORD"})
           <=> (Capable(g) \cap Printed # {} /\ Capable(g) \cap Printed # {"RECORD"})
BY DEF Capable, Types, Printed

LEMMA WindowsNamesAgree ==
  ASSUME Systems, platform = "Windows", ~show
  PROVE  NamesIn(WindowsDevices(Types)) = NamesIn(WindowsDevices(Printed))
<1> DEFINE l == WindowsPaAll(Types)
           m == WindowsPaAll(Printed)
           S == {i \in DOMAIN Snapshot : l[i].type # {} /\ l[i].type # {"RECORD"}}
           T == {i \in DOMAIN Snapshot : m[i].type # {} /\ m[i].type # {"RECORD"}}
<1>1. WindowsPaDevices(Types) = Part(l, S) /\ WindowsPaDevices(Printed) = Part(m, T)
  BY DEF WindowsPaDevices, WindowsPaAll, OnlyRecords
<1>2. ASSUME NEW i \in DOMAIN Snapshot
      PROVE  /\ l[i].name = m[i].name
             /\ l[i].type = Capable(Snapshot[i]) \cap Types
             /\ m[i].type = Capable(Snapshot[i]) \cap Printed
  BY DEF WindowsPaAll, Entry
<1>3. S = T
  <2>1. \A i \in DOMAIN Snapshot : i \in S <=> i \in T
    <3> SUFFICES ASSUME NEW i \in DOMAIN Snapshot PROVE i \in S <=> i \in T
      OBVIOUS
    <3>1. (l[i].type # {} /\ l[i].type # {"RECORD"})
             <=> (m[i].type # {} /\ m[i].type # {"RECORD"})
      <4> HIDE DEF l, m
      <4> QED
        BY <1>2, BesidesRecording
    <3> HIDE DEF l, m
    <3> QED
      BY <3>1
  <2> HIDE DEF l, m
  <2> QED
    BY <2>1
<1>4. SoundList(l) /\ SoundList(m) /\ SoundList(WasapiDevices)
  BY WindowsPaAllSound, WasapiSound
<1>5. S \in SUBSET (DOMAIN l) /\ S \in SUBSET (DOMAIN m) /\ S \subseteq DOMAIN Snapshot
  BY DEF WindowsPaAll
<1> HIDE DEF l, m, S, T
<1>6. DOMAIN Part(l, S) = DOMAIN Part(m, S)
  BY DEF Part
<1>7. \A k \in DOMAIN Part(l, S) : Part(l, S)[k].name = Part(m, S)[k].name
  <2> SUFFICES ASSUME NEW k \in DOMAIN Part(l, S)
               PROVE  Part(l, S)[k].name = Part(m, S)[k].name
    OBVIOUS
  <2>1. l \in Seq(Device) /\ m \in Seq(Device)
    BY <1>4 DEF SoundList
  <2>2. Nth(S, k) \in S /\ Part(l, S)[k] = l[Nth(S, k)]
    BY <1>5, <2>1, PartOf
  <2>3. Part(m, S)[k] = m[Nth(S, k)]
    BY <1>5, <1>6, <2>1, PartOf
  <2> QED
    BY <1>2, <1>5, <2>2, <2>3
<1>8. /\ Part(l, S) \in Seq(Device) /\ Part(m, S) \in Seq(Device)
      /\ WasapiDevices \in Seq(Device)
  BY <1>4, <1>5, PartOf DEF SoundList
<1>9. /\ WindowsDevices(Types) = WasapiDevices \o Part(l, S)
      /\ WindowsDevices(Printed) = WasapiDevices \o Part(m, S)
  <2>1. /\ "LOOPBACK" \in Types /\ "LOOPBACK" \in Printed
        /\ Types \cap {"RECORD", "PLAYBACK"} # {} /\ Printed \cap {"RECORD", "PLAYBACK"} # {}
    BY DEF Types, Printed
  <2> QED
    BY <1>1, <1>3, <2>1, Zenon DEF WindowsDevices
<1> QED
  BY <1>6, <1>7, <1>8, <1>9, SameNames

LEMMA OsxNamesAgree ==
  ASSUME ~show PROVE OsxDevices(Types) = OsxDevices(Printed)
<1> DEFINE TypeOf(g) == IF g \in Own THEN {"LOOPBACK"} ELSE Capable(g)
           l == [i \in DOMAIN paTable |->
                   Entry(paTable[i], paTable[i], TypeOf(paTable[i]), i, None)]
           S(req) == {i \in DOMAIN paTable : l[i].type \cap req # {} /\ l[i].type # {"RECORD"}}
<1>1. \A req : OsxDevices(req) = Part(l, S(req))
  BY DEF OsxDevices, OnlyRecords
<1>2. \A g : (TypeOf(g) \cap Types # {} /\ TypeOf(g) # {"RECORD"})
               <=> (TypeOf(g) \cap Printed # {} /\ TypeOf(g) # {"RECORD"})
  BY DEF Capable, Types, Printed
<1>3. \A i \in DOMAIN paTable : l[i].type = TypeOf(paTable[i])
  BY DEF Entry
<1>4. S(Types) = S(Printed)
  <2> HIDE DEF l, TypeOf
  <2> QED
    BY <1>2, <1>3
<1> QED
  BY <1>1, <1>4

LEMMA LinuxNamesAgree ==
  ASSUME Systems, platform = "Linux", ~show PROVE LinuxDevices(Types) = LinuxDevices(Printed)
<1> DEFINE l == PulseDevices
           S(req) == {i \in DOMAIN l : l[i].type \subseteq req /\ l[i].type # {"RECORD"}}
<1>1. \A req : LinuxDevices(req) = Part(l, S(req))
  BY DEF LinuxDevices, OnlyRecords
<1>2. \A i \in DOMAIN l : \E k \in Types : l[i].type = {k}
  BY PulseSound DEF SoundList, Sound, SoundIn
<1>3. \A k \in Types : ({k} \subseteq Types /\ {k} # {"RECORD"})
                         <=> ({k} \subseteq Printed /\ {k} # {"RECORD"})
  BY DEF Types, Printed
<1>4. S(Types) = S(Printed)
  <2> HIDE DEF l
  <2> QED
    BY <1>2, <1>3
<1> QED
  BY <1>1, <1>4

LEMMA ListsAgree == Systems => NumbersAgree
<1> SUFFICES ASSUME Systems PROVE NumbersAgree
  OBVIOUS
<1>1. NumbersAgree <=> NamesIn(Devices(Types)) = NamesIn(Devices(IF show THEN Types ELSE Printed))
  BY DEF NumbersAgree, NamesIn, Printed
<1>2. CASE show
  BY <1>1, <1>2
<1>3. CASE ~show
  <2>1. NumbersAgree <=> NamesIn(Devices(Types)) = NamesIn(Devices(Printed))
    BY <1>1, <1>3
  <2>2. CASE platform = "Windows"
    BY <1>3, <2>1, <2>2, WindowsNamesAgree DEF Devices
  <2>3. CASE platform = "OSX"
    BY <1>3, <2>1, <2>3, OsxNamesAgree DEF Devices
  <2>4. CASE platform = "Linux"
    BY <1>3, <2>1, <2>4, LinuxNamesAgree DEF Devices
  <2> QED
    BY <2>2, <2>3, <2>4 DEF Systems
<1> QED
  BY <1>2, <1>3

----------------------------------------------------------------------------
(****************************************************************************)
(* The devices that are listed, chosen and opened.                          *)
(****************************************************************************)
Opening == {"publish", "open", "late", "read", "select"}
EngineAts == {"none", "start", "default", "loop", "close", "silent"} \cup Opening
CallAts == {"idle", "list", "create", "use", "exit", "done", "threw"}
UiAts == {"constructor", "ready", "swap", "end", "join", "destructor", "gui", "cli"}
Place == [at : EngineAts, side : Sides]
Lists == [at : CallAts, req : SUBSET Types, got : Seq(Device)]
UiPlace == [at : UiAts, side : Sides, again : BOOLEAN, dev : Device \cup {None}]

Shapes ==
  /\ Systems /\ told \in BOOLEAN
  /\ call \in [Callers -> Lists]
  /\ ui \in UiPlace
  /\ engine \in Place
  /\ active \in [Sides -> Device \cup {None}]

\* Nothing is listed or chosen before the constructor has returned.
Beginning ==
  ui.at = "constructor" =>
    /\ active = [s \in Sides |-> None] /\ call = [c \in Callers |-> Idle]
    /\ engine.at = "none"

ListsHeld == \A c \in Callers : SoundList(call[c].got)
ActiveSound == \A s \in Sides : active[s] = None \/ Sound(active[s])

\* What is being opened has been chosen, and WASAPI only captures.
OpeningSound ==
  /\ engine.at \in Opening => Sound(active[engine.side])
  /\ engine.at = "select" => engine.side = "in"

\* So is what a switch of devices makes active.
SwapSound == ui.at = "swap" => Sound(ui.dev)

DInv == Shapes /\ Beginning /\ ListsHeld /\ ActiveSound /\ OpeningSound /\ SwapSound

LEMMA IdleType == Idle \in Lists
<1>1. {} \in SUBSET Types /\ << >> \in Seq(Device) /\ "idle" \in CallAts
  BY DEF CallAts
<1> QED
  BY <1>1 DEF Idle, Lists

LEMMA UiPlaceType ==
  \A p \in UiAts, s \in Sides, b \in BOOLEAN, d \in Device \cup {None} :
    [at |-> p, side |-> s, again |-> b, dev |-> d] \in UiPlace
BY DEF UiPlace

LEMMA NoEngineType == NoEngine \in Place
<1>1. "in" \in Sides /\ "none" \in EngineAts
  BY DEF Sides, EngineAts
<1> QED
  BY <1>1 DEF NoEngine, Place

LEMMA InitDInv == Init => DInv
<1> SUFFICES ASSUME Init PROVE DInv
  OBVIOUS
<1> USE DEF Init
<1>1. Systems
  BY GearKnown DEF Systems
<1>2. Idle \in Lists
  BY IdleType
<1>3. Shapes
  <2>1. call \in [Callers -> Lists]
    BY <1>2
  <2>2. ui \in UiPlace
    <3>1. ui = [at |-> "constructor", side |-> "in", again |-> FALSE, dev |-> None]
      BY DEF Resting
    <3> QED
      BY <3>1, UiPlaceType DEF Sides, UiAts
  <2>3. engine \in Place
    BY NoEngineType
  <2>4. active \in [Sides -> Device \cup {None}]
    OBVIOUS
  <2> QED
    BY <1>1, <2>1, <2>2, <2>3, <2>4 DEF Shapes
<1>4. Beginning /\ ActiveSound /\ OpeningSound /\ SwapSound
  BY DEF Beginning, ActiveSound, OpeningSound, Opening, SwapSound, NoEngine, Resting
<1>5. ListsHeld
  BY NoList DEF ListsHeld, Idle
<1> QED
  BY <1>3, <1>4, <1>5 DEF DInv

\* A device stays sound while the table stays or is dropped.
LEMMA SoundStays ==
  ASSUME platform' = platform, paTable' = paTable \/ paTable' = << >>
  PROVE  /\ \A d : SoundIn(platform, paTable, d) => SoundIn(platform', paTable', d)
         /\ \A s : SoundList(s) => s \in Seq(Device)
                      /\ \A i \in DOMAIN s : SoundIn(platform', paTable', s[i])
BY DEF SoundIn, SoundList, Sound

\* A step that keeps the system and its table, or drops the table, and leaves
\* sound devices wherever it leaves one.
LEMMA StepKeeps ==
  ASSUME DInv, Systems', platform' = platform, paTable' = paTable \/ paTable' = << >>,
         told' \in BOOLEAN, ui' \in UiPlace,
         ui'.at = "swap" => UNCHANGED ui \/ Sound(ui'.dev),
         ui'.at = "constructor" => ui.at = "constructor" /\ UNCHANGED <<active, call, engine>>,
         \/ UNCHANGED call
         \/ \E c \in Callers, r \in Lists : SoundList(r.got) /\ call' = [call EXCEPT ![c] = r],
         \/ UNCHANGED active
         \/ \E s \in Sides : \E d : Sound(d) /\ active' = [active EXCEPT ![s] = d],
         engine' \in Place,
         engine'.at \in Opening =>
           \/ engine.at \in Opening /\ engine'.side = engine.side
           \/ Sound(active'[engine'.side]),
         engine'.at = "select" => engine'.side = "in"
  PROVE  DInv'
<1> USE DEF DInv
<1>1. \A d : Sound(d) => SoundIn(platform', paTable', d)
  BY SoundStays DEF Sound
<1>2. call' \in [Callers -> Lists]
  BY DEF Shapes
<1>3. active' \in [Sides -> Device \cup {None}]
  BY DEF Shapes, Sound, SoundIn
<1>4. Shapes'
  BY <1>2, <1>3 DEF Shapes
<1>5. Beginning'
  BY DEF Beginning
<1>6. ListsHeld'
  <2> SUFFICES ASSUME NEW c \in Callers PROVE SoundList(call[c].got)'
    BY DEF ListsHeld
  <2>1. SoundList(call'[c].got)
    BY DEF ListsHeld, Shapes
  <2>2. /\ call'[c].got \in Seq(Device)
        /\ \A i \in DOMAIN call'[c].got : SoundIn(platform', paTable', call'[c].got[i])
    BY <2>1, SoundStays
  <2> QED
    BY <2>2 DEF SoundList, Sound
<1>7. \A s \in Sides : active'[s] = active[s] \/ Sound(active'[s])
  BY DEF Shapes
<1>8. ActiveSound'
  <2> SUFFICES ASSUME NEW s \in Sides PROVE (active[s] = None \/ Sound(active[s]))'
    BY DEF ActiveSound
  <2>1. active'[s] = None \/ Sound(active'[s])
    BY <1>7 DEF ActiveSound
  <2>2. active'[s] = None \/ SoundIn(platform', paTable', active'[s])
    BY <1>1, <2>1
  <2> QED
    BY <2>2 DEF Sound
<1>10. SwapSound'
  <2>1. ui'.at = "swap" => Sound(ui'.dev)
    BY DEF SwapSound
  <2> QED
    BY <1>1, <2>1 DEF SwapSound, Sound
<1>9. OpeningSound'
  <2>1. engine'.at \in Opening => Sound(active'[engine'.side])
    BY <1>7 DEF OpeningSound, Shapes, Place
  <2>2. engine'.at \in Opening => SoundIn(platform', paTable', active'[engine'.side])
    BY <1>1, <2>1
  <2> QED
    BY <2>2 DEF OpeningSound, Sound
<1> QED
  BY <1>4, <1>5, <1>6, <1>8, <1>9, <1>10

LEMMA ListAt ==
  ASSUME NEW r \in Lists, NEW p \in CallAts
  PROVE  [r EXCEPT !.at = p] \in Lists /\ [r EXCEPT !.at = p].got = r.got
BY DEF Lists

LEMMA ListGot ==
  ASSUME NEW r \in Lists, NEW p \in CallAts, NEW s \in Seq(Device)
  PROVE  /\ [r EXCEPT !.at = p, !.got = s] \in Lists
         /\ [r EXCEPT !.at = p, !.got = s].got = s
BY DEF Lists

\* A list of the same devices, or of fresh ones.
LEMMA GetDevicesStep ==
  ASSUME DInv, NEW c \in Callers, GetDevices(c)
  PROVE  /\ \/ UNCHANGED call
            \/ \E r \in Lists : SoundList(r.got) /\ call' = [call EXCEPT ![c] = r]
         /\ UNCHANGED <<machine, show, library, active, ui, engine, told>>
         /\ UNCHANGED gone \/ gone' = "crashed"
<1> DEFINE Fine == \E r \in Lists : SoundList(r.got) /\ Goes(c, r)
<1>1. Fine => \E r \in Lists : SoundList(r.got) /\ call' = [call EXCEPT ![c] = r]
  BY DEF Goes
<1>2. call[c] \in Lists /\ SoundList(call[c].got)
  BY DEF DInv, Shapes, ListsHeld
<1>3. \A p \in CallAts : Goes(c, [call[c] EXCEPT !.at = p]) => Fine
  BY <1>2, ListAt
<1>4. \A p \in CallAts : \A req : Goes(c, [call[c] EXCEPT !.at = p, !.got = Devices(req)]) => Fine
  <2> SUFFICES ASSUME NEW p \in CallAts, NEW req,
                      Goes(c, [call[c] EXCEPT !.at = p, !.got = Devices(req)])
               PROVE  Fine
    OBVIOUS
  <2>1. SoundList(Devices(req)) /\ Devices(req) \in Seq(Device)
    BY ListsSound DEF DInv, Shapes, SoundList
  <2>2. PICK l \in Lists : l = call[c]
    BY <1>2
  <2>3. PICK s \in Seq(Device) : s = Devices(req)
    BY <2>1
  <2> DEFINE r == [l EXCEPT !.at = p, !.got = s]
  <2>4. r \in Lists /\ r.got = s
    BY ListGot
  <2>5. Goes(c, r)
    BY <2>2, <2>3
  <2> HIDE DEF r
  <2> QED
    BY <2>1, <2>3, <2>4, <2>5
<1>5. {"done", "threw", "use", "exit"} \subseteq CallAts
  BY DEF CallAts
<1> HIDE DEF Fine
<1>6. CASE ListDevices(c)
  <2>1. Fine
    BY <1>3, <1>4, <1>5, <1>6 DEF ListDevices
  <2> QED
    BY <1>1, <1>6, <2>1 DEF ListDevices
<1>7. CASE CreateEnumerator(c)
  <2>1. Fine
    BY <1>3, <1>5, <1>7 DEF CreateEnumerator
  <2> QED
    BY <1>1, <1>7, <2>1 DEF CreateEnumerator
<1>8. CASE UseEnumerator(c)
  <2>1. Fine \/ UNCHANGED call
    BY <1>4, <1>5, <1>8 DEF UseEnumerator
  <2> QED
    BY <1>1, <1>8, <2>1 DEF UseEnumerator, Ends
<1>9. CASE ReleaseEnumerator(c)
  <2>1. Fine
    BY <1>3, <1>5, <1>9 DEF ReleaseEnumerator
  <2> QED
    BY <1>1, <1>9, <2>1 DEF ReleaseEnumerator
<1> QED
  BY <1>6, <1>7, <1>8, <1>9 DEF GetDevices

\* The machine and the library stay as they are.
LEMMA SystemsStay ==
  ASSUME DInv, UNCHANGED <<machine, show, library>>
  PROVE  Systems' /\ platform' = platform /\ paTable' = paTable
BY DEF DInv, Shapes, Systems, machine, library

\* A step of the interface's thread, or of the machine, that concerns no device.
LEMMA QuietStep ==
  ASSUME DInv, Systems', platform' = platform, paTable' = paTable \/ paTable' = << >>,
         UNCHANGED <<active, call, engine>>, told' \in BOOLEAN,
         ui' \in UiPlace, ui'.at = "constructor" => ui.at = "constructor",
         ui'.at = "swap" => UNCHANGED ui
  PROVE  DInv'
<1>1. engine' \in Place
  BY DEF DInv, Shapes
<1>2. engine'.at = "select" => engine'.side = "in"
  BY DEF DInv, OpeningSound
<1> QED
  BY <1>1, <1>2, StepKeeps

LEMMA RestingType ==
  /\ Resting \in UiPlace /\ Resting.at = "ready" /\ Resting.dev = None
  /\ [Resting EXCEPT !.at = "destructor"] \in UiPlace
  /\ [Resting EXCEPT !.at = "destructor"].at = "destructor"
<1>1. "ready" \in UiAts /\ "destructor" \in UiAts /\ "in" \in Sides
  BY DEF UiAts, Sides
<1>2. Resting \in UiPlace
  BY <1>1, UiPlaceType DEF Resting
<1>3. [Resting EXCEPT !.at = "destructor"] \in UiPlace
  BY <1>1, <1>2 DEF UiPlace
<1>4. Resting.at = "ready" /\ Resting.dev = None
  BY DEF Resting
<1>5. [Resting EXCEPT !.at = "destructor"].at = "destructor"
  BY <1>2 DEF UiPlace
<1> QED
  BY <1>2, <1>3, <1>4, <1>5

LEMMA ConstructDInv == DInv /\ Construct => DInv'
<1> SUFFICES ASSUME DInv, Construct PROVE DInv'
  OBVIOUS
<1>1. /\ active = [s \in Sides |-> None] /\ call = [c \in Callers |-> Idle]
      /\ engine.at = "none"
  BY DEF DInv, Beginning, Construct
<1>2. UNCHANGED <<machine, show, active, call, engine, told, gone>> /\ ui' = Resting
  BY DEF Construct, Constructed
<1>3. Systems'
  <2>1. UNCHANGED library \/ (paCount' = 1 /\ paTable' = Snapshot)
    BY DEF Construct, Constructed
  <2>2. Snapshot \in Seq(Gear)
    BY SnapshotIsTable DEF DInv, Shapes
  <2> QED
    BY <1>2, <2>1, <2>2 DEF DInv, Shapes, Systems, machine, library
<1>4. Shapes'
  BY <1>2, <1>3, RestingType DEF DInv, Shapes
<1>5. Beginning' /\ ActiveSound' /\ OpeningSound' /\ SwapSound'
  BY <1>1, <1>2, RestingType DEF DInv, Beginning, ActiveSound, OpeningSound, Opening, SwapSound
<1>6. ListsHeld'
  <2>1. \A c \in Callers : call'[c].got = << >>
    BY <1>1, <1>2 DEF Idle
  <2>2. << >> \in Seq(Device) /\ DOMAIN << >> = {}
    OBVIOUS
  <2> QED
    BY <2>1, <2>2 DEF ListsHeld, SoundList
<1> QED
  BY <1>4, <1>5, <1>6 DEF DInv

LEMMA DestroyDInv == DInv /\ Destroy => DInv'
<1> SUFFICES ASSUME DInv, Destroy PROVE DInv'
  OBVIOUS
<1>1. /\ UNCHANGED <<machine, show, active, call, engine, gone>> /\ told' = TRUE
      /\ ui' = [Resting EXCEPT !.at = "destructor"]
  BY DEF Destroy
<1>2. UNCHANGED library \/ paTable' = << >>
  BY DEF Destroy, Terminated, DInv, Shapes, Systems
<1>3. Systems' /\ platform' = platform /\ (paTable' = paTable \/ paTable' = << >>)
  <2>1. CASE UNCHANGED library
    BY <1>1, <2>1, SystemsStay
  <2>2. CASE paTable' = << >>
    <3>1. << >> \in Seq(Gear)
      OBVIOUS
    <3> QED
      BY <1>1, <2>2, <3>1 DEF DInv, Shapes, Systems, machine
  <2> QED
    BY <1>2, <2>1, <2>2
<1>4. told' \in BOOLEAN
  BY <1>1
<1> QED
  BY <1>1, <1>3, <1>4, RestingType, QuietStep

\* The steps of the interface's thread that neither list nor choose.
LEMMA UiQuietDInv ==
  ASSUME DInv, StartDaemon \/ Destroyed \/ Stop \/ EndSide \/ SetShowRecordDevices
  PROVE  DInv'
<1>1. /\ UNCHANGED <<active, call, engine, platform, plugged, library>>
      /\ show' \in BOOLEAN
  BY DEF StartDaemon, Destroyed, Stop, EndSide, SetShowRecordDevices, machine, DInv, Shapes,
         Systems
<1>2. Systems' /\ platform' = platform /\ paTable' = paTable
  BY <1>1 DEF DInv, Shapes, Systems, library
<1>3. told' \in BOOLEAN
  <2>1. UNCHANGED told \/ told' = (told \/ Runs(ui.side))
    BY DEF StartDaemon, Destroyed, Stop, EndSide, SetShowRecordDevices
  <2>2. told \in BOOLEAN /\ Runs(ui.side) \in BOOLEAN
    BY DEF DInv, Shapes, Runs
  <2> QED
    BY <2>1, <2>2, Zenon
<1>4. \/ ui' \in UiPlace /\ ui'.at \notin {"constructor", "swap"}
      \/ UNCHANGED ui
  <2>1. \/ UNCHANGED ui
        \/ ui' = [Resting EXCEPT !.at = "end", !.side = engine.side]
        \/ ui' = [ui EXCEPT !.at = "join"]
    BY DEF StartDaemon, Destroyed, Stop, EndSide, SetShowRecordDevices
  <2>2. engine.side \in Sides /\ ui \in UiPlace /\ {"end", "join"} \subseteq UiAts
    BY DEF DInv, Shapes, Place, UiAts
  <2>3. CASE ui' = [Resting EXCEPT !.at = "end", !.side = engine.side]
    <3>1. ui' = [at |-> "end", side |-> engine.side, again |-> FALSE, dev |-> None]
      BY <2>3 DEF Resting
    <3> QED
      BY <2>2, <3>1, UiPlaceType
  <2>4. CASE ui' = [ui EXCEPT !.at = "join"]
    BY <2>2, <2>4 DEF UiPlace
  <2> QED
    BY <2>1, <2>3, <2>4
<1>5. ui' \in UiPlace
  BY <1>4 DEF DInv, Shapes
<1> QED
  BY <1>1, <1>2, <1>3, <1>4, <1>5, QuietStep

\* A switch of devices makes the one active that was chosen from a list.
LEMMA SwapDeviceDInv == DInv /\ SwapDevice => DInv'
<1> SUFFICES ASSUME DInv, SwapDevice PROVE DInv'
  OBVIOUS
<1> DEFINE again == Runs(ui.side) /\ ~told
<1>1. /\ UNCHANGED <<machine, show, library, call, engine, told>> /\ ui.at = "swap"
      /\ active' = [active EXCEPT ![ui.side] = ui.dev]
      /\ ui' = [Resting EXCEPT !.at = "end", !.side = ui.side, !.again = again]
  BY DEF SwapDevice
<1>2. Systems' /\ platform' = platform /\ paTable' = paTable
  BY <1>1, SystemsStay
<1>3. ui.side \in Sides /\ Sound(ui.dev) /\ told' \in BOOLEAN /\ engine' \in Place
  BY <1>1 DEF DInv, Shapes, UiPlace, SwapSound
<1>4. again \in BOOLEAN
  BY Zenon
<1> HIDE DEF again
<1>5. ui' \in UiPlace /\ ui'.at = "end"
  <2>1. ui' = [at |-> "end", side |-> ui.side, again |-> again, dev |-> None]
    BY <1>1 DEF Resting
  <2>2. "end" \in UiAts
    BY DEF UiAts
  <2> QED
    BY <1>3, <1>4, <2>1, <2>2, UiPlaceType
<1>6. \E s \in Sides : \E d : Sound(d) /\ active' = [active EXCEPT ![s] = d]
  BY <1>1, <1>3
<1>7. /\ engine'.at \in Opening => engine.at \in Opening /\ engine'.side = engine.side
      /\ engine'.at = "select" => engine'.side = "in"
  BY <1>1 DEF DInv, OpeningSound
<1> QED
  BY <1>1, <1>2, <1>3, <1>5, <1>6, <1>7, StepKeeps

\* An engine that is started has opened nothing yet.
LEMMA StartDInv ==
  ASSUME DInv, Joined \/ \E s \in Sides : Start(s)
  PROVE  DInv'
<1>1. UNCHANGED <<machine, show, library, active, call, told>>
  BY DEF Joined, Start
<1>2. Systems' /\ platform' = platform /\ paTable' = paTable
  BY <1>1, SystemsStay
<1>3. UNCHANGED engine \/ \E s \in Sides : engine' = [at |-> "start", side |-> s]
  <2>1. ui.side \in Sides
    BY DEF DInv, Shapes, UiPlace
  <2> QED
    BY <2>1 DEF Joined, Start, StartEngine
<1>4. engine' \in Place /\ (engine' = engine \/ engine'.at = "start")
  <2>1. \A s \in Sides : [at |-> "start", side |-> s] \in Place
    BY DEF EngineAts, Place
  <2>2. CASE UNCHANGED engine
    BY <2>2 DEF DInv, Shapes
  <2>3. CASE \E s \in Sides : engine' = [at |-> "start", side |-> s]
    <3>1. PICK s \in Sides : engine' = [at |-> "start", side |-> s]
      BY <2>3
    <3> QED
      BY <2>1, <3>1
  <2> QED
    BY <1>3, <2>2, <2>3
<1>5. told' \in BOOLEAN
  BY <1>1 DEF DInv, Shapes
<1>6. /\ ui' \in UiPlace /\ ui'.at # "constructor"
      /\ ui'.at = "swap" => UNCHANGED ui
  <2>1. CASE Joined
    BY <2>1, RestingType DEF Joined
  <2>2. CASE \E s \in Sides : Start(s)
    BY <2>2 DEF Start, DInv, Shapes
  <2> QED
    BY <2>1, <2>2
<1>7. /\ engine'.at \in Opening => engine.at \in Opening /\ engine'.side = engine.side
      /\ engine'.at = "select" => engine'.side = "in"
  BY <1>4 DEF DInv, OpeningSound, Opening
<1> QED
  BY <1>1, <1>2, <1>4, <1>5, <1>6, <1>7, StepKeeps

\* The steps that list: what is listed is sound, and nothing is chosen yet.
LEMMA ListingDInv ==
  ASSUME DInv, UNCHANGED <<machine, show, library, active, told>>,
         NEW c \in Callers, NEW r, call' = [call EXCEPT ![c] = r],
         r \in Lists, SoundList(r.got), ui' \in UiPlace,
         ui'.at = "swap" => UNCHANGED ui \/ Sound(ui'.dev),
         ui'.at = "constructor" => UNCHANGED ui /\ call[c].at # "idle",
         engine' \in Place, engine' # engine => engine'.at \notin Opening
  PROVE  DInv'
<1>1. Systems' /\ platform' = platform /\ paTable' = paTable
  BY SystemsStay
<1>2. ui'.at # "constructor"
  BY DEF DInv, Beginning, Idle
<1>3. told' \in BOOLEAN
  BY DEF DInv, Shapes
<1>4. /\ engine'.at \in Opening =>
           engine.at \in Opening /\ engine'.side = engine.side
      /\ engine'.at = "select" => engine'.side = "in"
  BY DEF DInv, OpeningSound, Opening
<1>5. \E b \in Callers, l \in Lists : SoundList(l.got) /\ call' = [call EXCEPT ![b] = l]
  OBVIOUS
<1> QED
  BY <1>1, <1>2, <1>3, <1>4, <1>5, StepKeeps

LEMMA AskType ==
  ASSUME NEW c, NEW req \in SUBSET Types, Asks(c, req)
  PROVE  \E r \in Lists : SoundList(r.got) /\ call' = [call EXCEPT ![c] = r]
<1> DEFINE p == IF platform = "Windows" THEN "create" ELSE "list"
           r == [at |-> p, req |-> req, got |-> << >>]
<1>1. p \in CallAts /\ << >> \in Seq(Device)
  BY DEF CallAts
<1>2. r \in Lists
  <2> HIDE DEF p
  <2> QED
    BY <1>1 DEF Lists
<1>3. r.got = << >> /\ call' = [call EXCEPT ![c] = r]
  BY DEF Asks, Goes
<1> HIDE DEF r
<1> QED
  BY <1>2, <1>3, NoList

LEMMA AskDevicesDInv ==
  ASSUME DInv, NEW s \in Sides, NEW f \in Interfaces, AskDevices(s, f)
  PROVE  DInv'
<1>1. /\ UNCHANGED <<machine, show, library, active, told, engine, gone>>
      /\ ui' = [Resting EXCEPT !.at = f, !.side = s]
      /\ Asks("ui", IF f = "gui" THEN Request(s) ELSE Types)
  BY DEF AskDevices
<1>2. (IF f = "gui" THEN Request(s) ELSE Types) \in SUBSET Types
  BY DEF Request, Types
<1>3. PICK r \in Lists : SoundList(r.got) /\ call' = [call EXCEPT !["ui"] = r]
  BY <1>1, <1>2, AskType
<1>4. f \in UiAts /\ f \notin {"constructor", "swap"}
  BY GearKnown DEF UiAts
<1>5. ui' \in UiPlace /\ ui'.at = f
  <2>1. ui' = [at |-> f, side |-> s, again |-> FALSE, dev |-> None]
    BY <1>1 DEF Resting
  <2> QED
    BY <1>4, <2>1, UiPlaceType
<1>6. engine' \in Place /\ "ui" \in Callers
  BY <1>1 DEF DInv, Shapes, Callers
<1> QED
  BY <1>1, <1>3, <1>4, <1>5, <1>6, ListingDInv

LEMMA GetDevicesDInv ==
  ASSUME DInv, NEW c \in Callers, GetDevices(c)
  PROVE  DInv'
<1>1. /\ UNCHANGED <<machine, show, library, active, ui, engine, told>>
      /\ UNCHANGED gone \/ gone' = "crashed"
      /\ \/ UNCHANGED call
         \/ \E r \in Lists : SoundList(r.got) /\ call' = [call EXCEPT ![c] = r]
  BY GetDevicesStep
<1>2. engine' \in Place /\ ui' \in UiPlace /\ told' \in BOOLEAN
  BY <1>1 DEF DInv, Shapes
<1>3. CASE UNCHANGED call
  <2>1. Systems' /\ platform' = platform /\ paTable' = paTable
    BY <1>1, SystemsStay
  <2> QED
    BY <1>1, <1>2, <1>3, <2>1, QuietStep
<1>4. CASE \E r \in Lists : SoundList(r.got) /\ call' = [call EXCEPT ![c] = r]
  <2>1. call[c].at # "idle"
    BY DEF GetDevices, ListDevices, CreateEnumerator, UseEnumerator, ReleaseEnumerator
  <2> QED
    BY <1>1, <1>2, <1>4, <2>1, ListingDInv
<1> QED
  BY <1>1, <1>3, <1>4

LEMMA PickNothingDInv == DInv /\ PickNothing => DInv'
<1> SUFFICES ASSUME DInv, PickNothing PROVE DInv'
  OBVIOUS
<1>1. /\ UNCHANGED <<machine, show, library, active, told, engine, gone>>
      /\ ui' = Resting /\ call' = [call EXCEPT !["ui"] = Idle]
  BY DEF PickNothing, Goes
<1>2. SoundList(Idle.got) /\ Idle \in Lists
  BY NoList, IdleType DEF Idle
<1>3. engine' \in Place /\ "ui" \in Callers
  BY <1>1 DEF DInv, Shapes, Callers
<1> QED
  BY <1>1, <1>2, <1>3, RestingType, ListingDInv

\* Only a device of the list is chosen.
LEMMA PickDInv ==
  ASSUME DInv, NEW i \in DOMAIN call["ui"].got, Pick(i)
  PROVE  DInv'
<1> DEFINE d == call["ui"].got[i]
<1>1. /\ UNCHANGED <<machine, show, library, active, engine, told>>
      /\ call' = [call EXCEPT !["ui"] = Idle]
      /\ ui' = Resting \/ ui' = [ui EXCEPT !.at = "swap", !.dev = d]
  BY DEF Pick, Goes
<1>2. "ui" \in Callers
  BY DEF Callers
<1>3. Sound(d)
  BY <1>2 DEF DInv, ListsHeld, SoundList
<1>4. d \in Device /\ ui \in UiPlace /\ "swap" \in UiAts
  BY <1>3 DEF Sound, SoundIn, DInv, Shapes, UiAts
<1> HIDE DEF d
<1>5. ui' \in UiPlace /\ ui'.at # "constructor" /\ (ui'.at = "swap" => Sound(ui'.dev))
  <2>1. CASE ui' = Resting
    BY <2>1, RestingType
  <2>2. CASE ui' = [ui EXCEPT !.at = "swap", !.dev = d]
    BY <1>3, <1>4, <2>2 DEF UiPlace
  <2> QED
    BY <1>1, <2>1, <2>2
<1>6. SoundList(Idle.got) /\ Idle \in Lists
  BY NoList, IdleType DEF Idle
<1>7. engine' \in Place
  BY <1>1 DEF DInv, Shapes
<1> QED
  BY <1>1, <1>2, <1>5, <1>6, <1>7, ListingDInv

LEMMA UiDInv == DInv /\ UiStep => DInv'
<1> SUFFICES ASSUME DInv, UiStep PROVE DInv'
  OBVIOUS
<1>1. "ui" \in Callers
  BY DEF Callers
<1> QED
  BY <1>1, ConstructDInv, DestroyDInv, UiQuietDInv, SwapDeviceDInv, StartDInv, AskDevicesDInv,
     GetDevicesDInv, PickNothingDInv, PickDInv DEF UiStep

----------------------------------------------------------------------------
LEMMA EngineAtPlace ==
  ASSUME engine \in Place, NEW p \in EngineAts, EngineTo(p)
  PROVE  engine' \in Place /\ engine'.at = p /\ engine'.side = engine.side
BY DEF EngineTo, Place

\* A step of the engine thread that lists and chooses nothing.
LEMMA QuietEngine ==
  ASSUME DInv, UNCHANGED <<machine, show, library, active, call, ui>>, told' \in BOOLEAN,
         engine' \in Place,
         engine'.at \in Opening =>
           \/ engine.at \in Opening /\ engine'.side = engine.side
           \/ Sound(active[engine'.side]),
         engine'.at = "select" => engine'.side = "in",
         ui.at = "constructor" => UNCHANGED engine
  PROVE  DInv'
<1>1. Systems' /\ platform' = platform /\ paTable' = paTable
  BY SystemsStay
<1>2. ui' \in UiPlace
  BY DEF DInv, Shapes
<1>3. engine'.at \in Opening =>
        \/ engine.at \in Opening /\ engine'.side = engine.side
        \/ Sound(active'[engine'.side])
  OBVIOUS
<1> QED
  BY <1>1, <1>2, <1>3, StepKeeps

\* There is no engine before the constructor has returned.
LEMMA EngineAfterConstructor == DInv /\ engine.at # "none" => ui.at # "constructor"
BY DEF DInv, Beginning

LEMMA BeginDInv == DInv /\ Begin => DInv'
<1> SUFFICES ASSUME DInv, Begin PROVE DInv'
  OBVIOUS
<1>1. /\ UNCHANGED <<machine, show, library, active, ui, told, gone>> /\ engine.at = "start"
      /\ engine \in Place /\ ui.at # "constructor"
  BY EngineAfterConstructor DEF Begin, EngineAt, DInv, Shapes
<1>2. told' \in BOOLEAN /\ ui' \in UiPlace
  BY <1>1 DEF DInv, Shapes
<1>3. "default" \in EngineAts /\ "publish" \in EngineAts /\ "engine" \in Callers
  BY DEF EngineAts, Opening, Callers
<1>4. CASE active[engine.side] = None
  <2>1. EngineTo("default") /\ Asks("engine", Request(engine.side))
    BY <1>4 DEF Begin
  <2>2. Request(engine.side) \in SUBSET Types
    BY DEF Request, Types
  <2>3. PICK r \in Lists : SoundList(r.got) /\ call' = [call EXCEPT !["engine"] = r]
    BY <2>1, <2>2, AskType
  <2>4. engine' \in Place /\ engine'.at \notin Opening
    BY <1>1, <1>3, <2>1, EngineAtPlace DEF Opening
  <2> QED
    BY <1>1, <1>2, <1>3, <2>3, <2>4, ListingDInv
<1>5. CASE active[engine.side] # None
  <2>1. EngineTo("publish") /\ UNCHANGED call
    BY <1>5 DEF Begin
  <2>2. engine' \in Place /\ engine'.at = "publish" /\ engine'.side = engine.side
    BY <1>1, <1>3, <2>1, EngineAtPlace
  <2>3. Sound(active[engine.side])
    BY <1>1, <1>5 DEF DInv, ActiveSound, Place
  <2> QED
    BY <1>1, <1>2, <2>1, <2>2, <2>3, QuietEngine
<1> QED
  BY <1>4, <1>5

\* The default is the first of the list.
LEMMA TakeDefaultDInv == DInv /\ TakeDefault => DInv'
<1> SUFFICES ASSUME DInv, TakeDefault PROVE DInv'
  OBVIOUS
<1>1. /\ UNCHANGED <<machine, show, library, ui, told, gone>> /\ engine.at = "default"
      /\ engine \in Place /\ ui.at # "constructor"
      /\ call' = [call EXCEPT !["engine"] = Idle]
  BY EngineAfterConstructor DEF TakeDefault, EngineAt, DInv, Shapes, Goes
<1>2. ui' \in UiPlace /\ told' \in BOOLEAN
  BY <1>1 DEF DInv, Shapes
<1>3. "none" \in EngineAts /\ "publish" \in EngineAts /\ "engine" \in Callers
  BY DEF EngineAts, Opening, Callers
<1>4. SoundList(Idle.got) /\ Idle \in Lists
  BY NoList, IdleType DEF Idle
<1>5. CASE call["engine"].got = << >>
  <2>1. engine' = NoEngine /\ UNCHANGED active
    BY <1>5 DEF TakeDefault, EngineEnds
  <2>2. engine' \in Place /\ engine'.at \notin Opening
    BY <2>1, NoEngineType DEF NoEngine, Opening
  <2> QED
    BY <1>1, <1>2, <1>3, <1>4, <2>1, <2>2, ListingDInv
<1>6. CASE call["engine"].got # << >>
  <2> DEFINE l == call["engine"].got
             d == Head(l)
  <2>1. EngineTo("publish") /\ active' = [active EXCEPT ![engine.side] = d]
    BY <1>6 DEF TakeDefault
  <2>2. SoundList(l)
    BY <1>3 DEF DInv, ListsHeld
  <2>3. Sound(d)
    <3> HIDE DEF l
    <3>1. l \in Seq(Device) /\ l # << >>
      BY <1>6, <2>2 DEF l, SoundList
    <3>2. 1 \in DOMAIN l /\ Head(l) = l[1]
      BY <3>1
    <3> QED
      BY <2>2, <3>2 DEF SoundList
  <2> HIDE DEF d
  <2>4. engine' \in Place /\ engine'.at = "publish" /\ engine'.side = engine.side
    BY <1>1, <1>3, <2>1, EngineAtPlace
  <2>5. engine.side \in Sides /\ active \in [Sides -> Device \cup {None}]
    BY <1>1 DEF Place, DInv, Shapes
  <2>6. Sound(active'[engine'.side])
    BY <2>1, <2>3, <2>4, <2>5
  <2>7. Systems' /\ platform' = platform /\ paTable' = paTable
    BY <1>1, SystemsStay
  <2>8. /\ \E c \in Callers, r \in Lists : SoundList(r.got) /\ call' = [call EXCEPT ![c] = r]
        /\ \E s \in Sides : \E e : Sound(e) /\ active' = [active EXCEPT ![s] = e]
    BY <1>1, <1>3, <1>4, <2>1, <2>3, <2>5
  <2> QED
    BY <1>1, <1>2, <2>4, <2>6, <2>7, <2>8, StepKeeps
<1> QED
  BY <1>5, <1>6

\* The steps of the opening, up to the stream.
LEMMA OpeningDInv ==
  ASSUME DInv, Publish \/ TestType \/ OpenWasapi
  PROVE  DInv'
<1>1. /\ UNCHANGED <<machine, show, library, active, call, ui>>
      /\ UNCHANGED told \/ told' = FALSE
      /\ engine.at \in Opening /\ engine \in Place
  BY DEF Publish, TestType, OpenWasapi, EngineAt, Opening, DInv, Shapes
<1>2. \E p \in Opening : EngineTo(p) /\ (p = "select" => engine.side = "in")
  BY DEF Publish, TestType, OpenWasapi, ByWasapi, Opening
<1>3. PICK p \in Opening : EngineTo(p) /\ (p = "select" => engine.side = "in")
  BY <1>2
<1>4. engine' \in Place /\ engine'.at = p /\ engine'.side = engine.side
  BY <1>1, <1>3, EngineAtPlace DEF EngineAts
<1>5. ui.at # "constructor"
  <2>1. engine.at # "none"
    BY <1>1 DEF Opening
  <2> QED
    BY <2>1, EngineAfterConstructor
<1>6. told' \in BOOLEAN
  BY <1>1 DEF DInv, Shapes
<1> QED
  BY <1>1, <1>3, <1>4, <1>5, <1>6, QuietEngine

\* The other steps end the process or leave the opening behind them.
LEMMA EngineOnDInv ==
  ASSUME DInv,
         \/ NoDefault \/ PureCall \/ BasePlayback \/ DanglingRead \/ NoIdentifier
         \/ SelectWasapi \/ OpenStream \/ LoopFails \/ LoopEnds \/ Close \/ SilentEnds
  PROVE  DInv'
<1>1. UNCHANGED <<machine, show, library, active, call, ui, told>> /\ engine.at # "none"
  BY DEF NoDefault, PureCall, BasePlayback, DanglingRead, NoIdentifier, Reads, SelectWasapi,
         OpenStream, LoopFails, LoopEnds, Close, SilentEnds, EngineAt
<1>2. \/ UNCHANGED engine \/ EngineTo("loop") \/ EngineTo("close") \/ EngineTo("silent")
      \/ engine' = NoEngine
  BY DEF NoDefault, PureCall, BasePlayback, DanglingRead, NoIdentifier, SelectWasapi,
         OpenStream, LoopFails, LoopEnds, Close, SilentEnds, Opened, EngineEnds
<1>3. engine \in Place /\ {"loop", "close", "silent"} \subseteq EngineAts
  BY DEF DInv, Shapes, EngineAts
<1>4. /\ engine' \in Place
      /\ engine' = engine \/ engine'.at \in {"loop", "close", "silent", "none"}
  BY <1>2, <1>3, EngineAtPlace, NoEngineType DEF NoEngine
<1>5. /\ engine'.at \in Opening => engine.at \in Opening /\ engine'.side = engine.side
      /\ engine'.at = "select" => engine'.side = "in"
  BY <1>4 DEF DInv, OpeningSound, Opening
<1>6. ui.at # "constructor" /\ told' \in BOOLEAN
  BY <1>1, EngineAfterConstructor DEF DInv, Shapes
<1> QED
  BY <1>1, <1>4, <1>5, <1>6, QuietEngine

LEMMA EngineDInv == DInv /\ EngineStep => DInv'
<1>1. "engine" \in Callers
  BY DEF Callers
<1> QED
  BY <1>1, BeginDInv, GetDevicesDInv, TakeDefaultDInv, OpeningDInv, EngineOnDInv DEF EngineStep

\* Plugging and unplugging change what will be listed, and no list there is.
LEMMA MachineDInv ==
  ASSUME DInv, DaemonDies \/ \E g \in Gear : Plug(g) \/ Unplug(g)
  PROVE  DInv'
<1>1. /\ UNCHANGED <<platform, show, library, active, call, ui, engine, told, gone>>
      /\ \/ UNCHANGED plugged
         \/ \E g \in Gear : plugged' = Append(plugged, g)
         \/ \E S \in SUBSET (DOMAIN plugged) : plugged' = Part(plugged, S)
  BY DEF DaemonDies, Plug, Unplug
<1>2. plugged' \in Seq(Gear)
  <2>1. plugged \in Seq(Gear)
    BY DEF DInv, Shapes, Systems
  <2> QED
    BY <1>1, <2>1, PartOf
<1>3. Systems' /\ platform' = platform /\ paTable' = paTable
  BY <1>1, <1>2 DEF DInv, Shapes, Systems, library
<1>4. told' \in BOOLEAN /\ ui' \in UiPlace
  BY <1>1 DEF DInv, Shapes
<1> QED
  BY <1>1, <1>3, <1>4, QuietStep

LEMMA NextDInv == DInv /\ [Next]_vars => DInv'
<1> SUFFICES ASSUME DInv, [Next]_vars PROVE DInv'
  OBVIOUS
<1>1. CASE UNCHANGED vars
  <2>1. UNCHANGED <<machine, show, library, active, call, ui, engine, told, gone>>
    BY <1>1 DEF vars
  <2>2. Systems' /\ platform' = platform /\ paTable' = paTable
    BY <2>1, SystemsStay
  <2>3. told' \in BOOLEAN /\ ui' \in UiPlace
    BY <2>1 DEF DInv, Shapes
  <2> QED
    BY <2>1, <2>2, <2>3, QuietStep
<1> QED
  BY <1>1, UiDInv, EngineDInv, MachineDInv DEF Next

\* The invariant of the devices holds in every reachable state.
THEOREM DevicesInvariance == Spec => []DInv
<1> QED
  BY InitDInv, NextDInv, PTL DEF Spec

----------------------------------------------------------------------------
\* Gear that is there is no None.
LEMMA HereIsGear == Systems => \A g : Here(g) => g # None
BY GearKnown DEF Systems, Here

LEMMA SelectOpensTheSelected ==
  DInv /\ SelectWasapi => UNCHANGED stream \/ stream'.gear = active[engine.side].gear
<1> SUFFICES ASSUME DInv, SelectWasapi, stream' # stream
             PROVE  stream'.gear = active[engine.side].gear
  OBVIOUS
<1> DEFINE d == active["in"]
<1>1. engine.at = "select" /\ Here(d.sys) /\ stream' = [gear |-> d.sys, api |-> "wasapi"]
  BY DEF SelectWasapi, EngineAt, Opened
<1>2. engine.side = "in" /\ Sound(d)
  BY <1>1 DEF DInv, OpeningSound, Opening
<1>3. d.sys # None
  BY <1>1, HereIsGear DEF DInv, Shapes
<1>4. d.sys = d.gear
  BY <1>2, <1>3 DEF Sound, SoundIn
<1> QED
  BY <1>1, <1>2, <1>4

LEMMA OpenOpensTheSelected ==
  DInv /\ OpenStream => UNCHANGED stream \/ stream'.gear = active[engine.side].gear
<1> SUFFICES ASSUME DInv, OpenStream, stream' # stream
             PROVE  stream'.gear = active[engine.side].gear
  OBVIOUS
<1> DEFINE d == active[engine.side]
<1>1. /\ engine.at \in {"open", "read"} /\ Found(d) # None
      /\ stream' = [gear |-> Found(d), api |-> IF ByPulse THEN "pulse" ELSE "pa"]
  BY DEF OpenStream, Reads, EngineAt, Opened
<1>2. Sound(d)
  BY <1>1 DEF DInv, OpeningSound, Opening
<1>3. Found(d) = d.gear
  BY <1>1, <1>2 DEF Found, Sound, SoundIn
<1> QED
  BY <1>1, <1>3

LEMMA StepOpensTheSelected ==
  DInv /\ [Next]_vars
    => [stream' # stream /\ stream' # None => stream'.gear = active[engine.side].gear]_vars
<1> SUFFICES ASSUME DInv, Next, stream' # stream, stream' # None
             PROVE  stream'.gear = active[engine.side].gear
  BY DEF vars
<1>1. \/ SelectWasapi \/ OpenStream
      \/ UNCHANGED stream \/ stream' = None
  <2>1. CASE UiStep
    BY <2>1 DEF UiStep, Construct, Constructed, StartDaemon, Destroy, Destroyed, Start, Stop,
                EndSide, Joined, SwapDevice, SetShowRecordDevices, AskDevices, GetDevices,
                ListDevices,
                CreateEnumerator, UseEnumerator, ReleaseEnumerator, PickNothing, Pick
  <2>2. CASE EngineStep
    BY <2>2 DEF EngineStep, Begin, GetDevices, ListDevices, CreateEnumerator, UseEnumerator,
                ReleaseEnumerator, TakeDefault, NoDefault, Publish, PureCall, BasePlayback,
                TestType, DanglingRead, OpenWasapi, NoIdentifier, LoopFails, LoopEnds, Close,
                SilentEnds
  <2>3. CASE DaemonDies \/ \E g \in Gear : Plug(g) \/ Unplug(g)
    BY <2>3 DEF DaemonDies, Plug, Unplug
  <2> QED
    BY <2>1, <2>2, <2>3 DEF Next
<1> QED
  BY <1>1, SelectOpensTheSelected, OpenOpensTheSelected

----------------------------------------------------------------------------
\* A stream opens the gear that was chosen or was the default's, whatever was
\* listed, plugged in or unplugged between the choice and the opening
\* (getDevices, setActive*Device and capture and playback of src/audio).
THEOREM AlwaysOpensTheSelected == Spec => OpensTheSelected
<1> QED
  BY StepOpensTheSelected, DevicesInvariance, PTL DEF Spec, OpensTheSelected

\* The numbers that the command line prints are those it looks devices up by
\* (printDeviceList and findDevice of CLICommon.h).
THEOREM NumbersAlwaysAgree == Spec => []NumbersAgree
<1>1. DInv => NumbersAgree
  BY ListsAgree DEF DInv, Shapes
<1> QED
  BY <1>1, DevicesInvariance, PTL
=============================================================================
