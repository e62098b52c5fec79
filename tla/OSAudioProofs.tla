---------------------------- MODULE OSAudioProofs ----------------------------
(****************************************************************************)
(* Proofs about OSAudio, for any clients, threads, sinks, devices, calls    *)
(* and failures.                                                            *)
(****************************************************************************)
EXTENDS OSAudio, SequenceTheorems, TLAPS

USE DEF starts, flow, data, cvars, ivars, life

(****************************************************************************)
(* The inductive invariant.                                                 *)
(****************************************************************************)

\* What setActive*Device installs is a device.
InstallsDevice ==
  \A c \in Clients :
    cpc[c] \in {"release", "install"} => call[c].arg \in Inputs \cup Outputs

\* A thread runs exactly when inThreads or outThreads has it, or will once its
\* starter has inserted it, and never both of them.
ThreadsKept ==
  /\ \A t \in Threads : tpc[t] # "free" <=> \E s \in Sides : t \in threads[s]
  /\ \A s, r \in Sides : \A t \in threads[s] : t \in threads[r] => s = r

\* A stop overtakes only threads that stream: before a thread has given back
\* the semaphore nobody stops.  Who has started a thread has not returned yet.
StartsKept ==
  /\ \A t \in loose : Streaming(t)
  /\ \A c \in Clients : making[c] # NoThread => cpc[c] = "insert"

\* A thread that has not stored its flag yet was spawned with both flags true.
PendingEnded ==
  \A t \in Threads : tpc[t] \in {"prepare", "publish"} => \A s \in Sides : ended[s]

\* The destructor runs alone.
DestructorAlone ==
  \A c \in Clients :
    /\ destroyed => cpc[c] \in {"idle", "dtorStore", "dtorJoinIn", "dtorJoinOut"}
    /\ cpc[c] \in {"dtorStore", "dtorJoinIn", "dtorJoinOut"} => destroyed

\* Only a stop in progress leaves a streaming thread with its flag true, unless
\* the stop has overtaken the start.
StreamingFlagged ==
  \A s \in Sides : \A t \in threads[s] \ loose :
    Streaming(t) /\ ended[s] =>
      destroyed \/ \E c \in Clients : cpc[c] = "endJoin" /\ SideOf(c) = s

Protocol ==
  /\ SemaphoreOwned
  /\ OneStream
  /\ StopIsSeen
  /\ ThreadsKept
  /\ StartsKept
  /\ PendingEnded
  /\ DestructorAlone
  /\ StreamingFlagged

IInv == TypeOK /\ InstallsDevice /\ Protocol

----------------------------------------------------------------------------
LEMMA InitIInv == Init => IInv
<1> SUFFICES ASSUME Init PROVE IInv
  OBVIOUS
<1>1. TypeOK
  <2>1. sinks \in [Lists -> Seq(Args)]
    BY EmptySeq DEF Init
  <2>2. iter \in [Procs -> Iters]
    BY DEF Init, Iters, NoIter, Lists
  <2>3. cpc \in [Clients -> CallPCs] /\ tpc \in [Threads -> ThreadPCs]
    BY DEF Init, CallPCs, ThreadPCs
  <2> QED
    BY <2>1, <2>2, <2>3 DEF Init, TypeOK
<1>2. InstallsDevice
  BY DEF Init, InstallsDevice
<1>3. Protocol
  BY DEF Init, Protocol, SemaphoreOwned, Holders, OneStream, StopIsSeen, ThreadsKept,
         StartsKept, PendingEnded, DestructorAlone, StreamingFlagged, Streaming, Sides
<1> QED
  BY <1>1, <1>2, <1>3 DEF IInv

----------------------------------------------------------------------------
(****************************************************************************)
(* The protocol: who holds the semaphore, which threads run.                *)
(****************************************************************************)
HolderPCs == {"startTest", "endStore", "endJoin"}
DtorPCs == {"dtorStore", "dtorJoinIn", "dtorJoinOut"}

\* A client that moves between labels outside the protocol keeps it.
LEMMA ClientOutside ==
  ASSUME IInv, NEW c \in Clients, NEW l, NEW k \in CallSet \cup {NoCall},
         cpc[c] \notin HolderPCs \cup DtorPCs, l \notin HolderPCs \cup DtorPCs,
         destroyed => FALSE,
         cpc' = [cpc EXCEPT ![c] = l],
         call' = [call EXCEPT ![c] = k] \/ UNCHANGED call,
         \/ cpc[c] # "insert" /\ UNCHANGED making
         \/ making' = [making EXCEPT ![c] = NoThread],
         UNCHANGED <<sem, ended, threads, loose, tpc, destroyed>>
  PROVE  Protocol'
<1> USE DEF IInv, Protocol, TypeOK, HolderPCs, DtorPCs
<1>1. SemaphoreOwned'
  BY DEF SemaphoreOwned, Holders
<1>2. OneStream' /\ ThreadsKept' /\ PendingEnded'
  BY DEF OneStream, ThreadsKept, PendingEnded
<1>2a. StartsKept'
  BY DEF StartsKept, Streaming
<1>3. StopIsSeen'
  BY DEF StopIsSeen, SideOf
<1>4. DestructorAlone'
  BY DEF DestructorAlone
<1>5. StreamingFlagged'
  BY DEF StreamingFlagged, Streaming, SideOf
<1> QED
  BY <1>1, <1>2, <1>2a, <1>3, <1>4, <1>5

\* A thread that moves between labels at which it streams keeps it.
LEMMA ThreadOutside ==
  ASSUME IInv, NEW t \in Threads, NEW l,
         Streaming(t), l \in {"open", "loop", "copy"},
         tpc' = [tpc EXCEPT ![t] = l] \/ UNCHANGED tpc,
         UNCHANGED <<sem, ended, threads, starts, cpc, call, destroyed>>
  PROVE  Protocol'
<1> USE DEF IInv, Protocol, TypeOK, Streaming
<1>1. SemaphoreOwned'
  BY DEF SemaphoreOwned, Holders
<1>2. OneStream' /\ ThreadsKept' /\ PendingEnded'
  BY DEF OneStream, ThreadsKept, PendingEnded
<1>2a. StartsKept'
  BY DEF StartsKept, Streaming
<1>3. StopIsSeen'
  BY DEF StopIsSeen, SideOf
<1>4. DestructorAlone'
  BY DEF DestructorAlone
<1>5. StreamingFlagged'
  BY DEF StreamingFlagged, SideOf
<1> QED
  BY <1>1, <1>2, <1>2a, <1>3, <1>4, <1>5

\* startRecord and endRecord take the semaphore.
LEMMA WaitProtocol ==
  ASSUME IInv, NEW c \in Clients, StartWait(c) \/ EndWait(c)
  PROVE  Protocol'
<1> USE DEF IInv, Protocol, TypeOK, StartWait, EndWait, Wait, Goto
<1>1. SemaphoreOwned'
  BY ThreadsDistinct DEF SemaphoreOwned, Holders
<1>2. OneStream' /\ ThreadsKept' /\ PendingEnded'
  BY DEF OneStream, ThreadsKept, PendingEnded
<1>2a. StartsKept'
  BY DEF StartsKept, Streaming
<1>3. StopIsSeen'
  BY DEF StopIsSeen, SideOf
<1>4. DestructorAlone'
  BY DEF DestructorAlone
<1>5. StreamingFlagged'
  BY DEF StreamingFlagged, Streaming, SideOf
<1> QED
  BY <1>1, <1>2, <1>2a, <1>3, <1>4, <1>5

\* A client that spawns holds the semaphore, so no thread is starting and no
\* stop is in progress: with both flags true, only loose threads are left.
LEMMA SpawnAlone ==
  ASSUME IInv, NEW c \in Clients, cpc[c] = "startTest", \A d \in Sides : ended[d]
  PROVE  \A s \in Sides : threads[s] \ loose = {}
<1> SUFFICES ASSUME NEW s \in Sides, NEW t \in threads[s] \ loose PROVE FALSE
  OBVIOUS
<1> USE DEF IInv, Protocol, TypeOK
<1>1. t \in Threads /\ tpc[t] # "free" /\ t # c
  BY ThreadsDistinct DEF ThreadsKept
<1>2. CASE Streaming(t)
  <2>1. \E d \in Clients : cpc[d] = "endJoin"
    BY <1>2 DEF StreamingFlagged, DestructorAlone
  <2> QED
    BY <2>1 DEF SemaphoreOwned, Holders
<1>3. CASE tpc[t] \in {"prepare", "publish"}
  BY <1>1, <1>3 DEF SemaphoreOwned, Holders
<1> QED
  BY <1>1, <1>2, <1>3 DEF Streaming, ThreadPCs

LEMMA StartTestProtocol ==
  ASSUME IInv, NEW c \in Clients, StartTest(c)
  PROVE  Protocol'
<1> USE DEF IInv, Protocol, TypeOK, StartTest, Goto
<1>1. CASE Spawn(c)
  <2> PICK t \in FreeNames :
        /\ tpc' = [tpc EXCEPT ![t] = "prepare"]
        /\ threads' = [threads EXCEPT ![SideOf(c)] = @ \cup {t}]
        /\ making' = [making EXCEPT ![c] = t]
    BY <1>1 DEF Spawn
  <2>1. /\ \A s \in Sides : threads[s] \ loose = {}
        /\ \A d \in Sides : ended[d]
        /\ sem' = sem /\ cpc' = [cpc EXCEPT ![c] = "insert"]
        /\ SideOf(c) \in Sides
    BY <1>1, SpawnAlone DEF Spawn, SideOf, Sides
  <2>2. t \in Threads /\ tpc[t] = "free" /\ \A s \in Sides : t \notin threads[s]
    BY DEF FreeNames, ThreadsKept
  <2>3. \A s \in Sides : \A u \in threads'[s] : u \in loose \/ (s = SideOf(c) /\ u = t)
    BY <2>1
  <2>4. SemaphoreOwned'
    BY <2>1, <2>2, ThreadsDistinct DEF SemaphoreOwned, Holders
  <2>5. OneStream'
    BY <2>3 DEF OneStream
  <2>6. ThreadsKept'
    BY <2>1, <2>2 DEF ThreadsKept
  <2>7. StartsKept'
    BY <2>1, <2>2 DEF StartsKept, Streaming
  <2>8. PendingEnded'
    BY <2>1 DEF PendingEnded
  <2>9. StopIsSeen' /\ DestructorAlone'
    BY <2>1 DEF StopIsSeen, SideOf, DestructorAlone
  <2>10. StreamingFlagged'
    BY <2>2, <2>3 DEF StreamingFlagged, Streaming
  <2> QED
    BY <2>4, <2>5, <2>6, <2>7, <2>8, <2>9, <2>10
<1>2. CASE FallThrough(c)
  <2> USE <1>2 DEF FallThrough
  <2>1. SemaphoreOwned'
    BY ThreadsDistinct DEF SemaphoreOwned, Holders
  <2>2. OneStream' /\ ThreadsKept' /\ PendingEnded'
    BY DEF OneStream, ThreadsKept, PendingEnded
  <2>2a. StartsKept'
    BY DEF StartsKept, Streaming
  <2>3. StopIsSeen' /\ DestructorAlone'
    BY DEF StopIsSeen, SideOf, DestructorAlone
  <2>4. StreamingFlagged'
    BY DEF StreamingFlagged, Streaming, SideOf
  <2> QED
    BY <2>1, <2>2, <2>2a, <2>3, <2>4
<1> QED
  BY <1>1, <1>2

LEMMA SideKept ==
  ASSUME NEW c, UNCHANGED call
  PROVE  SideOf(c) \in Sides /\ SideOf(c)' = SideOf(c)
BY DEF SideOf, Sides

LEMMA EndStoreProtocol ==
  ASSUME IInv, NEW c \in Clients, EndStore(c)
  PROVE  Protocol'
<1> USE DEF IInv, Protocol, TypeOK, EndStore, Goto
<1>1. SemaphoreOwned'
  BY ThreadsDistinct DEF SemaphoreOwned, Holders
<1>2. OneStream' /\ ThreadsKept' /\ PendingEnded'
  BY DEF OneStream, ThreadsKept, PendingEnded
<1>2a. StartsKept'
  BY DEF StartsKept, Streaming
<1>3. StopIsSeen'
  BY SideKept DEF StopIsSeen
<1>4. DestructorAlone'
  BY DEF DestructorAlone
<1>5. StreamingFlagged'
  BY SideKept DEF StreamingFlagged, Streaming
<1> QED
  BY <1>1, <1>2, <1>2a, <1>3, <1>4, <1>5

\* Whoever joins holds the semaphore: every thread left has its stream open.
LEMMA JoinedStream ==
  ASSUME IInv, NEW c \in Clients, cpc[c] = "endJoin"
  PROVE  \A s \in Sides : \A t \in threads[s] : t \in Threads /\ Streaming(t)
<1> SUFFICES ASSUME NEW s \in Sides, NEW t \in threads[s]
             PROVE  t \in Threads /\ Streaming(t)
  OBVIOUS
<1> USE DEF IInv, Protocol, TypeOK
<1>1. t \in Threads /\ tpc[t] # "free"
  BY DEF ThreadsKept
<1>2. tpc[t] \notin {"prepare", "publish"}
  BY <1>1, ThreadsDistinct DEF SemaphoreOwned, Holders
<1> QED
  BY <1>1, <1>2 DEF Streaming, ThreadPCs

LEMMA EndJoinProtocol ==
  ASSUME IInv, NEW c \in Clients, EndJoin(c)
  PROVE  Protocol'
<1> USE DEF IInv, Protocol, TypeOK, EndJoin, Goto, AfterEnd
<1>1. SemaphoreOwned'
  BY ThreadsDistinct DEF SemaphoreOwned, Holders
<1>2. OneStream' /\ ThreadsKept' /\ PendingEnded'
  BY DEF OneStream, ThreadsKept, PendingEnded
<1>3. SideOf(c) \in Sides
  BY DEF SideOf, Sides
<1>4. StartsKept'
  BY <1>3, JoinedStream DEF StartsKept, Streaming
<1>5. StopIsSeen'
  BY SideKept DEF StopIsSeen
<1>6. DestructorAlone'
  BY DEF DestructorAlone
<1>7. StreamingFlagged'
  BY <1>3, SideKept DEF StreamingFlagged, Streaming
<1> QED
  BY <1>1, <1>2, <1>4, <1>5, <1>6, <1>7

\* emplace_back returns and with it the call.
LEMMA InsertProtocol ==
  ASSUME IInv, NEW c \in Clients, Insert(c)
  PROVE  Protocol'
<1>1. /\ cpc[c] \notin HolderPCs \cup DtorPCs /\ "idle" \notin HolderPCs \cup DtorPCs
      /\ cpc' = [cpc EXCEPT ![c] = "idle"]
      /\ UNCHANGED <<sem, ended, threads, loose, tpc, call, destroyed>>
      /\ making' = [making EXCEPT ![c] = NoThread]
  BY DEF Insert, Goto, HolderPCs, DtorPCs
<1>2. ~destroyed
  BY DEF Insert, IInv, Protocol, DestructorAlone
<1>3. call[c] \in CallSet \cup {NoCall}
  BY DEF IInv, TypeOK
<1> QED
  BY <1>1, <1>2, <1>3, ClientOutside

LEMMA DeleteProtocol ==
  ASSUME IInv, NEW c \in Clients, ~destroyed, NEW k \in CallSet, CallDelete(c, k)
  PROVE  Protocol'
<1> USE DEF IInv, Protocol, TypeOK, CallDelete, Begin, Goto
<1>1. SemaphoreOwned'
  BY ThreadsDistinct DEF SemaphoreOwned, Holders
<1>2. OneStream' /\ ThreadsKept' /\ PendingEnded'
  BY DEF OneStream, ThreadsKept, PendingEnded
<1>2a. StartsKept'
  BY DEF StartsKept, Streaming
<1>3. StopIsSeen'
  BY DEF StopIsSeen
<1>4. DestructorAlone'
  BY DEF DestructorAlone
<1>5. StreamingFlagged'
  BY DEF StreamingFlagged
<1> QED
  BY <1>1, <1>2, <1>2a, <1>3, <1>4, <1>5

\* The destructor's own steps; with it running no client starts or stops.
LEMMA DestructorProtocol ==
  ASSUME IInv, NEW c \in Clients, DtorStore(c) \/ DtorJoinIn(c) \/ DtorJoinOut(c)
  PROVE  Protocol'
<1> USE DEF IInv, Protocol, TypeOK, Goto
<1> DEFINE l == IF cpc[c] = "dtorStore" THEN "dtorJoinIn"
                ELSE IF cpc[c] = "dtorJoinIn" THEN "dtorJoinOut" ELSE "idle"
<1>1. /\ cpc[c] \in DtorPCs /\ destroyed /\ destroyed'
      /\ cpc' = [cpc EXCEPT ![c] = l] /\ l \in DtorPCs \cup {"idle"}
      /\ UNCHANGED <<sem, threads, starts, tpc>>
      /\ UNCHANGED ended \/ \A s \in Sides : ended'[s]
  BY DEF DtorStore, DtorJoinIn, DtorJoinOut, DestructorAlone, DtorPCs
<1> HIDE DEF l
<1>2. \A d \in Clients : cpc'[d] \in DtorPCs \cup {"idle"}
  BY <1>1 DEF DestructorAlone, DtorPCs
<1>3. SemaphoreOwned'
  BY <1>1, <1>2 DEF SemaphoreOwned, Holders, DestructorAlone, DtorPCs
<1>4. OneStream' /\ ThreadsKept' /\ PendingEnded'
  BY <1>1 DEF OneStream, ThreadsKept, PendingEnded
<1>4a. StartsKept'
  BY <1>1 DEF StartsKept, Streaming, DtorPCs
<1>5. StopIsSeen' /\ DestructorAlone' /\ StreamingFlagged'
  BY <1>1, <1>2 DEF StopIsSeen, DestructorAlone, StreamingFlagged, DtorPCs
<1> QED
  BY <1>3, <1>4, <1>4a, <1>5

\* A thread returns.
LEMMA ReturnProtocol ==
  ASSUME IInv, NEW s \in Sides, NEW t \in threads[s], Returns(s, t),
         UNCHANGED <<ended, making, cpc, call, destroyed>>
  PROVE  OneStream' /\ ThreadsKept' /\ StartsKept' /\ PendingEnded' /\ StopIsSeen'
         /\ DestructorAlone' /\ StreamingFlagged'
<1> USE DEF IInv, Protocol, TypeOK, Returns
<1>1. t \in Threads /\ \A r \in Sides : t \notin threads'[r] /\ threads'[r] = threads[r] \ {t}
  BY DEF ThreadsKept
<1>2. tpc'[t] = "free" /\ \A u \in Threads : u # t => tpc'[u] = tpc[u]
  BY <1>1
<1>3. \A r \in Sides : threads'[r] \ loose' \subseteq threads[r] \ loose
  BY <1>1
<1>4. OneStream'
  BY <1>3 DEF OneStream
<1>5. ThreadsKept' /\ PendingEnded'
  BY <1>1, <1>2 DEF ThreadsKept, PendingEnded
<1>6. StartsKept'
  BY <1>2 DEF StartsKept, Streaming
<1>7. StopIsSeen' /\ DestructorAlone'
  BY SideKept DEF StopIsSeen, DestructorAlone
<1>8. StreamingFlagged'
  <2> SUFFICES ASSUME NEW r \in Sides, NEW u \in threads'[r] \ loose',
                      Streaming(u)', ended'[r], ~destroyed'
               PROVE  \E c \in Clients : cpc'[c] = "endJoin" /\ SideOf(c)' = r
    BY DEF StreamingFlagged
  <2>1. u \in threads[r] \ loose /\ Streaming(u)
    BY <1>1, <1>2, <1>3 DEF Streaming
  <2> QED
    BY <2>1, SideKept DEF StreamingFlagged
<1> QED
  BY <1>4, <1>5, <1>6, <1>7, <1>8

LEMMA GiveUpProtocol ==
  ASSUME IInv, NEW s \in Sides, NEW t \in threads[s], GiveUp(s, t)
  PROVE  Protocol'
<1> USE DEF IInv, Protocol, TypeOK, GiveUp, cvars
<1>1. SemaphoreOwned'
  BY ThreadsDistinct DEF SemaphoreOwned, Holders, Returns
<1> QED
  BY <1>1, ReturnProtocol

LEMMA LeavingProtocol ==
  ASSUME IInv, NEW s \in Sides, NEW t \in threads[s],
         OpenRefused(s, t) \/ LoopExit(s, t)
  PROVE  Protocol'
<1> USE DEF IInv, Protocol, TypeOK, OpenRefused, LoopExit, cvars
<1>1. SemaphoreOwned'
  BY ThreadsDistinct DEF SemaphoreOwned, Holders, Returns
<1> QED
  BY <1>1, ReturnProtocol

LEMMA PrepareProtocol ==
  ASSUME IInv, NEW s \in Sides, NEW t \in threads[s], Prepare(s, t)
  PROVE  Protocol'
<1> USE DEF IInv, Protocol, TypeOK, Prepare, cvars
<1>1. SemaphoreOwned'
  BY ThreadsDistinct DEF SemaphoreOwned, Holders
<1>2. OneStream' /\ ThreadsKept' /\ PendingEnded'
  BY DEF OneStream, ThreadsKept, PendingEnded
<1>2a. StartsKept'
  BY DEF StartsKept, Streaming
<1>3. StopIsSeen'
  BY SideKept DEF StopIsSeen
<1>4. DestructorAlone'
  BY DEF DestructorAlone
<1>5. StreamingFlagged'
  BY SideKept DEF StreamingFlagged, Streaming
<1> QED
  BY <1>1, <1>2, <1>2a, <1>3, <1>4, <1>5

\* A starting thread holds the semaphore, so no stop is in progress when it
\* stores false in its flag.
LEMMA PublishProtocol ==
  ASSUME IInv, NEW s \in Sides, NEW t \in threads[s], Publish(s, t)
  PROVE  Protocol'
<1> USE DEF IInv, Protocol, TypeOK, Publish, cvars
<1>1. \A d \in Clients : cpc[d] # "endJoin"
  BY ThreadsDistinct DEF SemaphoreOwned, Holders
<1>2. SemaphoreOwned'
  BY ThreadsDistinct DEF SemaphoreOwned, Holders
<1>3. OneStream' /\ ThreadsKept' /\ StartsKept'
  BY DEF OneStream, ThreadsKept, StartsKept, Streaming
<1>4. PendingEnded'
  BY DEF PendingEnded, SemaphoreOwned, Holders
<1>5. StopIsSeen' /\ DestructorAlone'
  BY <1>1 DEF StopIsSeen, DestructorAlone
<1>6. StreamingFlagged'
  <2>1. t \notin loose
    BY DEF StartsKept, Streaming
  <2>2. \A r \in Sides : \A u \in threads'[r] \ loose' : r = s
    BY <2>1 DEF OneStream
  <2> QED
    BY <2>2 DEF StreamingFlagged
<1> QED
  BY <1>2, <1>3, <1>4, <1>5, <1>6

----------------------------------------------------------------------------
(****************************************************************************)
(* Calls and copying only move clients and threads outside the protocol.    *)
(****************************************************************************)
LEMMA CallProtocol ==
  ASSUME IInv, NEW c \in Clients, Call(c)
  PROVE  Protocol'
<1> PICK k \in CallSet :
      \/ CallAdd(c, k) \/ CallRemove(c, k) \/ CallSetDevice(c, k)
      \/ CallPlayback(c, k) \/ CallPlaybackCopy(c, k) \/ CallDelete(c, k)
  BY CallsLegal DEF Call
<1>1. ~destroyed /\ cpc[c] = "idle"
  BY DEF Call
<1>2. CASE CallDelete(c, k)
  BY <1>1, <1>2, DeleteProtocol
<1>3. CASE ~CallDelete(c, k)
  <2> DEFINE Labels == {"push", "removeTest", "release", "startWait", "endWait", "copy"}
  <2>1. PICK l \in Labels : Begin(c, k, l)
    BY <1>3 DEF CallAdd, CallRemove, CallSetDevice, CallPlayback, CallPlaybackCopy
  <2>2. UNCHANGED <<sem, ended, threads, starts, tpc, destroyed>>
    BY <1>3 DEF CallAdd, CallRemove, CallSetDevice, CallPlayback, CallPlaybackCopy
  <2>3. /\ cpc[c] \notin HolderPCs \cup DtorPCs /\ l \notin HolderPCs \cup DtorPCs
        /\ cpc' = [cpc EXCEPT ![c] = l] /\ call' = [call EXCEPT ![c] = k]
    BY <1>1, <2>1 DEF HolderPCs, DtorPCs, Begin, Goto
  <2> QED
    BY <1>1, <2>2, <2>3, ClientOutside
<1> QED
  BY <1>2, <1>3

LEMMA OutsideProtocol ==
  ASSUME IInv, NEW c \in Clients,
         \/ Push(c) \/ AddTest(c) \/ RemoveTest(c) \/ Erase(c)
         \/ Release(c) \/ Install(c) \/ ReadFlag(c) \/ CopyClientDone(c)
  PROVE  Protocol'
<1> DEFINE From == {"push", "addTest", "removeTest", "erase", "release", "install",
                    "readFlag", "copy"}
           To == From \cup {"startWait", "endWait", "idle"}
<1>1. cpc[c] \in From
  BY DEF Push, AddTest, RemoveTest, Erase, Release, Install, ReadFlag, CopyClientDone
<1>2. PICK l \in To : Goto(c, l)
  BY DEF Push, AddTest, RemoveTest, Erase, Release, Install, ReadFlag, CopyClientDone
<1>3. UNCHANGED <<sem, ended, threads, starts, tpc, call, destroyed>> /\ cpc[c] # "insert"
  BY DEF Push, AddTest, RemoveTest, Erase, Release, Install, ReadFlag, CopyClientDone
<1>4. ~destroyed
  BY <1>1 DEF IInv, Protocol, DestructorAlone
<1>5. call[c] \in CallSet \cup {NoCall}
  BY DEF IInv, TypeOK
<1>6. /\ cpc[c] \notin HolderPCs \cup DtorPCs /\ l \notin HolderPCs \cup DtorPCs
      /\ cpc' = [cpc EXCEPT ![c] = l]
  BY <1>1, <1>2 DEF HolderPCs, DtorPCs, Goto
<1> QED
  BY <1>3, <1>4, <1>5, <1>6, ClientOutside

\* Steps that leave the whole protocol alone.
LEMMA UnchangedProtocol ==
  ASSUME IInv, UNCHANGED <<sem, ended, threads, starts, tpc, cpc, call, destroyed>>
  PROVE  Protocol'
BY DEF IInv, Protocol, SemaphoreOwned, Holders, OneStream, StopIsSeen, SideOf,
       ThreadsKept, StartsKept, PendingEnded, DestructorAlone, StreamingFlagged, Streaming

LEMMA ThreadProtocol ==
  ASSUME IInv, NEW t \in Threads, ThreadStep(t)
  PROVE  Protocol'
<1>1. ASSUME NEW s \in Sides, t \in threads[s],
             \/ GiveUp(s, t) \/ Prepare(s, t) \/ Publish(s, t)
             \/ OpenRefused(s, t) \/ LoopExit(s, t)
      PROVE  Protocol'
  BY <1>1, GiveUpProtocol, PrepareProtocol, PublishProtocol, LeavingProtocol
<1>2. ASSUME NEW s \in Sides, Open(s, t) \/ LoopBody(s, t)
      PROVE  Protocol'
  <2>1. /\ Streaming(t)
        /\ \/ UNCHANGED tpc
           \/ tpc' = [tpc EXCEPT ![t] = "loop"]
           \/ tpc' = [tpc EXCEPT ![t] = "copy"]
        /\ UNCHANGED <<sem, ended, threads, starts, cpc, call, destroyed>>
    BY <1>2 DEF Open, LoopBody, Streaming, cvars
  <2> QED
    BY <2>1, ThreadOutside
<1>3. CASE CopyThreadDone(t)
  <2>1. /\ Streaming(t) /\ tpc' = [tpc EXCEPT ![t] = "loop"]
        /\ UNCHANGED <<sem, ended, threads, starts, cpc, call, destroyed>>
    BY <1>3 DEF CopyThreadDone, Streaming, cvars
  <2> QED
    BY <2>1, ThreadOutside
<1>4. CASE \/ \E s \in Sides : OpenFails(s, t) \/ PureCall(s, t)
           \/ CopyOne(t) \/ CopyNextList(t)
  BY <1>4, UnchangedProtocol DEF OpenFails, PureCall, CopyOne, CopyNextList, cvars
<1> QED
  BY <1>1, <1>2, <1>3, <1>4 DEF ThreadStep

LEMMA ProtocolStep ==
  ASSUME IInv, [Next]_vars
  PROVE  Protocol'
<1>1. ASSUME NEW c \in Clients, Call(c) \/ ClientStep(c)
      PROVE  Protocol'
  <2>1. CASE CopyOne(c) \/ Trample(c)
    BY <2>1, UnchangedProtocol DEF CopyOne, Trample, cvars
  <2> QED
    BY <1>1, <2>1, CallProtocol, OutsideProtocol, WaitProtocol, StartTestProtocol,
       InsertProtocol, EndStoreProtocol, EndJoinProtocol, DestructorProtocol DEF ClientStep
<1>2. ASSUME NEW p \in Procs, UseInvalid(p)
      PROVE  Protocol'
  BY <1>2, UnchangedProtocol DEF UseInvalid, cvars
<1>3. CASE UNCHANGED vars
  BY <1>3, UnchangedProtocol DEF vars
<1> QED
  BY <1>1, <1>2, <1>3, ThreadProtocol DEF Next, Step

----------------------------------------------------------------------------
(****************************************************************************)
(* Types.                                                                   *)
(****************************************************************************)

\* erase keeps a list of sinks a list of sinks.
LEMMA WithoutSeq ==
  ASSUME NEW S, NEW seq \in Seq(S), NEW i \in 1 .. Len(seq)
  PROVE  Without(seq, i) \in Seq(S)
<1>1. Len(seq) \in Nat
  BY LenProperties
<1>2. /\ SubSeq(seq, 1, i - 1) \in Seq(S)
      /\ SubSeq(seq, i + 1, Len(seq)) \in Seq(S)
  BY <1>1, SubSeqProperties
<1> QED
  BY <1>2, ConcatProperties DEF Without

\* Pointing one iterator at a position, or dropping it.
LEMMA IterUpdate ==
  ASSUME iter \in [Procs -> Iters], NEW p, NEW l \in Lists \cup {"none"}, NEW i \in Nat,
         iter' = [iter EXCEPT ![p] = [list |-> l, at |-> i]]
  PROVE  iter' \in [Procs -> Iters]
<1>1. [list |-> l, at |-> i] \in Iters
  BY DEF Iters
<1> HIDE DEF Iters
<1> QED
  BY <1>1

\* The variables a call's first step may change.
LEMMA CallType ==
  ASSUME IInv, NEW c \in Clients, Call(c)
  PROVE  TypeOK' /\ InstallsDevice'
<1> USE DEF IInv
<1> PICK k \in CallSet :
      \/ CallAdd(c, k) \/ CallRemove(c, k) \/ CallSetDevice(c, k)
      \/ CallPlayback(c, k) \/ CallPlaybackCopy(c, k) \/ CallDelete(c, k)
  BY CallsLegal DEF Call
<1> DEFINE Labels == {"push", "removeTest", "release", "startWait", "endWait", "copy",
                      "dtorStore"}
<1>1. PICK l \in Labels : /\ Begin(c, k, l)
                          /\ l = "release" => k.arg \in Inputs \cup Outputs
  BY DEF CallAdd, CallRemove, CallSetDevice, CallPlayback, CallPlaybackCopy, CallDelete,
         Devices
<1>2. cpc' \in [Clients -> CallPCs] /\ call' \in [Clients -> CallSet \cup {NoCall}]
  BY <1>1 DEF Begin, Goto, TypeOK, CallPCs
<1>3. InstallsDevice'
  BY <1>1 DEF Begin, Goto, InstallsDevice, TypeOK
<1>4. iter' \in [Procs -> Iters]
  <2>1. CASE CallRemove(c, k)
    <3>1. PICK lst \in Lists : \E i \in 1 .. Len(sinks[lst]) :
            iter' = [iter EXCEPT ![c] = [list |-> lst, at |-> i]]
      BY <2>1 DEF CallRemove
    <3>2. \A i \in 1 .. Len(sinks[lst]) : i \in Nat
      BY LenProperties DEF TypeOK
    <3> QED
      BY <3>1, <3>2, IterUpdate DEF TypeOK
  <2>2. CASE CallPlaybackCopy(c, k)
    BY <2>2, IterUpdate DEF CallPlaybackCopy, TypeOK, Lists
  <2> QED
    BY <2>1, <2>2 DEF CallAdd, CallSetDevice, CallPlayback, CallDelete, ivars, TypeOK
<1>5. UNCHANGED <<sem, ended, sinks, threads, starts, device, prev, tpc, stale, crashed>>
  BY DEF CallAdd, CallRemove, CallSetDevice, CallPlayback, CallPlaybackCopy, CallDelete,
         ivars
<1>6. playbackBuffer' \in BOOLEAN /\ destroyed' \in BOOLEAN
  BY DEF CallAdd, CallRemove, CallSetDevice, CallPlayback, CallPlaybackCopy, CallDelete,
         TypeOK
<1> QED
  BY <1>2, <1>3, <1>4, <1>5, <1>6 DEF TypeOK

LEMMA CopyOneType ==
  ASSUME IInv, NEW p \in Procs, CopyOne(p)
  PROVE  TypeOK' /\ InstallsDevice'
<1> USE DEF IInv
<1>1. iter[p] \in Iters
  BY DEF TypeOK
<1>2. PICK l \in Lists \cup {"none"}, i \in Nat : iter[p] = [list |-> l, at |-> i]
  BY <1>1 DEF Iters
<1>3. iter' = [iter EXCEPT ![p] = [list |-> l, at |-> i + 1]]
  BY <1>2 DEF CopyOne
<1>4. iter' \in [Procs -> Iters]
  <2>1. i + 1 \in Nat /\ iter \in [Procs -> Iters]
    BY DEF TypeOK
  <2> QED
    BY <1>3, <2>1, IterUpdate
<1> QED
  BY <1>4 DEF CopyOne, TypeOK, InstallsDevice, cvars

\* Registering and removing a sink.
LEMMA SinkType ==
  ASSUME IInv, NEW c \in Clients,
         Push(c) \/ AddTest(c) \/ RemoveTest(c) \/ Erase(c) \/ CopyClientDone(c)
  PROVE  TypeOK' /\ InstallsDevice'
<1> USE DEF IInv
<1>1. sinks' \in [Lists -> Seq(Args)]
  <2>1. CASE Push(c)
    <3>1. call[c].arg \in Args
      BY DEF TypeOK, CallSet, NoCall, Args
    <3> QED
      BY <2>1, <3>1, AppendProperties DEF Push, TypeOK
  <2>2. CASE Erase(c)
    BY <2>2, WithoutSeq DEF Erase, TypeOK, ListOf, Lists
  <2> QED
    BY <2>1, <2>2 DEF AddTest, RemoveTest, CopyClientDone, TypeOK
<1>2. cpc' \in [Clients -> CallPCs]
  BY DEF Push, AddTest, RemoveTest, Erase, CopyClientDone, Goto, TypeOK, CallPCs
<1>3. iter' \in [Procs -> Iters]
  <2>1. UNCHANGED iter \/ iter' = [iter EXCEPT ![c] = [list |-> "none", at |-> 0]]
    BY DEF Push, AddTest, RemoveTest, Erase, CopyClientDone, Drop, NoIter, ivars
  <2> QED
    BY <2>1, IterUpdate DEF TypeOK
<1>3a. stale' \in SUBSET Procs
  BY DEF Push, AddTest, RemoveTest, Erase, CopyClientDone, Drop, TypeOK,
         Holding, Beyond, ivars
<1>4. UNCHANGED <<sem, ended, threads, starts, device, playbackBuffer, call, prev, tpc,
                  crashed, destroyed>>
  BY DEF Push, AddTest, RemoveTest, Erase, CopyClientDone
<1>5. InstallsDevice'
  BY <1>4 DEF Push, AddTest, RemoveTest, Erase, CopyClientDone, Goto, TypeOK,
              InstallsDevice
<1> QED
  BY <1>1, <1>2, <1>3, <1>3a, <1>4, <1>5 DEF TypeOK

\* Starting and stopping; the holder of the semaphore finds it taken.
LEMMA StartStopType ==
  ASSUME IInv, NEW c \in Clients,
         \/ StartWait(c) \/ StartTest(c) \/ Insert(c)
         \/ EndWait(c) \/ EndStore(c) \/ EndJoin(c)
  PROVE  TypeOK' /\ InstallsDevice'
<1> USE DEF IInv, StartWait, EndWait, Wait, StartTest, Spawn, FallThrough, FreeNames,
            Insert, EndStore, EndJoin, Goto
<1>1. sem' \in {0, 1}
  BY DEF TypeOK, Protocol, SemaphoreOwned, Holders
<1>2. SideOf(c) \in Sides
  BY DEF SideOf, Sides
<1>3. ended' \in [Sides -> BOOLEAN]
  BY <1>2 DEF TypeOK
<1>4. threads' \in [Sides -> SUBSET Threads]
  BY <1>2 DEF TypeOK
<1>4b. making' \in [Clients -> Threads \cup {NoThread}] /\ loose' \in SUBSET Threads
  BY <1>2 DEF TypeOK
<1>4a. tpc' \in [Threads -> ThreadPCs]
  BY DEF TypeOK, ThreadPCs
<1>5. cpc' \in [Clients -> CallPCs] /\ playbackBuffer' \in BOOLEAN
  BY DEF TypeOK, CallPCs, AfterEnd
<1>6. UNCHANGED <<sinks, device, call, prev, iter, stale, crashed, destroyed>>
  BY DEF ivars
<1>7. InstallsDevice'
  BY <1>6 DEF InstallsDevice, TypeOK, AfterEnd
<1> QED
  BY <1>1, <1>3, <1>4, <1>4a, <1>4b, <1>5, <1>6, <1>7 DEF TypeOK

LEMMA DeviceType ==
  ASSUME IInv, NEW c \in Clients,
         \/ Release(c) \/ Install(c) \/ ReadFlag(c)
         \/ DtorStore(c) \/ DtorJoinIn(c) \/ DtorJoinOut(c)
  PROVE  TypeOK' /\ InstallsDevice'
<1> USE DEF IInv, Release, Install, ReadFlag, DtorStore, DtorJoinIn, DtorJoinOut, Goto
<1>1. SideOf(c) \in Sides
  BY DEF SideOf, Sides
<1>2. device' \in [Sides -> Inputs \cup Outputs \cup {NoDevice, Freed}]
  BY <1>1 DEF TypeOK, InstallsDevice
<1>3. ended' \in [Sides -> BOOLEAN] /\ prev' \in [Clients -> BOOLEAN]
  BY <1>1 DEF TypeOK
<1>4. cpc' \in [Clients -> CallPCs] /\ playbackBuffer' \in BOOLEAN
  BY DEF TypeOK, CallPCs
<1>5. UNCHANGED <<sem, sinks, threads, starts, call, tpc, iter, stale, crashed, destroyed>>
  BY DEF ivars
<1>6. InstallsDevice'
  BY <1>5 DEF InstallsDevice, TypeOK
<1> QED
  BY <1>2, <1>3, <1>4, <1>5, <1>6 DEF TypeOK

LEMMA ThreadType ==
  ASSUME IInv, NEW t \in Threads, ThreadStep(t)
  PROVE  TypeOK' /\ InstallsDevice'
<1> USE DEF IInv
<1>1. CASE CopyOne(t)
  BY <1>1, CopyOneType DEF Procs
<1>2. CASE CopyNextList(t) \/ CopyThreadDone(t)
  <2>1. iter' \in [Procs -> Iters] /\ stale' \in SUBSET Procs
    BY <1>2, IterUpdate DEF CopyNextList, CopyThreadDone, Drop, TypeOK, NoIter, Lists
  <2>2. tpc' \in [Threads -> ThreadPCs]
    BY <1>2 DEF CopyNextList, CopyThreadDone, TypeOK, ThreadPCs
  <2> QED
    BY <1>2, <2>1, <2>2 DEF CopyNextList, CopyThreadDone, TypeOK, InstallsDevice, cvars
<1>3. ASSUME NEW s \in Sides, t \in threads[s],
             \/ GiveUp(s, t) \/ Prepare(s, t) \/ Publish(s, t)
             \/ Open(s, t) \/ OpenFails(s, t) \/ OpenRefused(s, t) \/ PureCall(s, t)
             \/ LoopBody(s, t) \/ LoopExit(s, t)
      PROVE  TypeOK' /\ InstallsDevice'
  <2> USE DEF GiveUp, Prepare, Publish, PureCall, Open, OpenFails, OpenRefused, LoopBody, LoopExit,
              Returns
  <2>1. sem' \in {0, 1}
    BY <1>3, ThreadsDistinct DEF TypeOK, Protocol, SemaphoreOwned, Holders
  <2>2. ended' \in [Sides -> BOOLEAN]
    BY <1>3 DEF TypeOK
  <2>3. threads' \in [Sides -> SUBSET Threads]
    BY <1>3 DEF TypeOK
  <2>3b. tpc' \in [Threads -> ThreadPCs]
    BY <1>3 DEF TypeOK, ThreadPCs
  <2>3a. making' = making /\ loose' \in SUBSET Threads
    BY <1>3 DEF TypeOK
  <2>4. device' \in [Sides -> Inputs \cup Outputs \cup {NoDevice, Freed}]
    BY <1>3 DEF TypeOK, Devices
  <2>5. iter' \in [Procs -> Iters]
    BY <1>3, IterUpdate DEF TypeOK, Lists, ivars
  <2>6. playbackBuffer' \in BOOLEAN /\ crashed' \in BOOLEAN
    BY <1>3 DEF TypeOK
  <2>7. UNCHANGED <<sinks, cpc, call, prev, stale, destroyed>>
    BY <1>3 DEF cvars, ivars
  <2>8. InstallsDevice'
    BY <2>7 DEF InstallsDevice
  <2> QED
    BY <2>1, <2>2, <2>3, <2>3a, <2>3b, <2>4, <2>5, <2>6, <2>7, <2>8 DEF TypeOK
<1> QED
  BY <1>1, <1>2, <1>3 DEF ThreadStep

LEMMA TypeStep ==
  ASSUME IInv, [Next]_vars
  PROVE  TypeOK' /\ InstallsDevice'
<1>1. ASSUME NEW c \in Clients, Call(c) \/ ClientStep(c)
      PROVE  TypeOK' /\ InstallsDevice'
  <2>1. CASE Trample(c)
    BY <2>1 DEF Trample, IInv, TypeOK, InstallsDevice
  <2> QED
    BY <1>1, <2>1, CallType, SinkType, StartStopType, DeviceType, CopyOneType
       DEF ClientStep, Procs
<1>2. ASSUME NEW p \in Procs, UseInvalid(p)
      PROVE  TypeOK' /\ InstallsDevice'
  BY <1>2 DEF UseInvalid, cvars, ivars, IInv, TypeOK, InstallsDevice
<1>3. CASE UNCHANGED vars
  BY <1>3 DEF vars, IInv, TypeOK, InstallsDevice
<1> QED
  BY <1>1, <1>2, <1>3, ThreadType DEF Next, Step

LEMMA IInvStep ==
  ASSUME IInv, [Next]_vars
  PROVE  IInv'
BY TypeStep, ProtocolStep DEF IInv

\* Types, and who may be where in the starting and stopping of a thread.
THEOREM Invariance == Spec => []IInv
<1>1. Init => IInv
  BY InitIInv
<1>2. IInv /\ [Next]_vars => IInv'
  BY IInvStep
<1> QED
  BY <1>1, <1>2, PTL DEF Spec

----------------------------------------------------------------------------
(****************************************************************************)
(* What follows from the inductive invariant.                               *)
(****************************************************************************)

\* Types, and with them stateSem.count never above one: no execution of
\* startRecord, endRecord, startPlayback, endPlayback, backgroundCapture and
\* backgroundPlayback notifies the semaphore twice.
THEOREM TypeCorrect == Spec => []TypeOK
<1>1. IInv => TypeOK
  BY DEF IInv
<1> QED
  BY <1>1, Invariance, PTL

\* The semaphore is taken exactly when one client or one starting thread still
\* has to notify it.
THEOREM SemaphoreCorrect == Spec => []SemaphoreOwned
<1>1. IInv => SemaphoreOwned
  BY DEF IInv, Protocol
<1> QED
  BY <1>1, Invariance, PTL

\* Capture and playback exclude each other and themselves: of the threads of
\* inThreads and outThreads one at most runs, but for those that a stop came too
\* early to join, before emplace_back had put them in their vector.
THEOREM OneStreamAlways == Spec => []OneStream
<1>1. IInv => OneStream
  BY DEF IInv, Protocol
<1> QED
  BY <1>1, Invariance, PTL

\* While endRecord or endPlayback joins, its stop flag stays true.
THEOREM StopIsSeenAlways == Spec => []StopIsSeen
<1>1. IInv => StopIsSeen
  BY DEF IInv, Protocol
<1> QED
  BY <1>1, Invariance, PTL

\* A flag says "running" only while a thread runs.  A thread that gives up has
\* not stored its flag yet (PendingEnded), one that leaves its loop has found it
\* true, and no other thread is there whose flag it could leave behind
\* (OneStream); the refused playback is the only one that may.
LEMMA PhantomStep ==
  ASSUME IInv, NoPhantomStream, [Next]_vars
  PROVE  NoPhantomStream'
<1> USE DEF NoPhantomStream
<1>1. ASSUME UNCHANGED threads, destroyed => destroyed',
             UNCHANGED ended \/ \E s \in Sides : ended' = [ended EXCEPT ![s] = TRUE]
      PROVE  NoPhantomStream'
  BY <1>1 DEF IInv, TypeOK
<1>2. ASSUME NEW c \in Clients, Call(c) PROVE NoPhantomStream'
  <2>1. /\ UNCHANGED <<threads, ended>>
        /\ destroyed => destroyed'
    BY <1>2 DEF Call, CallAdd, CallRemove, CallSetDevice, CallPlayback, CallPlaybackCopy,
                CallDelete
  <2> QED
    BY <1>1, <2>1
<1>3. ASSUME NEW c \in Clients, ClientStep(c) PROVE NoPhantomStream'
  <2>1. CASE StartTest(c)
    <3>1. SideOf(c) \in Sides
      BY DEF SideOf, Sides
    <3>2. \A s \in Sides : threads[s] \subseteq threads'[s]
      BY <2>1, <3>1 DEF StartTest, Spawn, FallThrough, IInv, TypeOK
    <3> QED
      BY <2>1, <3>2 DEF StartTest
  <2>2. CASE EndStore(c)
    <3>1. SideOf(c) \in Sides
      BY DEF SideOf, Sides
    <3> QED
      BY <1>1, <2>2, <3>1 DEF EndStore
  <2>3. CASE DtorStore(c)
    BY <2>3 DEF DtorStore
  <2>4. CASE ~StartTest(c) /\ ~EndStore(c) /\ ~DtorStore(c)
    <3>1. UNCHANGED <<threads, ended, destroyed>>
      BY <1>3, <2>4 DEF ClientStep, Push, AddTest, RemoveTest, Erase, StartWait, EndWait,
           Wait, Insert, Trample, EndJoin, Release, Install, ReadFlag, DtorJoinIn,
           DtorJoinOut, CopyOne, CopyClientDone
    <3> QED
      BY <1>1, <3>1
  <2> QED
    BY <2>1, <2>2, <2>3, <2>4
<1>4. ASSUME NEW t \in Threads, ThreadStep(t) PROVE NoPhantomStream'
  <2>1. ASSUME NEW s \in Sides, t \in threads[s], GiveUp(s, t) PROVE NoPhantomStream'
    <3>1. \A r \in Sides : ended[r]
      BY <2>1 DEF GiveUp, IInv, TypeOK, Protocol, PendingEnded
    <3> QED
      BY <2>1, <3>1 DEF GiveUp
  <2>2. ASSUME NEW s \in Sides, t \in threads[s], OpenRefused(s, t) \/ LoopExit(s, t)
        PROVE  NoPhantomStream'
    <3>1. \A r \in Sides : r # s => threads'[r] = threads[r]
      <4>1. threads' = [threads EXCEPT ![s] = @ \ {t}]
        BY <2>2 DEF OpenRefused, LoopExit, Returns
      <4> QED
        BY <4>1 DEF IInv, TypeOK
    <3>2. /\ UNCHANGED <<ended, destroyed>>
          /\ ended[s] \/ (s = "out" /\ ("noid" \in MayFail \/ destroyed))
      BY <2>2 DEF OpenRefused, LoopExit
    <3> QED
      <4>1. ASSUME NEW r \in Sides, ~ended'[r]
            PROVE  threads'[r] # {} \/ (r = "out" /\ ("noid" \in MayFail \/ destroyed'))
        BY <3>1, <3>2, <4>1
      <4> QED
        BY <4>1
  <2>3. ASSUME NEW s \in Sides, t \in threads[s], Publish(s, t) PROVE NoPhantomStream'
    <3>1. UNCHANGED <<threads, destroyed>> /\ \A r \in Sides : r # s => ended'[r] = ended[r]
      BY <2>3 DEF Publish, IInv, TypeOK
    <3> QED
      BY <2>3, <3>1
  <2>4. ASSUME UNCHANGED <<threads, ended, destroyed>> PROVE NoPhantomStream'
    BY <1>1, <2>4
  <2> QED
    BY <1>4, <2>1, <2>2, <2>3, <2>4
       DEF ThreadStep, Prepare, PureCall, Open, OpenFails, LoopBody, CopyOne, CopyNextList,
           CopyThreadDone
<1>5. ASSUME UNCHANGED <<threads, ended, destroyed>> PROVE NoPhantomStream'
  BY <1>1, <1>5
<1> QED
  BY <1>2, <1>3, <1>4, <1>5 DEF Next, Step, UseInvalid, vars

\* No flag is left saying "running" by a thread that has gone, so a start that
\* falls through has found a thread.
THEOREM NoPhantomStreamEver == Spec => []NoPhantomStream
<1>1. Init => NoPhantomStream
  BY DEF Init, NoPhantomStream
<1>2. IInv /\ NoPhantomStream /\ [Next]_vars => NoPhantomStream'
  BY PhantomStep
<1> QED
  BY <1>1, <1>2, Invariance, PTL DEF Spec

----------------------------------------------------------------------------
(****************************************************************************)
(* Sinks.  Any client may call anything else, but where sinks come and go   *)
(* from one client, nothing is played and the input device stays, capture   *)
(* follows the sinks.  With two such clients it does not: see the README.   *)
(****************************************************************************)
AddOps == {"addBuffer", "addCallback"}
RemoveOps == {"removeBuffer", "removeCallback"}
OtherOps == {"endPlayback", "setActiveOutputDevice", "playbackCopyToBuffers", "delete"}

\* The hypothesis: who registers, and that capture can start when it is asked to.
OneSinkCaller(u) ==
  /\ u \in Clients
  /\ \A c \in Clients : \A k \in Calls[c] :
       k.op \in OtherOps \/ (c = u /\ k.op \in AddOps \cup RemoveOps)
  /\ Inputs # {} /\ "enumerate" \notin MayFail

\* Nothing plays, no setActive*Device call found anything playing, and u, the
\* only one to start capture, does not overtake itself.
NothingPlays ==
  /\ ended["out"] /\ threads["out"] = {} /\ loose = {}
  /\ \A c \in Clients : ~prev[c]

\* The operations a label belongs to.
Fits(label, op) ==
  /\ label \in {"push", "addTest", "startWait", "startTest", "insert"} => op \in AddOps
  /\ label \in {"removeTest", "erase"} => op \in RemoveOps
  /\ label \in {"endWait", "endStore", "endJoin"} =>
       op \in RemoveOps \cup {"endPlayback", "setActiveOutputDevice"}
  /\ label \in {"release", "install", "readFlag"} => op = "setActiveOutputDevice"
  /\ label = "copy" => op = "playbackCopyToBuffers"
  /\ label \in DtorPCs => op = "delete"

\* A call is one its client makes, and at a label of its own.
CallsMade ==
  \A c \in Clients : cpc[c] # "idle" => call[c] \in Calls[c] /\ Fits(cpc[c], call[c].op)

Total == Len(sinks["rbs"]) + Len(sinks["cbs"])
Own(u) == Len(sinks[ListOf(u)])
Capturing == threads["in"] # {}

\* u is in the endRecord of a removal.
Ending(u) == cpc[u] \in {"endWait", "endStore", "endJoin"} /\ call[u].op \in RemoveOps

\* Capture runs just when there are sinks, but for the stretch of u's call that
\* brings the two together again.
Serves(u) ==
  /\ cpc[u] \in {"addTest", "erase"} => Own(u) >= 1 /\ (Capturing <=> Total >= 2)
  /\ cpc[u] \in {"startWait", "startTest"} => Total >= 1 /\ ~Capturing
  /\ cpc[u] = "removeTest" => Own(u) >= 1 /\ Capturing
  /\ Ending(u) => Own(u) >= 1 /\ Total = 1
  /\ (/\ cpc[u] \notin {"addTest", "startWait", "startTest", "removeTest", "erase"}
      /\ ~Ending(u))
       => (Capturing <=> Total >= 1)

SinkProtocol(u) == ~destroyed => NothingPlays /\ CallsMade /\ Serves(u)

LEMMA InitSinks == ASSUME NEW u, OneSinkCaller(u), Init PROVE SinkProtocol(u)
<1>1. NothingPlays /\ CallsMade
  BY DEF Init, NothingPlays, CallsMade, Sides
<1>2. Total = 0 /\ ~Capturing /\ cpc[u] = "idle"
  BY EmptySeq DEF Init, Total, Capturing, Lists, Sides, OneSinkCaller
<1>3. Serves(u)
  BY <1>2 DEF Serves, Ending
<1> QED
  BY <1>1, <1>3 DEF SinkProtocol

\* How many sinks there are.
LEMMA SinkCounts ==
  ASSUME TypeOK, NEW c \in Clients
  PROVE  /\ Total \in Nat /\ Own(c) \in Nat /\ Own(c) <= Total
         /\ OnlySink(c) <=> Own(c) = 1 /\ Total = 1
<1>1. Len(sinks["rbs"]) \in Nat /\ Len(sinks["cbs"]) \in Nat
  BY LenProperties DEF TypeOK, Lists
<1>2. \/ ListOf(c) = "rbs" /\ OtherList(ListOf(c)) = "cbs"
      \/ ListOf(c) = "cbs" /\ OtherList(ListOf(c)) = "rbs"
  BY DEF ListOf, OtherList
<1> DEFINE r == Len(sinks["rbs"])
           b == Len(sinks["cbs"])
<1>3. Total = r + b
  BY DEF Total
<1>4. \/ Own(c) = r /\ (OnlySink(c) <=> r = 1 /\ b = 0)
      \/ Own(c) = b /\ (OnlySink(c) <=> b = 1 /\ r = 0)
  BY <1>2 DEF Own, OnlySink
<1> HIDE DEF r, b
<1>5. r \in Nat /\ b \in Nat
  BY <1>1 DEF r, b
<1> QED
  BY <1>3, <1>4, <1>5

LEMMA NoSinks == TypeOK => (Total = 0 <=> \A l \in Lists : sinks[l] = << >>)
<1> SUFFICES ASSUME TypeOK PROVE Total = 0 <=> \A l \in Lists : sinks[l] = << >>
  OBVIOUS
<1>1. \A l \in Lists : /\ Len(sinks[l]) \in Nat
                       /\ Len(sinks[l]) = 0 <=> sinks[l] = << >>
  BY LenProperties, EmptySeq DEF TypeOK
<1> DEFINE r == Len(sinks["rbs"])
           b == Len(sinks["cbs"])
<1>2. /\ r \in Nat /\ b \in Nat /\ Total = r + b
      /\ (\A l \in Lists : sinks[l] = << >>) <=> r = 0 /\ b = 0
  BY <1>1 DEF Total, Lists
<1> HIDE DEF r, b
<1> QED
  BY <1>2

LEMMA WithoutLen ==
  ASSUME NEW S, NEW seq \in Seq(S), NEW i \in 1 .. Len(seq)
  PROVE  Len(Without(seq, i)) = Len(seq) - 1
<1>1. Len(seq) \in Nat
  BY LenProperties
<1>2. /\ SubSeq(seq, 1, i - 1) \in Seq(S) /\ Len(SubSeq(seq, 1, i - 1)) = i - 1
      /\ SubSeq(seq, i + 1, Len(seq)) \in Seq(S)
      /\ Len(SubSeq(seq, i + 1, Len(seq))) = Len(seq) - i
  BY <1>1, SubSeqProperties
<1>3. Len(Without(seq, i)) = Len(SubSeq(seq, 1, i - 1)) + Len(SubSeq(seq, i + 1, Len(seq)))
  BY <1>2, ConcatProperties DEF Without
<1> DEFINE n == Len(seq)
           x == Len(SubSeq(seq, 1, i - 1))
           y == Len(SubSeq(seq, i + 1, Len(seq)))
           z == Len(Without(seq, i))
<1>4. n \in Nat /\ i \in 1 .. n /\ x = i - 1 /\ y = n - i /\ z = x + y
  BY <1>1, <1>2, <1>3
<1> HIDE DEF n, x, y, z
<1>5. z = n - 1
  BY <1>4
<1> QED
  BY <1>5 DEF z, n

\* What u's call, the sinks and capture have to say is kept by what leaves them.
LEMMA ServesKept ==
  ASSUME NEW u, Serves(u), cpc'[u] = cpc[u], call'[u] = call[u], UNCHANGED sinks,
         Capturing' <=> Capturing
  PROVE  Serves(u)'
<1>1. Own(u)' = Own(u) /\ Total' = Total
  BY DEF Own, ListOf, Total
<1> QED
  BY <1>1 DEF Serves, Ending

\* A step that moves one client, with the call it makes unchanged.
LEMMA CallsKept ==
  ASSUME TypeOK, CallsMade, NEW c \in Clients, NEW l, cpc' = [cpc EXCEPT ![c] = l],
         UNCHANGED call, cpc[c] # "idle", l # "idle" => Fits(l, call[c].op)
  PROVE  CallsMade'
BY DEF TypeOK, CallsMade

\* What the hypothesis says of the operation a client is in.
LEMMA WhoseCall ==
  ASSUME NEW u, OneSinkCaller(u), CallsMade, NEW c \in Clients, cpc[c] # "idle"
  PROVE  /\ call[c].op \in OtherOps \cup AddOps \cup RemoveOps
         /\ c # u => call[c].op \in OtherOps
         /\ Fits(cpc[c], call[c].op)
BY DEF OneSinkCaller, CallsMade

\* A call begins; u's removals find their sink.
LEMMA SinkCall ==
  ASSUME IInv, NEW u, OneSinkCaller(u), SinkProtocol(u), NEW c \in Clients, Call(c)
  PROVE  SinkProtocol(u)'
<1> SUFFICES ASSUME ~destroyed' PROVE (NothingPlays /\ CallsMade /\ Serves(u))'
  BY DEF SinkProtocol
<1> USE DEF IInv, TypeOK
<1>1. ~destroyed /\ cpc[c] = "idle" /\ NothingPlays /\ CallsMade /\ Serves(u)
      /\ u \in Clients
  BY DEF Call, SinkProtocol, OneSinkCaller
<1> PICK k \in Calls[c] :
      \/ CallAdd(c, k) \/ CallRemove(c, k) \/ CallSetDevice(c, k)
      \/ CallPlayback(c, k) \/ CallPlaybackCopy(c, k) \/ CallDelete(c, k)
  BY DEF Call
<1>2. k.op \in OtherOps \/ (c = u /\ k.op \in AddOps \cup RemoveOps)
  BY DEF OneSinkCaller
<1>3. PICK l \in {"push", "removeTest", "release", "endWait", "copy"} :
        /\ cpc' = [cpc EXCEPT ![c] = l] /\ call' = [call EXCEPT ![c] = k]
        /\ Fits(l, k.op)
        /\ l = "removeTest" <=> CallRemove(c, k)
        /\ l = "endWait" => k.op = "endPlayback"
  <2> USE DEF Begin, Goto, Fits, DtorPCs, AddOps, RemoveOps, OtherOps
  <2>1. ~CallDelete(c, k)
    BY DEF CallDelete
  <2>2. CallRemove(c, k) => k.op \in RemoveOps
    BY DEF CallRemove
  <2>3. CASE CallAdd(c, k)
    <3>1. /\ cpc' = [cpc EXCEPT ![c] = "push"] /\ call' = [call EXCEPT ![c] = k]
          /\ Fits("push", k.op) /\ k.op \notin RemoveOps
      BY <2>3 DEF CallAdd
    <3> QED
      BY <2>2, <3>1
  <2>4. CASE CallRemove(c, k)
    <3>1. /\ cpc' = [cpc EXCEPT ![c] = "removeTest"] /\ call' = [call EXCEPT ![c] = k]
          /\ Fits("removeTest", k.op)
      BY <2>4 DEF CallRemove
    <3> QED
      BY <2>4, <3>1
  <2>5. CASE CallSetDevice(c, k)
    <3>1. /\ cpc' = [cpc EXCEPT ![c] = "release"] /\ call' = [call EXCEPT ![c] = k]
          /\ Fits("release", k.op) /\ k.op \notin RemoveOps
      BY <1>2, <2>5 DEF CallSetDevice
    <3> QED
      BY <2>2, <3>1
  <2>6. CASE CallPlayback(c, k)
    <3>1. /\ cpc' = [cpc EXCEPT ![c] = "endWait"] /\ call' = [call EXCEPT ![c] = k]
          /\ Fits("endWait", k.op) /\ k.op \notin RemoveOps /\ k.op = "endPlayback"
      BY <1>2, <2>6 DEF CallPlayback
    <3> QED
      BY <2>2, <3>1
  <2>7. CASE CallPlaybackCopy(c, k)
    <3>1. /\ cpc' = [cpc EXCEPT ![c] = "copy"] /\ call' = [call EXCEPT ![c] = k]
          /\ Fits("copy", k.op) /\ k.op \notin RemoveOps
      BY <2>7 DEF CallPlaybackCopy
    <3> QED
      BY <2>2, <3>1
  <2> QED
    BY <2>1, <2>3, <2>4, <2>5, <2>6, <2>7
<1>4. UNCHANGED <<sinks, threads, ended, loose, prev>>
  BY DEF CallAdd, CallRemove, CallSetDevice, CallPlayback, CallPlaybackCopy, CallDelete
<1>5. NothingPlays'
  BY <1>1, <1>4 DEF NothingPlays
<1>6. CallsMade'
  BY <1>1, <1>3 DEF CallsMade
<1>7. (Capturing' <=> Capturing) /\ Total' = Total
  BY <1>4 DEF Capturing, Total
<1>8. Serves(u)'
  <2>1. CASE c # u
    <3>1. cpc'[u] = cpc[u] /\ call'[u] = call[u]
      BY <1>1, <1>3, <2>1
    <3> QED
      BY <1>1, <1>4, <1>7, <3>1, ServesKept
  <2>2. CASE c = u /\ ~CallRemove(c, k)
    <3>1. Capturing <=> Total >= 1
      BY <1>1, <2>2 DEF Serves, Ending
    <3>2. cpc'[u] \in {"push", "release", "endWait", "copy"} /\ call'[u] = k
      BY <1>1, <1>3, <2>2
    <3>3. ~Ending(u)'
      BY <1>3, <2>2, <3>2 DEF Ending, RemoveOps
    <3> QED
      BY <1>7, <3>1, <3>2, <3>3 DEF Serves
  <2>3. CASE c = u /\ CallRemove(c, k)
    <3>1. Capturing <=> Total >= 1
      BY <1>1, <2>3 DEF Serves, Ending
    <3>2. cpc'[u] = "removeTest" /\ call'[u] = k
      BY <1>1, <1>3, <2>3
    <3>3. PICK lst \in Lists : \E i \in 1 .. Len(sinks[lst]) :
            lst = IF k.op = "removeBuffer" THEN "rbs" ELSE "cbs"
      BY <2>3 DEF CallRemove
    <3>4. k.op \in RemoveOps
      BY <2>3 DEF CallRemove, RemoveOps
    <3>5. ListOf(u)' = lst
      BY <3>2, <3>3, <3>4 DEF ListOf, RemoveOps
    <3>6. Len(sinks[lst]) \in Nat /\ Len(sinks[lst]) >= 1
      BY <3>3, LenProperties
    <3>7. Own(u)' >= 1
      BY <1>4, <3>5, <3>6 DEF Own
    <3>8. Total >= 1
      <4>1. Len(sinks["rbs"]) \in Nat /\ Len(sinks["cbs"]) \in Nat
        BY LenProperties DEF Lists
      <4> QED
        BY <3>6, <4>1 DEF Total, Lists
    <3> QED
      BY <1>7, <3>1, <3>2, <3>7, <3>8 DEF Serves, Ending
  <2> QED
    BY <2>1, <2>2, <2>3
<1> QED
  BY <1>5, <1>6, <1>8

\* Registering a sink makes it one more; erasing makes it one less, whichever
\* element the erase removes.
LEMMA SinkPush ==
  ASSUME IInv, NEW u, OneSinkCaller(u), SinkProtocol(u), NEW c \in Clients, Push(c)
  PROVE  SinkProtocol(u)'
<1> SUFFICES ASSUME ~destroyed PROVE (NothingPlays /\ CallsMade /\ Serves(u))'
  BY DEF SinkProtocol, Push
<1> USE DEF IInv
<1>1. /\ NothingPlays /\ CallsMade /\ Serves(u) /\ cpc[c] = "push"
      /\ cpc' = [cpc EXCEPT ![c] = "addTest"]
      /\ sinks' = [sinks EXCEPT ![ListOf(c)] = Append(@, call[c].arg)]
      /\ UNCHANGED <<call, prev, ended, threads, loose>>
  BY DEF Push, SinkProtocol, Goto
<1>2. c = u /\ call[c].op \in AddOps
  BY <1>1, WhoseCall DEF Fits, AddOps, OtherOps
<1>3. NothingPlays'
  BY <1>1 DEF NothingPlays
<1>4. CallsMade'
  BY <1>1, <1>2, CallsKept DEF Fits, DtorPCs
<1>5. Own(u)' = Own(u) + 1 /\ Total' = Total + 1
  <2>1. ListOf(c) \in Lists /\ ListOf(c)' = ListOf(c)
    BY <1>1 DEF ListOf, Lists
  <2>2. \A l \in Lists : sinks[l] \in Seq(Args) /\ Len(sinks[l]) \in Nat
    BY LenProperties DEF TypeOK
  <2>3. call[c].arg \in Args
    BY DEF TypeOK, CallSet, NoCall, Args
  <2>4. Len(Append(sinks[ListOf(c)], call[c].arg)) = Len(sinks[ListOf(c)]) + 1
    BY <2>1, <2>2, <2>3, AppendProperties
  <2>5. \A l \in Lists : sinks'[l] = IF l = ListOf(c)
                                    THEN Append(sinks[ListOf(c)], call[c].arg) ELSE sinks[l]
    BY <1>1 DEF TypeOK
  <2>6. \A l \in Lists : Len(sinks'[l]) = IF l = ListOf(c) THEN Len(sinks[l]) + 1
                                         ELSE Len(sinks[l])
    BY <2>4, <2>5
  <2>7. "rbs" \in Lists /\ "cbs" \in Lists /\ (ListOf(c) = "rbs" \/ ListOf(c) = "cbs")
    BY DEF Lists, ListOf
  <2>8. Len(sinks'[ListOf(c)]) = Len(sinks[ListOf(c)]) + 1
    BY <2>1, <2>6
  <2>9. Own(u)' = Own(u) + 1
    BY <1>2, <2>1, <2>8 DEF Own
  <2>10. Total' = Total + 1
    <3> DEFINE r == Len(sinks["rbs"])
               b == Len(sinks["cbs"])
               rr == Len(sinks'["rbs"])
               bb == Len(sinks'["cbs"])
    <3>1. r \in Nat /\ b \in Nat /\ Total = r + b /\ Total' = rr + bb
      BY <2>2, <2>7 DEF Total
    <3>2. (rr = r + 1 /\ bb = b) \/ (rr = r /\ bb = b + 1)
      BY <2>6, <2>7
    <3> HIDE DEF r, b, rr, bb
    <3> QED
      BY <3>1, <3>2
  <2> QED
    BY <2>9, <2>10
<1>6. Total \in Nat /\ Own(u) \in Nat
  BY <1>2, SinkCounts
<1>7. (Capturing' <=> Capturing) /\ (Capturing <=> Total >= 1) /\ cpc'[u] = "addTest"
  BY <1>1, <1>2 DEF Capturing, Serves, Ending, TypeOK
<1>8. Serves(u)'
  BY <1>5, <1>6, <1>7 DEF Serves, Ending
<1> QED
  BY <1>3, <1>4, <1>8

LEMMA SinkErase ==
  ASSUME IInv, NEW u, OneSinkCaller(u), SinkProtocol(u), NEW c \in Clients, Erase(c)
  PROVE  SinkProtocol(u)'
<1> SUFFICES ASSUME ~destroyed PROVE (NothingPlays /\ CallsMade /\ Serves(u))'
  BY DEF SinkProtocol, Erase
<1> USE DEF IInv
<1>1. /\ NothingPlays /\ CallsMade /\ Serves(u) /\ cpc[c] = "erase"
      /\ cpc' = [cpc EXCEPT ![c] = "idle"]
      /\ UNCHANGED <<call, prev, ended, threads, loose>>
  BY DEF Erase, SinkProtocol, Goto
<1>2. c = u /\ call[c].op \in RemoveOps
  BY <1>1, WhoseCall DEF Fits, RemoveOps, OtherOps
<1>3. NothingPlays'
  BY <1>1 DEF NothingPlays
<1>4. CallsMade'
  BY <1>1, CallsKept
<1>5. Total' = Total - 1
  <2>1. ListOf(c) \in Lists
    BY DEF ListOf, Lists
  <2>2. \A l \in Lists : sinks[l] \in Seq(Args) /\ Len(sinks[l]) \in Nat
    BY LenProperties DEF TypeOK
  <2>3. PICK i \in 1 .. Len(sinks[ListOf(c)]) :
          sinks' = [sinks EXCEPT ![ListOf(c)] = Without(@, i)]
    BY DEF Erase
  <2>4. Len(Without(sinks[ListOf(c)], i)) = Len(sinks[ListOf(c)]) - 1
    BY <2>1, <2>2, WithoutLen
  <2>5. \A l \in Lists : sinks'[l] = IF l = ListOf(c) THEN Without(sinks[ListOf(c)], i)
                                    ELSE sinks[l]
    BY <2>3 DEF TypeOK
  <2>6. \A l \in Lists : Len(sinks'[l]) = IF l = ListOf(c) THEN Len(sinks[l]) - 1
                                         ELSE Len(sinks[l])
    BY <2>4, <2>5
  <2>7. "rbs" \in Lists /\ "cbs" \in Lists /\ (ListOf(c) = "rbs" \/ ListOf(c) = "cbs")
    BY DEF Lists, ListOf
  <2> DEFINE r == Len(sinks["rbs"])
             b == Len(sinks["cbs"])
             rr == Len(sinks'["rbs"])
             bb == Len(sinks'["cbs"])
  <2>8. r \in Nat /\ b \in Nat /\ Total = r + b /\ Total' = rr + bb
    BY <2>2, <2>7 DEF Total
  <2>9. (rr = r - 1 /\ bb = b) \/ (rr = r /\ bb = b - 1)
    BY <2>6, <2>7
  <2> HIDE DEF r, b, rr, bb
  <2> QED
    BY <2>8, <2>9
<1>6. Total \in Nat /\ Own(u) \in Nat /\ Own(u) <= Total
  BY <1>2, SinkCounts
<1>7. (Capturing' <=> Capturing) /\ (Capturing <=> Total >= 2) /\ Own(u) >= 1
      /\ cpc'[u] = "idle"
  BY <1>1, <1>2 DEF Capturing, Serves, TypeOK
<1>8. Serves(u)'
  BY <1>5, <1>6, <1>7 DEF Serves, Ending
<1> QED
  BY <1>3, <1>4, <1>8

\* The tests: is this the only sink?
LEMMA SinkTests ==
  ASSUME IInv, NEW u, OneSinkCaller(u), SinkProtocol(u), NEW c \in Clients,
         AddTest(c) \/ RemoveTest(c)
  PROVE  SinkProtocol(u)'
<1> SUFFICES ASSUME ~destroyed PROVE (NothingPlays /\ CallsMade /\ Serves(u))'
  BY DEF SinkProtocol, AddTest, RemoveTest
<1> USE DEF IInv
<1>1. /\ NothingPlays /\ CallsMade /\ Serves(u)
      /\ UNCHANGED <<call, prev, ended, threads, loose, sinks>>
  BY DEF AddTest, RemoveTest, SinkProtocol
<1>2. NothingPlays'
  BY <1>1 DEF NothingPlays
<1>3. /\ Capturing' <=> Capturing
      /\ Total' = Total /\ Own(u)' = Own(u)
      /\ Ending(u)' <=> /\ cpc'[u] \in {"endWait", "endStore", "endJoin"}
                        /\ call[u].op \in RemoveOps
  BY <1>1 DEF Capturing, Total, Own, ListOf, Ending
<1>4. CASE AddTest(c)
  <2>1. /\ cpc[c] = "addTest"
        /\ cpc' = [cpc EXCEPT ![c] = IF OnlySink(c) THEN "startWait" ELSE "idle"]
    BY <1>4 DEF AddTest, Goto
  <2>2. c = u /\ call[c].op \in AddOps
    BY <1>1, <2>1, WhoseCall DEF Fits, AddOps, OtherOps
  <2>3. CallsMade'
    BY <1>1, <2>1, <2>2, CallsKept DEF Fits, DtorPCs
  <2>4. cpc'[u] = IF OnlySink(u) THEN "startWait" ELSE "idle"
    BY <2>1, <2>2 DEF TypeOK
  <2>5. /\ Total \in Nat /\ Own(u) \in Nat /\ Own(u) <= Total
        /\ OnlySink(u) <=> Own(u) = 1 /\ Total = 1
    BY <2>2, SinkCounts
  <2>6. Own(u) >= 1 /\ (Capturing <=> Total >= 2)
    BY <1>1, <2>1, <2>2 DEF Serves
  <2>7. Serves(u)'
    <3>1. CASE OnlySink(u)
      BY <1>3, <2>4, <2>5, <2>6, <3>1 DEF Serves
    <3>2. CASE ~OnlySink(u)
      BY <1>3, <2>4, <2>5, <2>6, <3>2 DEF Serves
    <3> QED
      BY <3>1, <3>2
  <2> QED
    BY <1>2, <2>3, <2>7
<1>5. CASE RemoveTest(c)
  <2>1. /\ cpc[c] = "removeTest"
        /\ cpc' = [cpc EXCEPT ![c] = IF OnlySink(c) THEN "endWait" ELSE "erase"]
    BY <1>5 DEF RemoveTest, Goto
  <2>2. c = u /\ call[c].op \in RemoveOps
    BY <1>1, <2>1, WhoseCall DEF Fits, RemoveOps, OtherOps
  <2>3. CallsMade'
    BY <1>1, <2>1, <2>2, CallsKept DEF Fits, DtorPCs
  <2>4. cpc'[u] = IF OnlySink(u) THEN "endWait" ELSE "erase"
    BY <2>1, <2>2 DEF TypeOK
  <2>5. /\ Total \in Nat /\ Own(u) \in Nat /\ Own(u) <= Total
        /\ OnlySink(u) <=> Own(u) = 1 /\ Total = 1
    BY <2>2, SinkCounts
  <2>6. Own(u) >= 1 /\ Capturing
    BY <1>1, <2>1, <2>2 DEF Serves
  <2>7. Serves(u)'
    <3>1. CASE OnlySink(u)
      BY <1>3, <2>2, <2>4, <2>5, <2>6, <3>1 DEF Serves
    <3>2. CASE ~OnlySink(u)
      BY <1>3, <2>2, <2>4, <2>5, <2>6, <3>2 DEF Serves
    <3> QED
      BY <3>1, <3>2
  <2> QED
    BY <1>2, <2>3, <2>7
<1> QED
  BY <1>4, <1>5

\* startRecord, endRecord and endPlayback.  An endPlayback finds no thread; the
\* endRecord of a removal ends capture for the only sink.
LEMMA SinkStarts ==
  ASSUME IInv, NoPhantomStream, NEW u, OneSinkCaller(u), SinkProtocol(u),
         NEW c \in Clients, StartWait(c) \/ StartTest(c)
  PROVE  SinkProtocol(u)'
<1> SUFFICES ASSUME ~destroyed PROVE (NothingPlays /\ CallsMade /\ Serves(u))'
  BY DEF SinkProtocol, StartWait, Wait, StartTest
<1> USE DEF IInv
<1>1. /\ NothingPlays /\ CallsMade /\ Serves(u) /\ cpc[c] \in {"startWait", "startTest"}
      /\ UNCHANGED <<call, prev, ended, loose, sinks>>
  BY DEF StartWait, Wait, StartTest, SinkProtocol
<1>2. c = u /\ call[c].op \in AddOps
  BY <1>1, WhoseCall DEF Fits, AddOps, OtherOps
<1>3. Total >= 1 /\ ~Capturing /\ Total' = Total
  BY <1>1, <1>2 DEF Serves, Total
<1>4. CASE StartWait(c)
  <2>1. cpc' = [cpc EXCEPT ![c] = "startTest"] /\ UNCHANGED threads
    BY <1>4 DEF StartWait, Wait, Goto
  <2>2. CallsMade'
    BY <1>1, <1>2, <2>1, CallsKept DEF Fits, DtorPCs
  <2>3. cpc'[u] = "startTest" /\ ~Capturing'
    BY <1>2, <1>3, <2>1 DEF TypeOK, Capturing
  <2> QED
    BY <1>1, <1>3, <2>1, <2>2, <2>3 DEF NothingPlays, Serves, Ending
<1>5. CASE StartTest(c)
  <2>3. SideOf(c) = "in"
    BY <1>2 DEF SideOf, AddOps
  <2>4. \A s \in Sides : ended[s]
    <3>1. ended["out"] /\ ended["in"]
      BY <1>1, <1>3 DEF NothingPlays, NoPhantomStream, Capturing, Sides
    <3> QED
      BY <3>1 DEF Sides
  <2>5. Spawn(c)
    BY <1>5, <2>4 DEF StartTest, FallThrough
  <2>1. cpc' = [cpc EXCEPT ![c] = "insert"]
    BY <2>5 DEF Spawn, Goto
  <2>2. CallsMade'
    BY <1>1, <1>2, <2>1, CallsKept DEF Fits, DtorPCs
  <2>6. threads'["in"] # {} /\ threads'["out"] = threads["out"]
    BY <2>3, <2>5 DEF Spawn, TypeOK, Sides
  <2>7. cpc'[u] = "insert" /\ Capturing'
    BY <1>2, <2>1, <2>6 DEF TypeOK, Capturing
  <2> QED
    BY <1>1, <1>3, <2>2, <2>6, <2>7 DEF NothingPlays, Serves, Ending
<1> QED
  BY <1>4, <1>5

LEMMA SinkEnds ==
  ASSUME IInv, NEW u, OneSinkCaller(u), SinkProtocol(u), NEW c \in Clients,
         EndWait(c) \/ EndStore(c) \/ EndJoin(c)
  PROVE  SinkProtocol(u)'
<1> SUFFICES ASSUME ~destroyed PROVE (NothingPlays /\ CallsMade /\ Serves(u))'
  BY DEF SinkProtocol, EndWait, Wait, EndStore, EndJoin
<1> USE DEF IInv
<1>1. /\ NothingPlays /\ CallsMade /\ Serves(u)
      /\ cpc[c] \in {"endWait", "endStore", "endJoin"}
      /\ UNCHANGED <<call, prev, threads, sinks>>
  BY DEF EndWait, Wait, EndStore, EndJoin, SinkProtocol
<1>2. /\ call[c].op \in RemoveOps \cup {"endPlayback", "setActiveOutputDevice"}
      /\ c # u => call[c].op \in OtherOps
  BY <1>1, WhoseCall DEF Fits
<1> DEFINE l == IF cpc[c] = "endWait" THEN "endStore"
                ELSE IF cpc[c] = "endStore" THEN "endJoin"
                ELSE IF call[c].op \in RemoveOps THEN "erase" ELSE "idle"
<1>3. cpc' = [cpc EXCEPT ![c] = l]
  <2>1. ~prev[c]
    BY <1>1 DEF NothingPlays
  <2>2. cpc[c] = "endJoin" => AfterEnd(c) = l
    BY <1>2, <2>1 DEF AfterEnd, RemoveOps
  <2> QED
    BY <2>2 DEF EndWait, Wait, EndStore, EndJoin, Goto
<1>4. NothingPlays'
  <2>2. loose' = {}
    <3>1. SideOf(c) \in Sides
      BY DEF SideOf, Sides
    <3>2. ASSUME EndJoin(c), SideOf(c) = "in" PROVE threads["in"] = {}
      <4>1. c = u /\ cpc[c] = "endJoin"
        BY <1>2, <3>2 DEF EndJoin, SideOf, OtherOps, RemoveOps
      <4>2. ASSUME NEW d \in Clients, making[d] # NoThread PROVE FALSE
        <5>1. cpc[d] = "insert"
          BY <4>2 DEF Protocol, StartsKept
        <5>2. d = u
          BY <1>1, <5>1, WhoseCall DEF Fits, AddOps, OtherOps
        <5> QED
          BY <4>1, <5>1, <5>2
      <4>3. \A t \in threads["in"] : t # NoThread
        BY ThreadsDistinct DEF TypeOK, Sides
      <4> QED
        BY <3>2, <4>2, <4>3 DEF EndJoin, Joinees
    <3>3. EndJoin(c) => threads[SideOf(c)] = {}
      BY <1>1, <3>1, <3>2 DEF NothingPlays, Sides
    <3> QED
      BY <1>1, <3>3 DEF EndWait, Wait, EndStore, EndJoin, NothingPlays
  <2>1. ended'["out"]
    <3>1. SideOf(c) \in Sides /\ "out" \in Sides
      BY DEF SideOf, Sides
    <3>2. ended' = ended \/ ended' = [ended EXCEPT ![SideOf(c)] = TRUE]
      BY DEF EndWait, Wait, EndStore, EndJoin
    <3> QED
      BY <1>1, <3>1, <3>2 DEF NothingPlays, TypeOK
  <2> QED
    BY <1>1, <2>1, <2>2 DEF NothingPlays
<1>5. CallsMade'
  BY <1>1, <1>2, <1>3, CallsKept DEF Fits, DtorPCs
<1>6. /\ Capturing' <=> Capturing
      /\ Total' = Total /\ Own(u)' = Own(u)
  BY <1>1 DEF Capturing, Total, Own, ListOf
<1>7. CASE c # u
  <2>1. cpc'[u] = cpc[u]
    BY <1>3, <1>7 DEF TypeOK, OneSinkCaller
  <2> QED
    BY <1>1, <1>4, <1>5, <1>6, <2>1, ServesKept
<1>8. CASE c = u /\ call[u].op \notin RemoveOps
  <2>1. ~Ending(u) /\ ~Ending(u)' /\ cpc'[u] \in {"endStore", "endJoin", "idle"}
    BY <1>1, <1>3, <1>8 DEF Ending, TypeOK
  <2>2. Capturing <=> Total >= 1
    BY <1>1, <1>8, <2>1 DEF Serves
  <2>3. Serves(u)'
    BY <1>6, <2>1, <2>2 DEF Serves
  <2> QED
    BY <1>4, <1>5, <2>3
<1>9. CASE c = u /\ call[u].op \in RemoveOps
  <2>1. Own(u) >= 1 /\ Total = 1
    BY <1>1, <1>9 DEF Serves, Ending
  <2>2. CASE cpc[u] # "endJoin"
    <3>1. cpc'[u] \in {"endStore", "endJoin"} /\ Ending(u)'
      BY <1>1, <1>3, <1>9, <2>2 DEF Ending, TypeOK
    <3>2. Serves(u)'
      BY <1>6, <2>1, <3>1 DEF Serves
    <3> QED
      BY <1>4, <1>5, <3>2
  <2>3. CASE cpc[u] = "endJoin"
    <3>1. cpc'[u] = "erase" /\ ~Ending(u)'
      BY <1>1, <1>3, <1>9, <2>3 DEF Ending, TypeOK
    <3>2. SideOf(u) = "in"
      BY <1>9 DEF SideOf, RemoveOps
    <3>3. ~Capturing
      <4>1. EndJoin(u)
        BY <1>9, <2>3 DEF EndWait, Wait, EndStore
      <4>2. \A d \in Clients : making[d] = NoThread
        <5>1. ASSUME NEW d \in Clients, making[d] # NoThread PROVE FALSE
          <6>1. cpc[d] = "insert"
            BY <5>1 DEF Protocol, StartsKept
          <6>2. d = u
            BY <1>1, <6>1, WhoseCall DEF Fits, AddOps, OtherOps
          <6> QED
            BY <2>3, <6>1, <6>2
        <5> QED
          BY <5>1
      <4>3. \A t \in threads["in"] : t # NoThread
        BY ThreadsDistinct DEF TypeOK, Sides
      <4> QED
        BY <3>2, <4>1, <4>2, <4>3 DEF EndJoin, Joinees, Capturing
    <3>4. Serves(u)'
      BY <1>6, <2>1, <3>1, <3>3 DEF Serves
    <3> QED
      BY <1>4, <1>5, <3>4
  <2> QED
    BY <2>2, <2>3
<1> QED
  BY <1>7, <1>8, <1>9

\* emplace_back, setActiveOutputDevice up to its endPlayback, and
\* playbackCopyToBuffers.
LEMMA SinkElsewhere ==
  ASSUME IInv, NEW u, OneSinkCaller(u), SinkProtocol(u), NEW c \in Clients,
         Insert(c) \/ Release(c) \/ Install(c) \/ ReadFlag(c) \/ CopyClientDone(c)
  PROVE  SinkProtocol(u)'
<1> SUFFICES ASSUME ~destroyed PROVE (NothingPlays /\ CallsMade /\ Serves(u))'
  BY DEF SinkProtocol, Insert, Release, Install, ReadFlag, CopyClientDone
<1> USE DEF IInv
<1>1. /\ NothingPlays /\ CallsMade /\ Serves(u)
      /\ cpc[c] \in {"insert", "release", "install", "readFlag", "copy"}
      /\ UNCHANGED <<call, ended, threads, loose, sinks>>
  BY DEF Insert, Release, Install, ReadFlag, CopyClientDone, SinkProtocol
<1>2. /\ call[c].op \in {"setActiveOutputDevice", "playbackCopyToBuffers"} \cup AddOps
      /\ cpc[c] \notin {"copy", "insert"} => call[c].op = "setActiveOutputDevice"
  BY <1>1, WhoseCall DEF Fits
<1> DEFINE l == IF cpc[c] = "release" THEN "install"
                ELSE IF cpc[c] = "install" THEN "readFlag"
                ELSE IF cpc[c] = "readFlag" THEN "endWait" ELSE "idle"
<1>3. cpc' = [cpc EXCEPT ![c] = l]
  BY DEF Insert, Release, Install, ReadFlag, CopyClientDone, Goto
<1>4. NothingPlays'
  <2>1. SideOf(c) = "out" \/ UNCHANGED prev
    BY <1>2 DEF SideOf, ReadFlag, Insert, Release, Install, CopyClientDone
  <2>2. \A d \in Clients : ~prev'[d]
    BY <1>1, <2>1 DEF NothingPlays, ReadFlag, Insert, Release, Install, CopyClientDone,
                       TypeOK
  <2> QED
    BY <1>1, <2>2 DEF NothingPlays
<1>5. CallsMade'
  <2>1. l # "idle" => Fits(l, call[c].op)
    BY <1>1, <1>2 DEF Fits, DtorPCs
  <2> QED
    BY <1>1, <1>3, <2>1, CallsKept
<1>6. /\ Capturing' <=> Capturing
      /\ Total' = Total /\ Own(u)' = Own(u)
  BY <1>1 DEF Capturing, Total, Own, ListOf
<1>7. CASE c # u
  <2>1. cpc'[u] = cpc[u]
    BY <1>3, <1>7 DEF TypeOK, OneSinkCaller
  <2> QED
    BY <1>1, <1>4, <1>5, <1>6, <2>1, ServesKept
<1>8. CASE c = u
  <2>1. ~Ending(u) /\ ~Ending(u)' /\ cpc'[u] \in {"install", "readFlag", "endWait", "idle"}
    BY <1>1, <1>2, <1>3, <1>8 DEF Ending, TypeOK, RemoveOps, AddOps
  <2>2. Capturing <=> Total >= 1
    BY <1>1, <1>8, <2>1 DEF Serves
  <2>3. Serves(u)'
    BY <1>6, <2>1, <2>2 DEF Serves
  <2> QED
    BY <1>4, <1>5, <2>3
<1> QED
  BY <1>7, <1>8

\* Steps that touch neither sinks nor calls nor what runs.
LEMMA SinkFrame ==
  ASSUME NEW u, SinkProtocol(u), Capturing' <=> Capturing, threads'["out"] = threads["out"],
         ended'["out"] = ended["out"], UNCHANGED <<sinks, loose, cpc, call, prev, destroyed>>
  PROVE  SinkProtocol(u)'
BY ServesKept DEF SinkProtocol, NothingPlays, CallsMade

\* While a thread starts there is a sink for it, so it does not give up; and
\* when it leaves its loop, u is joining it.
LEMMA SinkThread ==
  ASSUME IInv, NEW u, OneSinkCaller(u), SinkProtocol(u), NEW t \in Threads, ThreadStep(t)
  PROVE  SinkProtocol(u)'
<1> SUFFICES ASSUME ~destroyed PROVE SinkProtocol(u)'
  BY DEF SinkProtocol, ThreadStep, GiveUp, Prepare, Publish, Open, OpenFails, OpenRefused,
         PureCall, LoopBody, LoopExit, CopyOne, CopyNextList, CopyThreadDone
<1> USE DEF IInv
<1>1. NothingPlays /\ CallsMade /\ Serves(u) /\ u \in Clients
  BY DEF SinkProtocol, OneSinkCaller
<1>2. ASSUME NEW s \in Sides, t \in threads[s] PROVE s = "in" /\ Capturing
  BY <1>1, <1>2 DEF NothingPlays, Sides, Capturing
<1>3. ASSUME NEW s \in Sides, t \in threads[s], GiveUp(s, t) PROVE FALSE
  <2>1. s = "in" /\ Capturing /\ tpc[t] = "prepare"
    BY <1>2, <1>3 DEF GiveUp
  <2>2. Total \in Nat /\ Own(u) \in Nat /\ Own(u) <= Total
    BY <1>1, SinkCounts
  <2>3. Total >= 1
    BY <1>1, <2>1, <2>2 DEF Serves
  <2>4. ~(\A l \in Lists : sinks[l] = << >>)
    BY <2>3, NoSinks
  <2>5. Devices("in") # {} /\ "enumerate" \notin MayFail
    BY DEF OneSinkCaller, Devices
  <2> QED
    BY <1>3, <2>1, <2>4, <2>5 DEF GiveUp
<1>4. ASSUME NEW s \in Sides, t \in threads[s], OpenRefused(s, t) PROVE FALSE
  BY <1>2, <1>4 DEF OpenRefused
<1>5. ASSUME NEW s \in Sides, t \in threads[s], LoopExit(s, t) PROVE SinkProtocol(u)'
  <2>1. s = "in" /\ ended["in"] /\ Streaming(t)
    BY <1>2, <1>5 DEF LoopExit, Streaming
  <2>2. PICK c \in Clients : cpc[c] = "endJoin" /\ SideOf(c) = "in"
    BY <1>1, <1>5, <2>1 DEF Protocol, StreamingFlagged, NothingPlays
  <2>3. c = u /\ call[u].op \in RemoveOps
    BY <1>1, <2>2, WhoseCall DEF Fits, SideOf, OtherOps, RemoveOps
  <2>4. /\ threads' = [threads EXCEPT !["in"] = @ \ {t}]
        /\ loose' = loose \ {t} /\ UNCHANGED <<ended, sinks, cpc, call, prev, destroyed>>
    BY <1>5, <2>1 DEF LoopExit, Returns
  <2>5. NothingPlays' /\ CallsMade'
    BY <1>1, <2>4 DEF NothingPlays, CallsMade, TypeOK, Sides
  <2>6. Ending(u) /\ Ending(u)' /\ cpc'[u] = "endJoin" /\ Own(u)' = Own(u) /\ Total' = Total
    BY <2>2, <2>3, <2>4 DEF Ending, Own, ListOf, Total
  <2>7. Serves(u)'
    BY <1>1, <2>2, <2>3, <2>6 DEF Serves
  <2> QED
    BY <2>5, <2>7 DEF SinkProtocol
<1>6. ASSUME NEW s \in Sides, t \in threads[s],
             \/ Prepare(s, t) \/ Publish(s, t) \/ PureCall(s, t)
             \/ Open(s, t) \/ OpenFails(s, t) \/ LoopBody(s, t)
      PROVE  SinkProtocol(u)'
  <2>1. UNCHANGED <<sinks, threads, loose, cpc, call, prev, destroyed>>
    BY <1>6 DEF Prepare, Publish, PureCall, Open, OpenFails, LoopBody
  <2>2. ended'["out"] = ended["out"]
    BY <1>2, <1>6 DEF Prepare, Publish, PureCall, Open, OpenFails, LoopBody, TypeOK, Sides
  <2> QED
    BY <2>1, <2>2, SinkFrame DEF Capturing
<1>7. CASE CopyOne(t) \/ CopyNextList(t) \/ CopyThreadDone(t)
  <2>1. UNCHANGED <<sinks, threads, loose, ended, cpc, call, prev, destroyed>>
    BY <1>7 DEF CopyOne, CopyNextList, CopyThreadDone, Drop
  <2> QED
    BY <2>1, SinkFrame DEF Capturing
<1> QED
  BY <1>3, <1>4, <1>5, <1>6, <1>7 DEF ThreadStep

LEMMA SinkStep ==
  ASSUME IInv, NoPhantomStream, NEW u, OneSinkCaller(u), SinkProtocol(u), [Next]_vars
  PROVE  SinkProtocol(u)'
<1>1. ASSUME NEW c \in Clients, ClientStep(c) PROVE SinkProtocol(u)'
  <2>1. CASE DtorStore(c) \/ DtorJoinIn(c) \/ DtorJoinOut(c)
    <3>1. destroyed /\ UNCHANGED destroyed
      BY <2>1 DEF DtorStore, DtorJoinIn, DtorJoinOut, IInv, Protocol, DestructorAlone
    <3> QED
      BY <3>1 DEF SinkProtocol
  <2>2. CASE CopyOne(c) \/ Trample(c)
    <3>1. UNCHANGED <<sinks, threads, loose, ended, cpc, call, prev, destroyed>>
      BY <2>2 DEF CopyOne, Trample
    <3> QED
      BY <3>1, SinkFrame DEF Capturing
  <2> QED
    BY <1>1, <2>1, <2>2, SinkPush, SinkErase, SinkTests, SinkStarts, SinkEnds,
       SinkElsewhere DEF ClientStep
<1>2. ASSUME UNCHANGED <<sinks, threads, loose, ended, cpc, call, prev, destroyed>>
      PROVE  SinkProtocol(u)'
  BY <1>2, SinkFrame DEF Capturing
<1> QED
  BY <1>1, <1>2, SinkCall, SinkThread DEF Next, Step, UseInvalid, vars

LEMMA SinkInvariance ==
  ASSUME NEW u, OneSinkCaller(u)
  PROVE  Spec => [](IInv /\ NoPhantomStream /\ SinkProtocol(u))
<1>1. Init => SinkProtocol(u)
  BY InitSinks
<1>2. IInv /\ NoPhantomStream /\ SinkProtocol(u) /\ [Next]_vars => SinkProtocol(u)'
  BY SinkStep
<1> QED
  BY <1>1, <1>2, Invariance, NoPhantomStreamEver, PTL DEF Spec

\* Capture does not outlive its last sink.
THEOREM CaptureNeverIdle ==
  ASSUME NEW u, OneSinkCaller(u)
  PROVE  Spec => []NoIdleCapture
<1>1. IInv /\ NoPhantomStream /\ SinkProtocol(u) => NoIdleCapture
  <2> SUFFICES ASSUME IInv, NoPhantomStream, SinkProtocol(u), Quiet,
                      \A l \in Lists : sinks[l] = << >>
               PROVE  ended["in"]
    BY DEF NoIdleCapture
  <2>1. cpc[u] = "idle" /\ Serves(u)
    BY DEF SinkProtocol, OneSinkCaller, Quiet
  <2>2. Total = 0
    BY NoSinks DEF IInv
  <2>3. ~Capturing
    BY <2>1, <2>2 DEF Serves, Ending
  <2> QED
    BY <2>3 DEF NoPhantomStream, Capturing, Sides
<1> QED
  BY <1>1, SinkInvariance, PTL

----------------------------------------------------------------------------
(****************************************************************************)
(* OSAudio implements ExclusiveStream.                                      *)
(****************************************************************************)

\* With at most one thread that is not loose, the open stream is that thread's.
LEMMA StreamIs ==
  /\ OpenSide = {} => StreamNow = "none"
  /\ \A s \in Sides : OpenSide = {s} => StreamNow = s
BY DEF StreamNow

LEMMA StreamIsNext ==
  /\ OpenSide' = {} => StreamNow' = "none"
  /\ \A s \in Sides : OpenSide' = {s} => StreamNow' = s
BY DEF StreamNow

\* The open thread of a side, and nothing else, is open.
LEMMA OneOpen ==
  ASSUME IInv, NEW s \in Sides, NEW t \in threads[s] \ loose
  PROVE  /\ t \in Threads
         /\ \A r \in Sides : \A u \in threads[r] \ loose : r = s /\ u = t
         /\ Streaming(t) => OpenSide = {s}
         /\ ~Streaming(t) => OpenSide = {}
         /\ ~Streaming(t) => ~Starting
<1> USE DEF IInv, Protocol, TypeOK
<1>1. t \in Threads
  OBVIOUS
<1>2. \A r \in Sides : \A u \in threads[r] \ loose : r = s /\ u = t
  BY DEF OneStream
<1>3. /\ Streaming(t) => OpenSide = {s}
      /\ ~Streaming(t) => OpenSide = {}
  BY <1>2 DEF OpenSide
<1>4. ASSUME Starting PROVE Streaming(t)
  <2>1. PICK u \in Threads \ loose : Streaming(u)
    BY <1>4 DEF Starting
  <2>2. PICK r \in Sides : u \in threads[r]
    BY <2>1 DEF ThreadsKept, Streaming
  <2> QED
    BY <1>2, <2>1, <2>2
<1> QED
  BY <1>1, <1>2, <1>3, <1>4

\* A service variable keeps its value when what it is made of does.
LEMMA StreamKept ==
  ASSUME IInv, TypeOK',
         \A s \in Sides : \A t \in Threads :
           (t \in threads'[s] \ loose' /\ Streaming(t)')
              <=> (t \in threads[s] \ loose /\ Streaming(t))
  PROVE  StreamNow' = StreamNow
<1>1. OpenSide' = OpenSide
  BY DEF IInv, TypeOK, OpenSide
<1> QED
  BY <1>1 DEF StreamNow

LEMMA StopsKept ==
  ASSUME \A c \in Clients : \/ cpc[c] # "endJoin" /\ cpc'[c] # "endJoin"
                            \/ cpc'[c] = cpc[c] /\ SideOf(c)' = SideOf(c)
  PROVE  StopsServed' = StopsServed
BY DEF StopsServed

\* A step that leaves the threads alone.
LEMMA ThreadsKeep ==
  ASSUME IInv, TypeOK', UNCHANGED <<threads, loose>>,
         \A t \in Threads : Streaming(t)' = Streaming(t)
  PROVE  StreamNow' = StreamNow /\ StraySides' = StraySides
BY StreamKept DEF StraySides

LEMMA PublishOpens ==
  ASSUME IInv, TypeOK', NEW s \in Sides, NEW t \in threads[s], Publish(s, t)
  PROVE  Service!OpenStream(s) /\ UNCHANGED crashed
<1> USE DEF IInv, Protocol, TypeOK, Publish, cvars
<1>1. t \in Threads \ loose /\ ~Streaming(t) /\ Streaming(t)'
  BY DEF StartsKept, Streaming
<1>2. OpenSide = {}
  BY <1>1, OneOpen
<1>3. OpenSide' = {s}
  <2>1. \A r \in Sides : \A u \in threads'[r] \ loose' : r = s /\ u = t
    BY <1>1, OneOpen
  <2> QED
    BY <1>1, <2>1 DEF OpenSide
<1>4. StopsServed = {} /\ StopsServed' = {}
  BY ThreadsDistinct DEF StopsServed, SemaphoreOwned, Holders
<1>5. Starting' \in BOOLEAN /\ StraySides' = StraySides
  BY DEF Starting, StraySides
<1> QED
  BY <1>2, <1>3, <1>4, <1>5, StreamIs, StreamIsNext DEF Service!OpenStream

\* A thread returns: the stream closes, or a stray one does.
LEMMA ReturnCloses ==
  ASSUME IInv, TypeOK', NEW s \in Sides, NEW t \in threads[s],
         OpenRefused(s, t) \/ LoopExit(s, t)
  PROVE  /\ \/ Service!CloseStream
            \/ \E r \in Service!StreamSides : Service!StrayCloses(r)
            \/ UNCHANGED <<StreamNow, StopsServed, Starting, StraySides>>
         /\ UNCHANGED crashed
<1> USE DEF IInv, Protocol, TypeOK, cvars
<1>1. /\ t \in Threads /\ Streaming(t)
      /\ threads' = [threads EXCEPT ![s] = @ \ {t}]
      /\ tpc' = [tpc EXCEPT ![t] = "free"]
      /\ loose' = loose \ {t}
      /\ UNCHANGED <<making, cpc, call, crashed>>
  BY DEF OpenRefused, LoopExit, Returns, Streaming
<1>2. /\ \A r \in Sides : t \notin threads'[r] /\ threads'[r] = threads[r] \ {t}
      /\ ~Streaming(t)' /\ \A u \in Threads : u # t => Streaming(u)' = Streaming(u)
  BY <1>1 DEF ThreadsKept, Streaming
<1>3. StopsServed' = StopsServed
  BY <1>1, SideKept DEF StopsServed
<1>4. CASE t \notin loose
  <2>1. OpenSide = {s} /\ \A r \in Sides : \A u \in threads[r] \ loose : u = t
    BY <1>1, <1>4, OneOpen
  <2>2. \A r \in Sides : threads'[r] \ loose' = {}
    BY <1>1, <1>2, <2>1
  <2>3. OpenSide' = {}
    BY <2>2 DEF OpenSide
  <2>4. Starting' = FALSE
    <3>1. ASSUME Starting' PROVE FALSE
      <4>1. PICK u \in Threads \ loose' : Streaming(u)'
        BY <3>1 DEF Starting
      <4>2. u # t /\ Streaming(u) /\ u \notin loose
        BY <1>1, <1>2, <4>1
      <4>3. \E r \in Sides : u \in threads[r]
        BY <4>1, <4>2 DEF ThreadsKept, Streaming
      <4> QED
        BY <2>1, <4>2, <4>3
    <3> QED
      BY <3>1 DEF Starting
  <2>5. StraySides' = StraySides
    BY <1>1, <1>2, <1>4 DEF StraySides
  <2>6. Service!CloseStream
    BY <1>3, <2>1, <2>3, <2>4, <2>5, StreamIs, StreamIsNext DEF Service!CloseStream, Sides
  <2> QED
    BY <1>1, <2>6
<1>5. CASE t \in loose
  <2>1. StreamNow' = StreamNow
    BY <1>1, <1>2, <1>5, StreamKept
  <2>2. Starting' = Starting
    BY <1>1, <1>2, <1>5 DEF Starting
  <2>3. StraySides' = StraySides \/ (s \in StraySides /\ StraySides' = StraySides \ {s})
    <3>1. \A r \in Sides : r # s => (r \in StraySides' <=> r \in StraySides)
      BY <1>1, <1>2 DEF StraySides, ThreadsKept
    <3>2. s \in StraySides /\ StraySides \subseteq Sides /\ StraySides' \subseteq Sides
      BY <1>5 DEF StraySides
    <3> DEFINE X == StraySides
               Y == StraySides'
    <3>3. /\ s \in X /\ X \subseteq Sides /\ Y \subseteq Sides
          /\ \A r \in Sides : r # s => (r \in Y <=> r \in X)
      BY <3>1, <3>2
    <3> HIDE DEF X, Y
    <3>4. Y = X \/ Y = X \ {s}
      <4>1. CASE s \in Y
        <5>1. \A r : r \in X <=> r \in Y
          BY <3>3, <4>1
        <5> QED
          BY <5>1
      <4>2. CASE s \notin Y
        <5>1. \A r : r \in X \ {s} <=> r \in Y
          BY <3>3, <4>2
        <5> QED
          BY <5>1
      <4> QED
        BY <4>1, <4>2
    <3> QED
      BY <3>2, <3>4 DEF X, Y
  <2> QED
    BY <1>1, <1>3, <2>1, <2>2, <2>3 DEF Service!StrayCloses, Service!StreamSides, Sides
<1> QED
  BY <1>4, <1>5

LEMMA EndStoreRequests ==
  ASSUME IInv, TypeOK', NEW c \in Clients, EndStore(c)
  PROVE  Service!RequestStop(SideOf(c)) /\ UNCHANGED crashed
<1> USE DEF IInv, Protocol, TypeOK, EndStore, Goto
<1>1. StopsServed = {}
  BY DEF StopsServed, SemaphoreOwned, Holders
<1>2. StopsServed' = {SideOf(c)}
  BY <1>1, SideKept DEF StopsServed
<1>3. StreamNow' = StreamNow /\ StraySides' = StraySides
  BY ThreadsKeep DEF Streaming
<1>4. Starting' = Starting
  BY DEF Starting, Streaming
<1> QED
  BY <1>1, <1>2, <1>3, <1>4 DEF Service!RequestStop

\* The stop is confirmed; if the side's stream is still open, the call that
\* started it has not returned.
LEMMA EndJoinConfirms ==
  ASSUME IInv, TypeOK', NEW c \in Clients, EndJoin(c)
  PROVE  /\ Service!ConfirmStop(SideOf(c)) \/ Service!OvertakeStart(SideOf(c))
         /\ UNCHANGED crashed
<1> USE DEF IInv, Protocol, TypeOK, EndJoin, Goto, AfterEnd
<1> SideOf(c) \in Sides
  BY DEF SideOf, Sides
<1>1. StopsServed = {SideOf(c)}
  BY SideKept DEF StopsServed, SemaphoreOwned, Holders
<1>2. StopsServed' = {}
  BY <1>1, SideKept DEF StopsServed, SemaphoreOwned, Holders
<1>3. /\ UNCHANGED <<threads, making, tpc, crashed>>
      /\ \A t \in Threads : Streaming(t)' = Streaming(t)
      /\ loose' = loose \cup threads[SideOf(c)]
  BY DEF Streaming
<1>4. CASE threads[SideOf(c)] \subseteq loose
  <2>1. loose' = loose
    BY <1>3, <1>4
  <2>2. StreamNow' = StreamNow /\ StraySides' = StraySides
    BY <1>3, <2>1, ThreadsKeep
  <2>3. Starting' = Starting
    BY <1>3, <2>1 DEF Starting
  <2>4. StreamNow # SideOf(c)
    <3>1. SideOf(c) \notin OpenSide
      BY <1>4 DEF OpenSide
    <3> QED
      BY <3>1 DEF StreamNow, Sides, OpenSide
  <2>5. Service!ConfirmStop(SideOf(c))
    BY <1>1, <1>2, <2>2, <2>3, <2>4 DEF Service!ConfirmStop
  <2> QED
    BY <1>3, <2>5
<1>5. CASE \E t \in threads[SideOf(c)] : t \notin loose
  <2>1. PICK t \in threads[SideOf(c)] \ loose : TRUE
    BY <1>5
  <2>2. /\ t \in Threads /\ Streaming(t) /\ OpenSide = {SideOf(c)}
        /\ \A r \in Sides : \A u \in threads[r] \ loose : u = t
    BY <2>1, JoinedStream, OneOpen
  <2>3. Starting
    <3>1. PICK d \in Clients : making[d] = t
      BY <2>1 DEF Joinees
    <3> QED
      BY <2>1, <2>2, <3>1 DEF Starting
  <2>4. \A r \in Sides : threads'[r] \ loose' = {}
    BY <1>3, <2>1, <2>2
  <2>5. OpenSide' = {}
    BY <2>4 DEF OpenSide
  <2>6. Starting' = FALSE
    <3>1. ASSUME NEW u \in Threads \ loose', Streaming(u)' PROVE FALSE
      <4>1. \E r \in Sides : u \in threads[r]
        BY <1>3, <3>1 DEF ThreadsKept, Streaming
      <4> QED
        BY <1>3, <2>4, <3>1, <4>1
    <3> QED
      BY <3>1 DEF Starting
  <2>7. StraySides' = StraySides \cup {SideOf(c)}
    <3>1. SideOf(c) \in StraySides'
      BY <1>3, <2>1 DEF StraySides
    <3>2. \A r \in Sides : r \in StraySides => r \in StraySides'
      BY <1>3 DEF StraySides
    <3>3. ASSUME NEW r \in Sides, r \in StraySides', r # SideOf(c) PROVE r \in StraySides
      BY <1>3, <3>3 DEF StraySides, ThreadsKept
    <3>4. StraySides \subseteq Sides /\ StraySides' \subseteq Sides
      BY DEF StraySides
    <3> QED
      BY <3>1, <3>2, <3>3, <3>4
  <2>8. Service!OvertakeStart(SideOf(c))
    BY <1>1, <1>2, <2>2, <2>3, <2>5, <2>6, <2>7, StreamIs, StreamIsNext
       DEF Service!OvertakeStart, Starting
  <2> QED
    BY <1>3, <2>8
<1> QED
  BY <1>4, <1>5

\* emplace_back returns, and with it the call that started the stream.
LEMMA InsertReturns ==
  ASSUME IInv, TypeOK', NEW c \in Clients, Insert(c)
  PROVE  /\ \/ Service!StartReturns
            \/ UNCHANGED <<StreamNow, StopsServed, Starting, StraySides>>
         /\ UNCHANGED crashed
<1> USE DEF IInv, TypeOK, Insert, Goto
<1>1. \A d \in Clients : \/ cpc[d] # "endJoin" /\ cpc'[d] # "endJoin"
                         \/ cpc'[d] = cpc[d] /\ SideOf(d)' = SideOf(d)
  BY SideKept
<1>2. StopsServed' = StopsServed
  BY <1>1, StopsKept
<1>3. StreamNow' = StreamNow /\ StraySides' = StraySides
  BY ThreadsKeep DEF Streaming
<1>4. Starting' => Starting
  <2>1. ASSUME NEW d \in Clients, NEW t \in Threads \ loose', making'[d] = t, Streaming(t)'
        PROVE  making[d] = t /\ t \in Threads \ loose /\ Streaming(t)
    BY <2>1, ThreadsDistinct DEF Streaming
  <2> QED
    BY <2>1 DEF Starting
<1>5. Starting \in BOOLEAN /\ Starting' \in BOOLEAN
  BY DEF Starting
<1> QED
  BY <1>2, <1>3, <1>4, <1>5 DEF Service!StartReturns

\* Everything else is a stutter of the stream.
serviceVars == <<StreamNow, StopsServed, Starting, StraySides, crashed>>

LEMMA ServiceStutter ==
  ASSUME IInv, TypeOK', UNCHANGED <<threads, loose, making, crashed>>,
         \A t \in Threads : Streaming(t)' = Streaming(t),
         \A c \in Clients : \/ cpc[c] # "endJoin" /\ cpc'[c] # "endJoin"
                            \/ cpc'[c] = cpc[c] /\ SideOf(c)' = SideOf(c)
  PROVE  UNCHANGED serviceVars
<1>1. StreamNow' = StreamNow /\ StraySides' = StraySides
  BY ThreadsKeep
<1>2. Starting' = Starting
  BY DEF Starting
<1>3. StopsServed' = StopsServed
  BY StopsKept
<1> QED
  BY <1>1, <1>2, <1>3 DEF serviceVars

LEMMA CallStutters ==
  ASSUME IInv, TypeOK', NEW c \in Clients, Call(c)
  PROVE  UNCHANGED serviceVars
<1> PICK k \in CallSet :
      \/ CallAdd(c, k) \/ CallRemove(c, k) \/ CallSetDevice(c, k)
      \/ CallPlayback(c, k) \/ CallPlaybackCopy(c, k) \/ CallDelete(c, k)
  BY CallsLegal DEF Call
<1> DEFINE Labels == {"push", "removeTest", "release", "startWait", "endWait", "copy",
                      "dtorStore"}
<1>1. PICK l \in Labels : Begin(c, k, l)
  BY DEF CallAdd, CallRemove, CallSetDevice, CallPlayback, CallPlaybackCopy, CallDelete
<1>2. UNCHANGED <<threads, starts, tpc, crashed>>
  BY DEF CallAdd, CallRemove, CallSetDevice, CallPlayback, CallPlaybackCopy, CallDelete
<1>3. cpc[c] # "endJoin" /\ cpc'[c] # "endJoin"
  BY <1>1 DEF Call, Begin, Goto, IInv, TypeOK
<1>4. \A d \in Clients : d # c => cpc'[d] = cpc[d] /\ SideOf(d)' = SideOf(d)
  BY <1>1 DEF Begin, Goto, IInv, TypeOK, SideOf
<1> QED
  BY <1>2, <1>3, <1>4, ServiceStutter DEF Streaming

\* A thread that starts is not open yet.
LEMMA StartStutters ==
  ASSUME IInv, TypeOK', NEW c \in Clients, StartTest(c)
  PROVE  UNCHANGED serviceVars
<1> USE DEF StartTest, Goto, cvars
<1>1. CASE Spawn(c)
  <2> PICK u \in FreeNames :
        /\ tpc' = [tpc EXCEPT ![u] = "prepare"]
        /\ threads' = [threads EXCEPT ![SideOf(c)] = @ \cup {u}]
        /\ making' = [making EXCEPT ![c] = u]
    BY <1>1 DEF Spawn
  <2>1. /\ SideOf(c) \in Sides /\ u \in Threads /\ tpc[u] = "free"
        /\ UNCHANGED <<loose, call, crashed>> /\ cpc' = [cpc EXCEPT ![c] = "insert"]
        /\ cpc[c] = "startTest"
    BY <1>1 DEF SideOf, Sides, FreeNames, Spawn
  <2>2. /\ ~Streaming(u) /\ ~Streaming(u)' /\ u \notin loose
        /\ \A t \in Threads : Streaming(t)' = Streaming(t)
    BY <2>1 DEF IInv, TypeOK, Protocol, StartsKept, Streaming
  <2>3. \A s \in Sides : threads'[s] = threads[s] \/ threads'[s] = threads[s] \cup {u}
    BY <2>1 DEF IInv, TypeOK
  <2>4. StreamNow' = StreamNow
    BY <2>1, <2>2, <2>3, StreamKept
  <2>5. StraySides' = StraySides
    BY <2>1, <2>2, <2>3 DEF StraySides, IInv, TypeOK
  <2>6. Starting' = Starting
    <3>1. making[c] = NoThread
      BY <2>1 DEF IInv, Protocol, StartsKept
    <3>2. \A d \in Clients, t \in Threads \ loose :
            making'[d] = t /\ Streaming(t)' <=> making[d] = t /\ Streaming(t)
      BY <2>1, <2>2, <3>1, ThreadsDistinct DEF IInv, TypeOK
    <3> QED
      BY <2>1, <3>2 DEF Starting
  <2>7. StopsServed' = StopsServed
    BY <2>1, SideKept, StopsKept DEF IInv, TypeOK
  <2> QED
    BY <2>1, <2>4, <2>5, <2>6, <2>7 DEF serviceVars
<1>2. CASE FallThrough(c)
  <2>1. /\ cpc[c] = "startTest" /\ cpc' = [cpc EXCEPT ![c] = "idle"]
        /\ UNCHANGED <<threads, tpc, loose, making, call, crashed>>
    BY <1>2 DEF FallThrough
  <2> QED
    BY <2>1, SideKept, ServiceStutter DEF Streaming, IInv, TypeOK
<1> QED
  BY <1>1, <1>2

LEMMA ClientStutters ==
  ASSUME IInv, TypeOK', NEW c \in Clients, ClientStep(c),
         ~StartTest(c), ~EndStore(c), ~EndJoin(c), ~Insert(c), ~Trample(c)
  PROVE  UNCHANGED serviceVars
<1> USE DEF ClientStep, Push, AddTest, RemoveTest, Erase, StartWait, EndWait, Wait,
            Release, Install, ReadFlag, DtorStore, DtorJoinIn, DtorJoinOut, CopyOne,
            CopyClientDone, Goto, cvars
<1>1. UNCHANGED <<call, threads, tpc, starts, crashed>>
  OBVIOUS
<1>2. cpc' = cpc \/ (cpc[c] # "endJoin" /\ \E l \in CallPCs \ {"endJoin"} : Goto(c, l))
  BY DEF CallPCs
<1>3. \A d \in Clients : \/ cpc[d] # "endJoin" /\ cpc'[d] # "endJoin"
                         \/ cpc'[d] = cpc[d] /\ SideOf(d)' = SideOf(d)
  BY <1>1, <1>2, SideKept DEF IInv, TypeOK
<1> QED
  BY <1>1, <1>3, ServiceStutter DEF Streaming

\* The process terminates, with everything else as it was.
LEMMA CrashEnds ==
  ASSUME UNCHANGED <<flow, cvars>>, crashed' = TRUE
  PROVE  Service!ProcessEnds
<1>1. UNCHANGED <<threads, loose, making, tpc, cpc, call>>
  OBVIOUS
<1>2. \A t \in Threads : Streaming(t)' = Streaming(t)
  BY <1>1 DEF Streaming
<1>3. \A c \in Clients : SideOf(c)' = SideOf(c)
  BY <1>1, SideKept
<1>4. OpenSide' = OpenSide
  BY <1>1, <1>2 DEF OpenSide, Streaming
<1>5. StreamNow' = StreamNow
  BY <1>4 DEF StreamNow
<1>6. Starting' = Starting
  BY <1>1, <1>2 DEF Starting
<1>7. StraySides' = StraySides
  BY <1>1 DEF StraySides
<1>8. StopsServed' = StopsServed
  BY <1>1, <1>3 DEF StopsServed
<1> QED
  BY <1>5, <1>6, <1>7, <1>8 DEF Service!ProcessEnds

\* What an engine thread's step is to the stream.
LEMMA ThreadServes ==
  ASSUME IInv, TypeOK', Running, NEW t \in Threads, ThreadStep(t)
  PROVE  Service!StreamNext \/ UNCHANGED serviceVars
<1>1. ASSUME NEW s \in Sides, t \in threads[s], Publish(s, t)
      PROVE  Service!StreamNext
  BY <1>1, PublishOpens
     DEF Service!StreamNext, Service!StreamStep, Service!StreamSides, Sides, Running
<1>2. ASSUME NEW s \in Sides, t \in threads[s], OpenRefused(s, t) \/ LoopExit(s, t)
      PROVE  Service!StreamNext \/ UNCHANGED serviceVars
  BY <1>2, ReturnCloses DEF Service!StreamNext, Service!StreamStep, Running, serviceVars
<1>3. ASSUME NEW s \in Sides, t \in threads[s], GiveUp(s, t)
      PROVE  UNCHANGED serviceVars
  <2> USE DEF IInv, Protocol, TypeOK, cvars
  <2>1. /\ t \in Threads /\ ~Streaming(t) /\ t \notin loose
        /\ threads' = [threads EXCEPT ![s] = @ \ {t}]
        /\ tpc' = [tpc EXCEPT ![t] = "free"]
        /\ loose' = loose /\ UNCHANGED <<making, cpc, call, crashed>>
    BY <1>3 DEF GiveUp, Returns, Streaming, StartsKept
  <2>2. \A u \in Threads : Streaming(u)' = Streaming(u)
    BY <2>1 DEF Streaming
  <2>3. \A r \in Sides : threads'[r] = threads[r] \/ threads'[r] = threads[r] \ {t}
    BY <2>1
  <2>4. StreamNow' = StreamNow
    BY <2>1, <2>2, <2>3, StreamKept
  <2>5. Starting' = Starting
    BY <2>1, <2>2 DEF Starting
  <2>6. StraySides' = StraySides
    BY <2>1, <2>3 DEF StraySides
  <2>7. StopsServed' = StopsServed
    BY <2>1, SideKept, StopsKept
  <2> QED
    BY <2>1, <2>4, <2>5, <2>6, <2>7 DEF serviceVars
<1>4. ASSUME NEW s \in Sides, OpenFails(s, t) \/ PureCall(s, t)
      PROVE  Service!StreamNext
  BY <1>4, CrashEnds DEF OpenFails, PureCall, Service!StreamNext, Running
<1>5. ASSUME \/ \E s \in Sides : Prepare(s, t) \/ Open(s, t) \/ LoopBody(s, t)
             \/ CopyOne(t) \/ CopyNextList(t) \/ CopyThreadDone(t)
      PROVE  UNCHANGED serviceVars
  <2> USE DEF Prepare, Open, LoopBody, CopyOne, CopyNextList, CopyThreadDone, cvars
  <2>1. UNCHANGED <<cpc, call, threads, starts, crashed>>
    BY <1>5
  <2>2. \A u \in Threads : Streaming(u)' = Streaming(u)
    BY <1>5 DEF IInv, TypeOK, Streaming
  <2> QED
    BY <2>1, <2>2, SideKept, ServiceStutter
<1> QED
  BY <1>1, <1>2, <1>3, <1>4, <1>5 DEF ThreadStep

LEMMA ClientServes ==
  ASSUME IInv, TypeOK', Running, NEW c \in Clients, Call(c) \/ ClientStep(c)
  PROVE  Service!StreamNext \/ UNCHANGED serviceVars
<1> USE DEF Service!StreamNext, Service!StreamStep, Running
<1>1. SideOf(c) \in Service!StreamSides
  BY DEF SideOf, Service!StreamSides
<1>2. CASE EndStore(c)
  BY <1>1, <1>2, EndStoreRequests
<1>3. CASE EndJoin(c)
  BY <1>1, <1>3, EndJoinConfirms
<1>4. CASE Insert(c)
  BY <1>4, InsertReturns DEF serviceVars
<1>5. CASE Trample(c)
  BY <1>5, CrashEnds DEF Trample
<1>6. CASE StartTest(c)
  BY <1>6, StartStutters
<1>7. CASE Call(c)
  BY <1>7, CallStutters
<1> QED
  BY <1>2, <1>3, <1>4, <1>5, <1>6, <1>7, ClientStutters

LEMMA ServiceStep ==
  ASSUME IInv, [Next]_vars
  PROVE  [Service!StreamNext]_serviceVars
<1> TypeOK'
  BY TypeStep
<1>1. ASSUME Running, NEW p \in Procs, UseInvalid(p)
      PROVE  Service!StreamNext
  BY <1>1, CrashEnds DEF UseInvalid, Service!StreamNext, Running
<1>2. ASSUME UNCHANGED vars
      PROVE  UNCHANGED serviceVars
  <2>1. UNCHANGED <<cpc, call, threads, starts, tpc, crashed>>
    BY <1>2 DEF vars
  <2> QED
    BY <2>1, SideKept, ServiceStutter DEF Streaming
<1> QED
  BY <1>1, <1>2, ClientServes, ThreadServes DEF Next, Step

\* Whatever the clients do, the backend is one exclusive stream whose stops are
\* barriers: nothing opens while endRecord or endPlayback waits for a thread,
\* and neither returns before its stream is closed, unless it has overtaken the
\* call that started the stream; such a stray stream is all that may be open
\* besides.
THEOREM ExclusiveStreamImplemented == Spec => ImplementsExclusiveStream
<1>1. Init => Service!StreamInit
  <2> SUFFICES ASSUME Init PROVE Service!StreamInit
    OBVIOUS
  <2>1. OpenSide = {} /\ StopsServed = {} /\ StraySides = {} /\ Starting = FALSE
    BY DEF Init, OpenSide, StopsServed, StraySides, Starting, Streaming
  <2> QED
    BY <2>1, StreamIs DEF Service!StreamInit, Init
<1>2. IInv /\ [Next]_vars => [Service!StreamNext]_serviceVars
  BY ServiceStep
<1> QED
  BY <1>1, <1>2, Invariance, PTL
     DEF Spec, ImplementsExclusiveStream, Service!StreamSpec, Service!avars, serviceVars
=============================================================================
