------------------------------- MODULE OSAudio -------------------------------
(****************************************************************************)
(* The audio backend shared by every platform (src/src/audio/OSAudio.cpp):  *)
(* the lists of sinks, the capture and playback threads, the semaphore and  *)
(* the two stop flags that arbitrate between them.                          *)
(*                                                                          *)
(* "Clients" are the application threads that call the public methods (the  *)
(* user interface, the recorder, the player, the visualizer); "Threads" are *)
(* the std::thread objects of inThreads and outThreads.  The capture and    *)
(* the playback halves of the class are the same code over different        *)
(* members, so a side, "in" or "out", selects the member:                   *)
(*   ended["in"] = endCapture, threads["in"] = inThreads,                   *)
(*   device["in"] = activeInputDevice, and "out" likewise.                  *)
(*                                                                          *)
(* A std::thread whose function has returned is joined without waiting, so  *)
(* threads[s] keeps only the threads still running and a returned thread's  *)
(* name is free again.  A thread runs before it is in the vector: until the *)
(* client that started it has inserted it, it is the client's "making".     *)
(****************************************************************************)
EXTENDS Integers, Sequences, FiniteSets

CONSTANTS
  Clients,    \* application threads
  Threads,    \* names for the engine threads
  Buffers,    \* HulaRingBuffer objects
  Callbacks,  \* ICallback objects
  Inputs,     \* capture devices that pass checkDeviceParams
  Outputs,    \* playback devices that pass it
  Calls,      \* Calls[c]: the calls client c makes, [op |-> ..., arg |-> ...]
  MayFail     \* what the operating system may refuse: see FailureKinds

Sides == {"in", "out"}
Devices(s) == IF s = "in" THEN Inputs ELSE Outputs
Lists == {"rbs", "cbs"}
OtherList(l) == IF l = "rbs" THEN "cbs" ELSE "rbs"

\* "enumerate": getDevices finds nothing.  "open": the stream does not open.
\* "noid": the output device has no identifier, playback() returns at once.
FailureKinds == {"enumerate", "open", "noid"}

NoDevice == "null"      \* nullptr
Freed == "freed"        \* a deleted Device that is still pointed to
NoThread == "no thread"

Ops == {"addBuffer", "removeBuffer", "addCallback", "removeCallback",
        "setActiveInputDevice", "setActiveOutputDevice", "startPlayback",
        "endPlayback", "playbackCopyToBuffers", "delete"}
NoArg == "none"
Args == Buffers \cup Callbacks \cup Inputs \cup Outputs \cup {NoArg}
CallSet == [op : Ops, arg : Args]
NoCall == [op |-> "none", arg |-> NoArg]

ASSUME ThreadsDistinct == Clients \cap Threads = {} /\ NoThread \notin Threads
ASSUME DevicesReal == {NoDevice, Freed} \cap (Inputs \cup Outputs) = {}
ASSUME CallsLegal == Calls \in [Clients -> SUBSET CallSet]
ASSUME FailuresKnown == MayFail \subseteq FailureKinds

VARIABLES
  sem,             \* stateSem.count
  ended,           \* endCapture and endPlay
  sinks,           \* rbs and cbs
  threads,         \* the threads of inThreads and outThreads that run
  making,          \* the thread each client has started and not yet inserted
  loose,           \* running threads that a stop has not waited for
  device,          \* activeInputDevice and activeOutputDevice
  playbackBuffer,  \* is there unplayed audio in playbackBuffer?
  cpc,             \* where each client is in its call
  call,            \* the call it makes
  prev,            \* prevRec or prevPlay of its setActive*Device call
  tpc,             \* where each engine thread is
  iter,            \* the vector iterator a client or engine thread holds
  stale,           \* who holds an iterator its vector has invalidated
  crashed,         \* the process has terminated abnormally
  destroyed        \* ~OSAudio has begun

starts == <<making, loose>>
flow == <<sem, ended, threads, tpc, starts>>
data == <<sinks, device, playbackBuffer>>
cvars == <<cpc, call, prev>>
ivars == <<iter, stale>>
life == <<crashed, destroyed>>
vars == <<flow, data, cvars, ivars, life>>

Procs == Clients \cup Threads
NoIter == [list |-> "none", at |-> 0]
Iters == [list : Lists \cup {"none"}, at : Nat]

CallPCs == {"idle", "push", "addTest", "startWait", "startTest", "insert", "removeTest",
            "endWait", "endStore", "endJoin", "erase", "release", "install",
            "readFlag", "copy", "dtorStore", "dtorJoinIn", "dtorJoinOut"}
ThreadPCs == {"free", "prepare", "publish", "open", "loop", "copy"}

\* The list that an add or a remove is about.
ListOf(c) == IF call[c].op \in {"addBuffer", "removeBuffer"} THEN "rbs" ELSE "cbs"

\* The side whose thread the call starts or ends.
SideOf(c) == IF call[c].op \in {"startPlayback", "endPlayback", "setActiveOutputDevice"}
             THEN "out" ELSE "in"

ElementsOf(l) == {sinks[l][i] : i \in 1 .. Len(sinks[l])}

\* OSAudio(): both flags say "ended", the semaphore is free, nothing runs.
Init ==
  /\ sem = 1
  /\ ended = [s \in Sides |-> TRUE]
  /\ sinks = [l \in Lists |-> << >>]
  /\ threads = [s \in Sides |-> {}]
  /\ making = [c \in Clients |-> NoThread]
  /\ loose = {}
  /\ device = [s \in Sides |-> NoDevice]
  /\ playbackBuffer = FALSE
  /\ cpc = [c \in Clients |-> "idle"]
  /\ call = [c \in Clients |-> NoCall]
  /\ prev = [c \in Clients |-> FALSE]
  /\ tpc = [t \in Threads |-> "free"]
  /\ iter = [p \in Procs |-> NoIter]
  /\ stale = {}
  /\ crashed = FALSE
  /\ destroyed = FALSE

Goto(c, label) == cpc' = [cpc EXCEPT ![c] = label]
Begin(c, k, label) == Goto(c, label) /\ call' = [call EXCEPT ![c] = k]

(****************************************************************************)
(* Vector iterators.  A mutation invalidates the iterators of the processes *)
(* in "lost"; a process that goes on with a stale one either works on       *)
(* whatever its position holds now or brings the process down.              *)
(****************************************************************************)
Holding(l) == {p \in Procs : iter[p].list = l}
Beyond(l, i) == {p \in Holding(l) : iter[p].at >= i}

\* erase(it) for a position it.
Without(seq, i) == SubSeq(seq, 1, i - 1) \o SubSeq(seq, i + 1, Len(seq))

Drop(p) == /\ iter' = [iter EXCEPT ![p] = NoIter]
           /\ stale' = stale \ {p}

UseInvalid(p) ==
  /\ p \in stale
  /\ crashed' = TRUE
  /\ UNCHANGED <<destroyed, flow, data, cvars, ivars>>

----------------------------------------------------------------------------
(****************************************************************************)
(* Calls that end before they change anything are not steps: a nullptr, a   *)
(* sink that is already registered, a sink that is not, a device of the     *)
(* wrong type or one that checkDeviceParams refuses.                        *)
(****************************************************************************)

\* addBuffer, addCallback up to find(): the sink is not registered yet.
CallAdd(c, k) ==
  /\ k.op \in {"addBuffer", "addCallback"}
  /\ k.arg \notin ElementsOf(IF k.op = "addBuffer" THEN "rbs" ELSE "cbs")
  /\ Begin(c, k, "push")
  /\ UNCHANGED <<prev, flow, data, ivars, life>>

\* removeBuffer, removeCallback up to find(): the iterator of the sink.
CallRemove(c, k) ==
  /\ k.op \in {"removeBuffer", "removeCallback"}
  /\ \E l \in Lists : \E i \in 1 .. Len(sinks[l]) :
       /\ l = (IF k.op = "removeBuffer" THEN "rbs" ELSE "cbs")
       /\ sinks[l][i] = k.arg
       /\ \A j \in 1 .. (i - 1) : sinks[l][j] # k.arg
       /\ iter' = [iter EXCEPT ![c] = [list |-> l, at |-> i]]
  /\ Begin(c, k, "removeTest")
  /\ UNCHANGED <<prev, stale, flow, data, life>>

CallSetDevice(c, k) ==
  /\ \/ k.op = "setActiveInputDevice" /\ k.arg \in Inputs
     \/ k.op = "setActiveOutputDevice" /\ k.arg \in Outputs
  /\ Begin(c, k, "release")
  /\ UNCHANGED <<prev, flow, data, ivars, life>>

CallPlayback(c, k) ==
  /\ \/ k.op = "startPlayback" /\ Begin(c, k, "startWait")
     \/ k.op = "endPlayback" /\ Begin(c, k, "endWait")
  /\ UNCHANGED <<prev, flow, data, ivars, life>>

\* playbackCopyToBuffers: write to playbackBuffer, then copyToBuffers begins.
CallPlaybackCopy(c, k) ==
  /\ k.op = "playbackCopyToBuffers"
  /\ playbackBuffer' = TRUE
  /\ iter' = [iter EXCEPT ![c] = [list |-> "rbs", at |-> 1]]
  /\ Begin(c, k, "copy")
  /\ UNCHANGED <<sinks, device, prev, stale, flow, life>>

\* ~OSAudio is called by the owner once every other call has returned.
CallDelete(c, k) ==
  /\ k.op = "delete"
  /\ \A d \in Clients : cpc[d] = "idle"
  /\ destroyed' = TRUE
  /\ Begin(c, k, "dtorStore")
  /\ UNCHANGED <<prev, crashed, flow, data, ivars>>

Call(c) ==
  /\ cpc[c] = "idle"
  /\ ~destroyed
  /\ \E k \in Calls[c] :
       \/ CallAdd(c, k)
       \/ CallRemove(c, k)
       \/ CallSetDevice(c, k)
       \/ CallPlayback(c, k)
       \/ CallPlaybackCopy(c, k)
       \/ CallDelete(c, k)

----------------------------------------------------------------------------
(****************************************************************************)
(* Registering and removing sinks.                                          *)
(****************************************************************************)

\* push_back; growing the vector may move it and invalidate every iterator.
Push(c) ==
  /\ cpc[c] = "push"
  /\ sinks' = [sinks EXCEPT ![ListOf(c)] = Append(@, call[c].arg)]
  /\ \E moved \in BOOLEAN :
       stale' = IF moved THEN stale \cup Holding(ListOf(c)) ELSE stale
  /\ Goto(c, "addTest")
  /\ UNCHANGED <<device, playbackBuffer, call, prev, iter, flow, life>>

\* The test that makes the call start or stop the capture thread.
OnlySink(c) ==
  Len(sinks[ListOf(c)]) = 1 /\ Len(sinks[OtherList(ListOf(c))]) = 0

AddTest(c) ==
  /\ cpc[c] = "addTest"
  /\ Goto(c, IF OnlySink(c) THEN "startWait" ELSE "idle")
  /\ UNCHANGED <<call, prev, flow, data, ivars, life>>

\* As a bug would have it: the last sink is removed without endRecord.
RemoveTestNever(c) ==
  /\ cpc[c] = "removeTest"
  /\ Goto(c, "erase")
  /\ UNCHANGED <<call, prev, flow, data, ivars, life>>

RemoveTest(c) ==
  /\ cpc[c] = "removeTest"
  /\ Goto(c, IF OnlySink(c) THEN "endWait" ELSE "erase")
  /\ UNCHANGED <<call, prev, flow, data, ivars, life>>

\* erase(it): the iterators from it on are invalid afterwards.  An erase
\* through a stale iterator may remove any element.
Erase(c) ==
  /\ cpc[c] = "erase"
  /\ \E i \in 1 .. Len(sinks[ListOf(c)]) :
       /\ i = iter[c].at \/ c \in stale
       /\ sinks' = [sinks EXCEPT ![ListOf(c)] = Without(@, i)]
       /\ stale' = (stale \cup Beyond(ListOf(c), i)) \ {c}
  /\ iter' = [iter EXCEPT ![c] = NoIter]
  /\ Goto(c, "idle")
  /\ UNCHANGED <<device, playbackBuffer, call, prev, flow, life>>

----------------------------------------------------------------------------
(****************************************************************************)
(* Starting and stopping an engine thread: startRecord, startPlayback,      *)
(* endRecord, endPlayback, with Semaphore::wait as a step of its own.       *)
(****************************************************************************)
Wait(c, from, to) ==
  /\ cpc[c] = from
  /\ sem > 0
  /\ sem' = sem - 1
  /\ Goto(c, to)
  /\ UNCHANGED <<ended, threads, starts, call, prev, tpc, data, ivars, life>>

StartWait(c) == Wait(c, "startWait", "startTest")
\* As a bug would have it: endRecord does not wait for the semaphore.
EndWaitNot(c) ==
  /\ cpc[c] = "endWait"
  /\ Goto(c, "endStore")
  /\ UNCHANGED <<call, prev, flow, data, ivars, life>>

EndWait(c) == Wait(c, "endWait", "endStore")

\* Names for a new thread.
FreeNames == {t \in Threads : tpc[t] = "free" /\ \A c \in Clients : making[c] # t}

\* Mutations: startRecord notifies although the thread will; startRecord and
\* startPlayback test only their own flag.
SpawnAndNotify(c) ==
  /\ \A d \in Sides : ended[d]
  /\ \E t \in FreeNames :
       /\ tpc' = [tpc EXCEPT ![t] = "prepare"]
       /\ threads' = [threads EXCEPT ![SideOf(c)] = @ \cup {t}]
       /\ making' = [making EXCEPT ![c] = t]
  /\ sem' = sem + 1
  /\ Goto(c, "insert")

SpawnOwnFlag(c) ==
  /\ ended[SideOf(c)]
  /\ \E t \in FreeNames :
       /\ tpc' = [tpc EXCEPT ![t] = "prepare"]
       /\ threads' = [threads EXCEPT ![SideOf(c)] = @ \cup {t}]
       /\ making' = [making EXCEPT ![c] = t]
  /\ UNCHANGED sem
  /\ Goto(c, "insert")

\* Nothing runs: start the thread, which inherits the semaphore.
Spawn(c) ==
  /\ \A d \in Sides : ended[d]
  /\ \E t \in FreeNames :
       /\ tpc' = [tpc EXCEPT ![t] = "prepare"]
       /\ threads' = [threads EXCEPT ![SideOf(c)] = @ \cup {t}]
       /\ making' = [making EXCEPT ![c] = t]
  /\ UNCHANGED sem
  /\ Goto(c, "insert")

\* Something runs, capture or playback: the request "fell through".
FallThrough(c) ==
  /\ \E d \in Sides : ~ended[d]
  /\ sem' = sem + 1
  /\ Goto(c, "idle")
  /\ UNCHANGED <<tpc, threads, making>>

StartTest(c) ==
  /\ cpc[c] = "startTest"
  /\ Spawn(c) \/ FallThrough(c)
  /\ UNCHANGED <<ended, loose, call, prev, data, ivars, life>>

\* emplace_back puts the thread in the vector.  It has run since Spawn, and may
\* have given the semaphore back, so this is under no lock.
Insert(c) ==
  /\ cpc[c] = "insert"
  /\ making' = [making EXCEPT ![c] = NoThread]
  /\ Goto(c, "idle")
  /\ UNCHANGED <<sem, ended, threads, loose, call, prev, tpc, data, ivars, life>>

\* A vector that another client inserts into meanwhile may also bring the
\* process down, as does the destruction of a thread that is not joined.
Trample(c) ==
  /\ cpc[c] \in {"insert", "endJoin"}
  /\ \E d \in Clients \ {c} : cpc[d] = "insert" /\ SideOf(d) = SideOf(c)
  /\ crashed' = TRUE
  /\ UNCHANGED <<destroyed, flow, data, cvars, ivars>>

\* As a bug would have it: the thread is joined without being told to stop.
EndStoreNot(c) ==
  /\ cpc[c] = "endStore"
  /\ Goto(c, "endJoin")
  /\ UNCHANGED <<call, prev, flow, data, ivars, life>>

EndStore(c) ==
  /\ cpc[c] = "endStore"
  /\ ended' = [ended EXCEPT ![SideOf(c)] = TRUE]
  /\ Goto(c, "endJoin")
  /\ UNCHANGED <<sem, threads, starts, call, prev, tpc, data, ivars, life>>

\* Where a call goes on once its endRecord or endPlayback has returned.
AfterEnd(c) ==
  IF call[c].op \in {"removeBuffer", "removeCallback"} THEN "erase"
  ELSE IF call[c].op # "endPlayback" /\ prev[c] THEN "startWait"
  ELSE "idle"

\* As a bug would have it: the thread is told to stop and not joined.
EndJoinNot(c) ==
  /\ cpc[c] = "endJoin"
  /\ loose' = loose \cup threads[SideOf(c)]
  /\ sem' = sem + 1
  /\ playbackBuffer' = (playbackBuffer /\ SideOf(c) = "in")
  /\ Goto(c, AfterEnd(c))
  /\ UNCHANGED <<ended, sinks, threads, making, device, call, prev, tpc, ivars, life>>

\* The threads that joinAndKillThreads finds in the vector and must wait for.
Joinees(s) == {t \in threads[s] : \A c \in Clients : making[c] # t}

\* joinAndKillThreads; endPlayback also clears playbackBuffer; notify.
EndJoin(c) ==
  /\ cpc[c] = "endJoin"
  /\ Joinees(SideOf(c)) = {}
  /\ loose' = loose \cup threads[SideOf(c)]
  /\ sem' = sem + 1
  /\ playbackBuffer' = (playbackBuffer /\ SideOf(c) = "in")
  /\ Goto(c, AfterEnd(c))
  /\ UNCHANGED <<ended, sinks, threads, making, device, call, prev, tpc, ivars, life>>

----------------------------------------------------------------------------
(****************************************************************************)
(* setActiveInputDevice and setActiveOutputDevice, up to their endRecord or *)
(* endPlayback: none of this is under the semaphore.                        *)
(****************************************************************************)
Release(c) ==
  /\ cpc[c] = "release"
  /\ device' = [device EXCEPT ![SideOf(c)] = IF @ = NoDevice THEN NoDevice ELSE Freed]
  /\ Goto(c, "install")
  /\ UNCHANGED <<sinks, playbackBuffer, call, prev, flow, ivars, life>>

Install(c) ==
  /\ cpc[c] = "install"
  /\ device' = [device EXCEPT ![SideOf(c)] = call[c].arg]
  /\ Goto(c, "readFlag")
  /\ UNCHANGED <<sinks, playbackBuffer, call, prev, flow, ivars, life>>

ReadFlag(c) ==
  /\ cpc[c] = "readFlag"
  /\ prev' = [prev EXCEPT ![c] = ~ended[SideOf(c)]]
  /\ Goto(c, "endWait")
  /\ UNCHANGED <<call, flow, data, ivars, life>>

----------------------------------------------------------------------------
(****************************************************************************)
(* The destructor sets both flags without the semaphore, then joins.  The   *)
(* destructor of the platform's class has run before that: getDevices() and *)
(* capture() are then pure virtual, and playback() is OSAudio's own.        *)
(****************************************************************************)
\* The platform's part of the object is still there, or may be.
Whole == ~destroyed \/ \E c \in Clients : cpc[c] = "dtorStore"

DtorStore(c) ==
  /\ cpc[c] = "dtorStore"
  /\ ended' = [s \in Sides |-> TRUE]
  /\ Goto(c, "dtorJoinIn")
  /\ UNCHANGED <<sem, threads, starts, call, prev, tpc, data, ivars, life>>

DtorJoinIn(c) ==
  /\ cpc[c] = "dtorJoinIn"
  /\ threads["in"] = {}
  /\ Goto(c, "dtorJoinOut")
  /\ UNCHANGED <<call, prev, flow, data, ivars, life>>

\* Delete the devices and the playback buffer; the object is gone.
DtorJoinOut(c) ==
  /\ cpc[c] = "dtorJoinOut"
  /\ threads["out"] = {}
  /\ device' = [s \in Sides |-> IF device[s] = NoDevice THEN NoDevice ELSE Freed]
  /\ playbackBuffer' = FALSE
  /\ Goto(c, "idle")
  /\ UNCHANGED <<sinks, call, prev, flow, ivars, life>>

----------------------------------------------------------------------------
(****************************************************************************)
(* The engine threads: backgroundCapture and backgroundPlayback, then       *)
(* capture() and playback() of the platform.                                *)
(****************************************************************************)
Returns(s, t) ==
  /\ tpc' = [tpc EXCEPT ![t] = "free"]
  /\ threads' = [threads EXCEPT ![s] = @ \ {t}]
  /\ loose' = loose \ {t}

\* Mutations: the early returns do not notify; they come after the store of
\* false in the flag.
GiveUpSilent(s, t) ==
  /\ tpc[t] = "prepare"
  /\ device[s] = NoDevice /\ "enumerate" \in MayFail
  /\ Returns(s, t)
  /\ UNCHANGED <<sem, ended, making, data, cvars, ivars, life>>

GiveUpStored(s, t) ==
  /\ tpc[t] = "prepare"
  /\ device[s] = NoDevice /\ "enumerate" \in MayFail
  /\ ended' = [ended EXCEPT ![s] = FALSE]
  /\ sem' = sem + 1
  /\ Returns(s, t)
  /\ UNCHANGED <<making, data, cvars, ivars, life>>

\* No sink to capture for, or no device: notify and return.
GiveUp(s, t) ==
  /\ tpc[t] = "prepare"
  /\ \/ s = "in" /\ \A l \in Lists : sinks[l] = << >>
     \/ device[s] = NoDevice /\ Whole /\ (Devices(s) = {} \/ "enumerate" \in MayFail)
  /\ sem' = sem + 1
  /\ Returns(s, t)
  /\ UNCHANGED <<ended, making, data, cvars, ivars, life>>

\* Default to the first device that getDevices finds.
Prepare(s, t) ==
  /\ tpc[t] = "prepare"
  /\ s = "in" => \E l \in Lists : sinks[l] # << >>
  /\ IF device[s] = NoDevice
     THEN Whole /\ \E d \in Devices(s) : device' = [device EXCEPT ![s] = d]
     ELSE UNCHANGED device
  /\ tpc' = [tpc EXCEPT ![t] = "publish"]
  /\ UNCHANGED <<sem, ended, sinks, threads, starts, playbackBuffer, cvars, ivars, life>>

\* After the platform's destructor a virtual call is OSAudio's pure one, or its
\* playback() after Pa_Terminate, and the process terminates.
PureCall(s, t) ==
  /\ destroyed
  /\ \/ tpc[t] = "prepare" /\ device[s] = NoDevice
        /\ s = "in" => \E l \in Lists : sinks[l] # << >>
     \/ tpc[t] = "open"
  /\ crashed' = TRUE
  /\ UNCHANGED <<destroyed, flow, data, cvars, ivars>>

\* Store false in the flag and notify whoever waits for the start.
Publish(s, t) ==
  /\ tpc[t] = "publish"
  /\ ended' = [ended EXCEPT ![s] = FALSE]
  /\ sem' = sem + 1
  /\ tpc' = [tpc EXCEPT ![t] = "open"]
  /\ UNCHANGED <<threads, starts, data, cvars, ivars, life>>

\* Read the device's identifier and open the stream.
Open(s, t) ==
  /\ tpc[t] = "open" /\ Whole
  /\ tpc' = [tpc EXCEPT ![t] = "loop"]
  /\ UNCHANGED <<sem, ended, threads, starts, data, cvars, ivars, life>>

\* The stream does not open, or the device was deleted meanwhile: an exception
\* leaves the thread's function and the process terminates.
OpenFails(s, t) ==
  /\ tpc[t] = "open"
  /\ "open" \in MayFail \/ device[s] = Freed
  /\ crashed' = TRUE
  /\ UNCHANGED <<destroyed, flow, data, cvars, ivars>>

\* OSAudio's playback() returns early for a device without a PortAudio
\* identifier, which on Linux no device has.
OpenRefused(s, t) ==
  /\ tpc[t] = "open"
  /\ s = "out" /\ ("noid" \in MayFail \/ destroyed)
  /\ Returns(s, t)
  /\ UNCHANGED <<sem, ended, making, data, cvars, ivars, life>>

\* The loop condition holds: capture reads a block and begins copyToBuffers,
\* playback takes what playbackBuffer has.
LoopBody(s, t) ==
  /\ tpc[t] = "loop"
  /\ ~ended[s]
  /\ IF s = "in"
     THEN /\ iter' = [iter EXCEPT ![t] = [list |-> "rbs", at |-> 1]]
          /\ tpc' = [tpc EXCEPT ![t] = "copy"]
          /\ UNCHANGED playbackBuffer
     ELSE /\ playbackBuffer' = FALSE
          /\ UNCHANGED <<iter, tpc>>
  /\ UNCHANGED <<sem, ended, sinks, threads, starts, device, stale, cvars, life>>

LoopExit(s, t) ==
  /\ tpc[t] = "loop"
  /\ ended[s]
  /\ Returns(s, t)
  /\ UNCHANGED <<sem, ended, making, data, cvars, ivars, life>>

----------------------------------------------------------------------------
(****************************************************************************)
(* copyToBuffers, run by the capture thread and by playbackCopyToBuffers,   *)
(* and doCallbacks, which follows it in the capture thread.                 *)
(****************************************************************************)
Copying(p) == IF p \in Clients THEN cpc[p] = "copy" ELSE tpc[p] = "copy"

\* Write to the sink under the iterator and advance it.
CopyOne(p) ==
  /\ Copying(p)
  /\ iter[p].at <= Len(sinks[iter[p].list])
  /\ iter' = [iter EXCEPT ![p] = [list |-> @.list, at |-> @.at + 1]]
  /\ UNCHANGED <<stale, flow, data, cvars, life>>

AtEnd(p) == iter[p].at = Len(sinks[iter[p].list]) + 1

\* rbs is done: the capture thread goes on with cbs.
CopyNextList(t) ==
  /\ tpc[t] = "copy" /\ AtEnd(t)
  /\ iter[t].list = "rbs"
  /\ iter' = [iter EXCEPT ![t] = [list |-> "cbs", at |-> 1]]
  /\ stale' = stale \ {t}
  /\ UNCHANGED <<flow, data, cvars, life>>

CopyThreadDone(t) ==
  /\ tpc[t] = "copy" /\ AtEnd(t)
  /\ iter[t].list = "cbs"
  /\ Drop(t)
  /\ tpc' = [tpc EXCEPT ![t] = "loop"]
  /\ UNCHANGED <<sem, ended, threads, starts, data, cvars, life>>

CopyClientDone(c) ==
  /\ cpc[c] = "copy" /\ AtEnd(c)
  /\ Drop(c)
  /\ Goto(c, "idle")
  /\ UNCHANGED <<call, prev, flow, data, life>>

----------------------------------------------------------------------------
\* Everything a client does inside a call, and everything an engine thread does.
ClientStep(c) ==
  \/ Push(c) \/ AddTest(c) \/ RemoveTest(c) \/ Erase(c)
  \/ StartWait(c) \/ StartTest(c) \/ Insert(c) \/ Trample(c)
  \/ EndWait(c) \/ EndStore(c) \/ EndJoin(c)
  \/ Release(c) \/ Install(c) \/ ReadFlag(c)
  \/ DtorStore(c) \/ DtorJoinIn(c) \/ DtorJoinOut(c)
  \/ CopyOne(c) \/ CopyClientDone(c)

ThreadStep(t) ==
  \/ \E s \in Sides :
       /\ t \in threads[s]
       /\ \/ GiveUp(s, t) \/ Prepare(s, t) \/ Publish(s, t) \/ PureCall(s, t)
          \/ Open(s, t) \/ OpenFails(s, t) \/ OpenRefused(s, t)
          \/ LoopBody(s, t) \/ LoopExit(s, t)
  \/ CopyOne(t) \/ CopyNextList(t) \/ CopyThreadDone(t)

Running == ~crashed

Step ==
  \/ \E c \in Clients : Call(c) \/ ClientStep(c)
  \/ \E t \in Threads : ThreadStep(t)
  \/ \E p \in Procs : UseInvalid(p)

\* The process is gone, or the object is.
Stopped == crashed \/ (destroyed /\ \A c \in Clients : cpc[c] = "idle")

Next == (Running /\ Step) \/ (Stopped /\ UNCHANGED vars)

Spec == Init /\ [][Next]_vars

\* A thread that can take a step is scheduled; nobody has to make a call.
Fairness ==
  /\ \A c \in Clients : WF_vars(Running /\ ClientStep(c))
  /\ \A t \in Threads : WF_vars(Running /\ ThreadStep(t))

FairSpec == Spec /\ Fairness
----------------------------------------------------------------------------
(****************************************************************************)
(* Properties.                                                              *)
(****************************************************************************)

\* Every variable stays in its range; in particular stateSem.count never
\* exceeds one, although four different steps of two kinds of thread notify it.
TypeOK ==
  /\ sem \in {0, 1}
  /\ ended \in [Sides -> BOOLEAN]
  /\ sinks \in [Lists -> Seq(Args)]
  /\ threads \in [Sides -> SUBSET Threads]
  /\ making \in [Clients -> Threads \cup {NoThread}]
  /\ loose \in SUBSET Threads
  /\ device \in [Sides -> Inputs \cup Outputs \cup {NoDevice, Freed}]
  /\ playbackBuffer \in BOOLEAN
  /\ cpc \in [Clients -> CallPCs]
  /\ call \in [Clients -> CallSet \cup {NoCall}]
  /\ prev \in [Clients -> BOOLEAN]
  /\ tpc \in [Threads -> ThreadPCs]
  /\ iter \in [Procs -> Iters]
  /\ stale \in SUBSET Procs
  /\ crashed \in BOOLEAN
  /\ destroyed \in BOOLEAN

\* Who must notify the semaphore next.
Holders == {c \in Clients : cpc[c] \in {"startTest", "endStore", "endJoin"}}
           \cup {t \in Threads : tpc[t] \in {"prepare", "publish"}}

\* The semaphore passes from the client that spawns a thread to the thread and
\* is never lost or doubled: it is taken exactly when somebody, and only one,
\* still has to give it back.
SemaphoreOwned ==
  /\ sem = 0 <=> Holders # {}
  /\ \A p, q \in Holders : p = q

\* A thread that has the device stream open, or is about to.
Streaming(t) == tpc[t] \in {"open", "loop", "copy"}

\* Capture and playback never run together, and never twice, whatever the
\* clients call and in whatever order, but for the threads that a stop came
\* too early to join: before the call that started them had returned.
OneStream ==
  \A s, r \in Sides : \A t \in threads[s] \ loose : \A u \in threads[r] \ loose :
    s = r /\ t = u

\* Without that exception, which startRecord's comment rules out: "Mutex will
\* be unlocked by backgroundCapture once thread creation is complete".
NeverTwoStreams ==
  \A s, r \in Sides : \A t \in threads[s], u \in threads[r] :
    Streaming(t) /\ Streaming(u) => t = u

\* The thread a client is joining has been told to stop and cannot miss it:
\* no starting thread overwrites the flag before the join returns.
StopIsSeen ==
  \A c \in Clients : cpc[c] = "endJoin" => ended[SideOf(c)]

\* A flag that says "running" is never left behind by a thread that has gone,
\* which would make every later start fall through (only playback() may, when
\* its device has no identifier).
NoPhantomStream ==
  \A s \in Sides :
    ~ended[s] => \/ threads[s] # {}
                 \/ s = "out" /\ ("noid" \in MayFail \/ destroyed)

\* Nobody is inside a call that can still change what runs.
Quiet ==
  /\ \A c \in Clients : cpc[c] = "idle"
  /\ \A t \in Threads : tpc[t] \notin {"prepare", "publish"}
  /\ ~crashed /\ ~destroyed

\* Capture does not outlive its last sink.
NoIdleCapture ==
  (Quiet /\ \A l \in Lists : sinks[l] = << >>) => ended["in"]

\* Nobody uses a vector iterator after the vector has changed under it, the
\* hazard that the comment in removeBuffer is about.
ValidIterators == stale = {}

----------------------------------------------------------------------------
(****************************************************************************)
(* OSAudio implements ExclusiveStream: the stream is open while its thread  *)
(* is between the store of false in the flag and its return; a stop is      *)
(* being served while its caller joins the thread; the stream of a loose    *)
(* thread has strayed.                                                      *)
(****************************************************************************)
OpenSide == {s \in Sides : \E t \in threads[s] \ loose : Streaming(t)}
StraySides == {s \in Sides : \E t \in threads[s] : t \in loose}

StreamNow == IF OpenSide = {} THEN "none" ELSE CHOOSE s \in Sides : s \in OpenSide
StopsServed == {s \in Sides : \E c \in Clients : cpc[c] = "endJoin" /\ SideOf(c) = s}

\* The call that started the open stream has not returned.
Starting == \E c \in Clients, t \in Threads \ loose : making[c] = t /\ Streaming(t)

Service == INSTANCE ExclusiveStream WITH
  stream <- StreamNow, stopping <- StopsServed, starting <- Starting,
  stray <- StraySides, over <- crashed

\* Every step is a step of the exclusive stream or leaves it alone: a stop is a
\* barrier for every stream whose start has returned.
ImplementsExclusiveStream == Service!StreamSpec

\* Under the threads' fairness a stream that is being stopped closes.
ImplementsFairStream == Service!StreamFairSpec
=============================================================================
