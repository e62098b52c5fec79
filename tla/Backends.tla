------------------------------ MODULE Backends ------------------------------
(****************************************************************************)
(* WindowsAudio, OSXAudio and LinuxAudio: which devices they list, which    *)
(* one is chosen, and which one a stream opens (src/src/audio; the lists    *)
(* and choices of QMLBridge and CLICommon.h).                               *)
(*                                                                          *)
(* A machine has some gear, plugged and unplugged at any time.  PortAudio   *)
(* takes a table of it when its count of initializations leaves zero, and   *)
(* an index into that table is a device's identifier; WASAPI and PulseAudio *)
(* identify the gear itself.  WindowsAudio's enumerator and status are      *)
(* members that the interface's thread and the engine thread share.         *)
(*                                                                          *)
(* The engine here is one thread, started, ended and joined by the thread   *)
(* of the interface: OSAudio shows that there is one unless another caller's *)
(* stop overtakes a start.  Its start holds stateSem until it has published *)
(* that it runs, which a stop and a switch of devices wait for.             *)
(****************************************************************************)
EXTENDS Integers, Sequences, FiniteSets

CONSTANTS
  Gear,       \* what can be plugged into the machine
  Does,       \* Does[g] \subseteq {"in", "out"}: the channels it has
  Own,        \* HulaLoop's own driver: the gear with that name
  Machines,   \* what may be plugged when the application starts: sequences
  Platforms,  \* the systems considered
  Interfaces, \* "gui", "cli": which interface makes the choices
  MaxPlugs,   \* bound on plugging and unplugging
  None

ASSUME GearKnown ==
  /\ Does \in [Gear -> SUBSET {"in", "out"}] /\ Own \subseteq Gear
  /\ Machines \subseteq Seq(Gear) /\ None \notin Gear
  /\ Platforms \subseteq {"Windows", "OSX", "Linux"}
  /\ Interfaces \subseteq {"gui", "cli"} /\ MaxPlugs \in Nat

VARIABLES
  platform, plugged, plugs,
  show,        \* HulaAudioSettings::showRecordDevices
  daemon,      \* hulaloop-osx-daemon runs
  paCount,     \* PortAudio's initializations
  paTable,     \* the table it took
  enumerator,  \* WindowsAudio::pEnumerator # nullptr
  status,      \* WindowsAudio::status
  active,      \* activeInputDevice and activeOutputDevice
  call,        \* each thread's getDevices: where it is, its request, its list
  ui,          \* what the interface's thread is doing
  engine,      \* where the engine thread is, and its side
  told,        \* endCapture or endPlay of that side
  stream,      \* the open stream
  gone         \* how the process ended

members == <<enumerator, status>>
library == <<paCount, paTable>>
machine == <<platform, plugged, plugs, daemon>>
vars == <<machine, show, library, members, active, call, ui, engine, told, stream, gone>>

Sides == {"in", "out"}
Types == {"RECORD", "PLAYBACK", "LOOPBACK"}
Callers == {"ui", "engine"}
Request(side) == IF side = "in" THEN {"RECORD", "LOOPBACK"} ELSE {"PLAYBACK"}
Here(g) == \E i \in DOMAIN plugged : plugged[i] = g

Idle == [at |-> "idle", req |-> {}, got |-> << >>]
Resting == [at |-> "ready", side |-> "in", again |-> FALSE, dev |-> None]
NoEngine == [at |-> "none", side |-> "in"]

Init ==
  /\ platform \in Platforms /\ plugged \in Machines /\ plugs = 0
  /\ show \in BOOLEAN
  /\ daemon \in IF platform = "OSX" THEN BOOLEAN ELSE {FALSE}
  /\ paCount = 0 /\ paTable = << >>
  /\ enumerator = FALSE /\ status = "ok"
  /\ active = [s \in Sides |-> None]
  /\ call = [c \in Callers |-> Idle]
  /\ ui = [Resting EXCEPT !.at = "constructor"]
  /\ engine = NoEngine /\ told = TRUE /\ stream = None /\ gone = "no"

----------------------------------------------------------------------------
\* The part of a list at the indices S, in its order: SelectSeq, as a function
\* of its indices, which needs no recursion.
Nth(S, k) == CHOOSE i \in S : Cardinality({j \in S : j <= i}) = k
Part(s, S) == [k \in 1 .. Cardinality(S) |-> s[Nth(S, k)]]
Plugged(side) == Part(plugged, {i \in DOMAIN plugged : side \in Does[plugged[i]]})

(* The lists.  A device has a name, a type, PortAudio's index (-1: none) and *)
(* the system's identifier; gear is what the name stands for.               *)

Entry(g, name, type, pa, sys) ==
  [gear |-> g, name |-> name, type |-> type, pa |-> pa, sys |-> sys]

OnlyRecords(d) == d.type = {"RECORD"}
Capable(g) == (IF "out" \in Does[g] THEN {"PLAYBACK"} ELSE {})
              \cup (IF "in" \in Does[g] THEN {"RECORD"} ELSE {})

\* What an initialization finds, and what the last termination leaves.
Snapshot == IF paCount = 0 THEN plugged ELSE paTable
Terminated == IF paCount = 1 THEN << >> ELSE paTable

\* The render endpoints, each to be looped back.
WasapiDevices ==
  LET outs == Plugged("out")
  IN [i \in DOMAIN outs |->
        Entry(outs[i], <<"render", outs[i]>>, {"LOOPBACK", "PLAYBACK"}, -1, outs[i])]

\* Only the requested capabilities are in the type.
WindowsPaDevices(req) ==
  LET t == Snapshot
      all == [i \in DOMAIN t |-> Entry(t[i], <<"pa", t[i]>>, Capable(t[i]) \cap req, i, None)]
  IN Part(all, {i \in DOMAIN t : all[i].type # {} /\ ~(OnlyRecords(all[i]) /\ ~show)})

WindowsDevices(req) ==
  (IF "LOOPBACK" \in req THEN WasapiDevices ELSE << >>)
  \o (IF req \cap {"RECORD", "PLAYBACK"} # {} THEN WindowsPaDevices(req) ELSE << >>)

\* All of a device's capabilities are in its type, requested or not.
OsxDevices(req) ==
  LET TypeOf(g) == IF g \in Own THEN {"LOOPBACK"} ELSE Capable(g)
      all == [i \in DOMAIN paTable |->
                Entry(paTable[i], paTable[i], TypeOf(paTable[i]), i, None)]
  IN Part(all, {i \in DOMAIN paTable :
                  all[i].type \cap req # {} /\ ~(OnlyRecords(all[i]) /\ ~show)})

\* pactl's sources, a sink's monitor among them, and then its sinks.
PulseDevices ==
  LET outs == Plugged("out")
      ins == Plugged("in")
  IN [i \in DOMAIN outs |-> Entry(outs[i], <<"Monitor of", outs[i]>>, {"LOOPBACK"}, -1, outs[i])]
     \o [i \in DOMAIN ins |-> Entry(ins[i], ins[i], {"RECORD"}, -1, ins[i])]
     \o [i \in DOMAIN outs |-> Entry(outs[i], outs[i], {"PLAYBACK"}, -1, outs[i])]

\* As a bug would have it: record devices are not hidden.
LinuxDevicesAll(req) ==
  LET all == PulseDevices
  IN Part(all, {i \in DOMAIN all : all[i].type \subseteq req})

LinuxDevices(req) ==
  LET all == PulseDevices
  IN Part(all, {i \in DOMAIN all : all[i].type \subseteq req /\ ~(OnlyRecords(all[i]) /\ ~show)})

Devices(req) ==
  CASE platform = "Windows" -> WindowsDevices(req)
    [] platform = "OSX"     -> OsxDevices(req)
    [] platform = "Linux"   -> LinuxDevices(req)

----------------------------------------------------------------------------
(* The calls of getDevices.  On Windows another thread may come between the *)
(* creation of the enumerator, its use, and its release.                    *)

Ends(how) == gone' = how
Goes(c, r) == call' = [call EXCEPT ![c] = r]
Asks(c, req) ==
  Goes(c, [at |-> IF platform = "Windows" THEN "create" ELSE "list", req |-> req, got |-> << >>])

\* OSXAudio, which throws once PortAudio is terminated, and LinuxAudio.
ListDevices(c) ==
  /\ call[c].at = "list"
  /\ Goes(c, IF platform = "OSX" /\ paCount = 0
               THEN [call[c] EXCEPT !.at = "threw"]
               ELSE [call[c] EXCEPT !.at = "done", !.got = Devices(call[c].req)])
  /\ UNCHANGED <<machine, show, library, members, active, ui, engine, told, stream, gone>>

CreateEnumerator(c) ==
  /\ call[c].at = "create"
  /\ \/ /\ "LOOPBACK" \in call[c].req
        /\ enumerator' = TRUE /\ status' = "ok"
        /\ Goes(c, [call[c] EXCEPT !.at = "use"])
     \/ /\ "LOOPBACK" \in call[c].req
        /\ status' = "failed" /\ UNCHANGED enumerator
        /\ Goes(c, [call[c] EXCEPT !.at = "exit"])
     \/ /\ "LOOPBACK" \notin call[c].req
        /\ UNCHANGED members
        /\ Goes(c, [call[c] EXCEPT !.at = "use"])
  /\ UNCHANGED <<machine, show, library, active, ui, engine, told, stream, gone>>

\* As a bug would have it: PortAudio is terminated and initialized again for a fresh table.
UseEnumeratorFresh(c) ==
  /\ call[c].at = "use"
  /\ "LOOPBACK" \in call[c].req => enumerator
  /\ Goes(c, [call[c] EXCEPT !.at = "exit", !.got = Devices(call[c].req)])
  /\ paTable' = plugged /\ UNCHANGED paCount
  /\ UNCHANGED <<machine, show, members, active, ui, engine, told, stream, gone>>

\* EnumAudioEndpoints through the member, then Pa_Initialize, the table and
\* Pa_Terminate.
UseEnumerator(c) ==
  /\ call[c].at = "use"
  /\ IF "LOOPBACK" \in call[c].req /\ ~enumerator
       THEN Ends("crashed") /\ UNCHANGED call
       ELSE /\ Goes(c, [call[c] EXCEPT !.at = "exit", !.got = Devices(call[c].req)])
            /\ UNCHANGED gone
  /\ UNCHANGED <<machine, show, library, members, active, ui, engine, told, stream>>

\* SAFE_RELEASE of whatever the member holds, and the test of a status that
\* may be an earlier call's.
ReleaseEnumerator(c) ==
  /\ call[c].at = "exit"
  /\ enumerator' = FALSE
  /\ Goes(c, [call[c] EXCEPT !.at = IF status = "ok" THEN "done" ELSE "threw"])
  /\ UNCHANGED <<status, machine, show, library, active, ui, engine, told, stream, gone>>

GetDevices(c) ==
  ListDevices(c) \/ CreateEnumerator(c) \/ UseEnumerator(c) \/ ReleaseEnumerator(c)

----------------------------------------------------------------------------
(* The constructors and the destructors. *)

Constructed ==
  /\ IF platform = "Linux" THEN UNCHANGED library ELSE paCount' = 1 /\ paTable' = Snapshot
  /\ ui' = Resting
  /\ UNCHANGED <<members, machine, show, active, call, engine, told, stream, gone>>

\* OSXAudio first makes sure that its daemon runs: startDaemon waits for the
\* process to detach and looks again, and exits when there is none.
Construct ==
  /\ ui.at = "constructor"
  /\ platform = "OSX" => daemon
  /\ Constructed

StartDaemon ==
  /\ ui.at = "constructor" /\ platform = "OSX" /\ ~daemon
  /\ \/ daemon' = TRUE /\ UNCHANGED gone
     \/ Ends("exited") /\ UNCHANGED daemon
  /\ UNCHANGED <<platform, plugged, plugs, show, library, members, active, call, ui, engine,
                 told, stream>>

DaemonDies ==
  /\ daemon /\ plugs < MaxPlugs
  /\ daemon' = FALSE /\ plugs' = plugs + 1
  /\ UNCHANGED <<platform, plugged, show, library, members, active, call, ui, engine, told,
                 stream, gone>>

\* ~WindowsAudio and ~OSXAudio terminate PortAudio, which closes its streams,
\* before ~OSAudio tells the engine thread to end.
Destroy ==
  /\ ui.at = "ready"
  /\ IF platform = "Linux"
       THEN UNCHANGED <<library, stream>>
       ELSE /\ paCount' = paCount - 1 /\ paTable' = Terminated
            /\ stream' = IF stream # None /\ stream.api = "pa" THEN None ELSE stream
  /\ told' = TRUE
  /\ ui' = [Resting EXCEPT !.at = "destructor"]
  /\ UNCHANGED <<machine, show, members, active, call, engine, gone>>

Destroyed ==
  /\ ui.at = "destructor" /\ engine.at \in {"none", "silent"}
  /\ Ends("destroyed")
  /\ UNCHANGED <<machine, show, library, members, active, call, ui, engine, told, stream>>

----------------------------------------------------------------------------
(* The interface's thread: recording and playing start and stop the engine, *)
(* the panel and the command line list and choose devices.                  *)

\* The engine thread is started with stateSem taken, and gives it back.
StartEngine(side) == engine' = [at |-> "start", side |-> side]
SemaphoreFree == engine.at \notin {"start", "default", "publish"}
Runs(side) == engine.at # "none" /\ engine.side = side

Start(side) ==
  /\ ui.at = "ready" /\ engine.at = "none"
  /\ StartEngine(side)
  /\ UNCHANGED <<machine, show, library, members, active, call, ui, told, stream, gone>>

Stop ==
  /\ ui.at = "ready" /\ engine.at # "none"
  /\ ui' = [Resting EXCEPT !.at = "end", !.side = engine.side]
  /\ UNCHANGED <<machine, show, library, members, active, call, engine, told, stream, gone>>

\* endRecord and endPlayback: the flag is stored once the semaphore is taken,
\* and then the threads of that side are joined.
EndSide ==
  /\ ui.at = "end" /\ SemaphoreFree
  /\ told' = (told \/ Runs(ui.side))
  /\ ui' = [ui EXCEPT !.at = "join"]
  /\ UNCHANGED <<machine, show, library, members, active, call, engine, stream, gone>>

\* The switch of a running side starts it again, when nothing runs.
Joined ==
  /\ ui.at = "join" /\ ~Runs(ui.side)
  /\ ui' = Resting
  /\ IF ui.again /\ engine.at = "none" THEN StartEngine(ui.side) ELSE UNCHANGED engine
  /\ UNCHANGED <<machine, show, library, members, active, call, told, stream, gone>>

\* setActiveInputDevice and setActiveOutputDevice: the old device is deleted and
\* replaced while its side runs, without the semaphore.
SwapDevice ==
  /\ ui.at = "swap"
  /\ active' = [active EXCEPT ![ui.side] = ui.dev]
  /\ ui' = [Resting EXCEPT !.at = "end", !.side = ui.side, !.again = Runs(ui.side) /\ ~told]
  /\ UNCHANGED <<machine, show, library, members, call, engine, told, stream, gone>>

SetShowRecordDevices ==
  /\ ui.at = "ready"
  /\ show' = ~show
  /\ UNCHANGED <<machine, library, members, active, call, ui, engine, told, stream, gone>>

\* The panel asks for the devices of a side; the command line for all of them.
AskDevices(side, face) ==
  /\ ui.at = "ready"
  /\ ui' = [Resting EXCEPT !.at = face, !.side = side]
  /\ Asks("ui", IF face = "gui" THEN Request(side) ELSE Types)
  /\ UNCHANGED <<machine, show, library, members, active, engine, told, stream, gone>>

\* The panel takes the first device of the chosen name; the command line a
\* device by its name or by its number.
MayPick(i, face) ==
  LET got == call["ui"].got IN
  face = "gui" => \A j \in 1..(i - 1) : got[j].name # got[i].name

\* The list was only shown, the name is not there, or getDevices threw.
PickNothing ==
  /\ ui.at \in {"gui", "cli"} /\ call["ui"].at \in {"done", "threw"}
  /\ ui' = Resting /\ Goes("ui", Idle)
  /\ UNCHANGED <<machine, show, library, members, active, engine, told, stream, gone>>

FitsSide(d, side) ==
  d.type \cap (IF side = "in" THEN {"LOOPBACK", "RECORD"} ELSE {"PLAYBACK"}) # {}

\* checkDeviceParams: a device that also plays is asked whether it plays.
CheckedOn(d) ==
  IF d.pa = -1 THEN d.gear
  ELSE IF d.pa \in DOMAIN paTable THEN paTable[d.pa] ELSE None
Supported(d) ==
  LET g == CheckedOn(d) IN
  /\ g # None /\ Here(g)
  /\ "LOOPBACK" \in d.type \/ (IF "PLAYBACK" \in d.type THEN "out" ELSE "in") \in Does[g]

Pick(i) ==
  LET d == call["ui"].got[i]
      loops == platform = "Windows" /\ "LOOPBACK" \in d.type
  IN /\ ui.at \in {"gui", "cli"} /\ call["ui"].at = "done"
     /\ MayPick(i, ui.at) /\ FitsSide(d, ui.side)
     /\ enumerator' = (enumerator \/ loops)
     /\ Goes("ui", Idle)
     /\ \/ ui' = Resting
        \/ Supported(d) /\ ui' = [ui EXCEPT !.at = "swap", !.dev = d]
     /\ UNCHANGED <<status, machine, show, library, active, engine, told, stream, gone>>

----------------------------------------------------------------------------
(****************************************************************************)
(* The engine thread: backgroundCapture and backgroundPlayback, and the     *)
(* systems' capture and playback.                                           *)
(****************************************************************************)
EngineAt(p) == engine.at = p
EngineTo(p) == engine' = [engine EXCEPT !.at = p]
EngineEnds == engine' = NoEngine

\* The first device of the list becomes the active one when none was chosen.
Begin ==
  /\ EngineAt("start")
  /\ active[engine.side] = None => ui.at # "destructor"
  /\ IF active[engine.side] = None
       THEN EngineTo("default") /\ Asks("engine", Request(engine.side))
       ELSE EngineTo("publish") /\ UNCHANGED call
  /\ UNCHANGED <<machine, show, library, members, active, ui, told, stream, gone>>

TakeDefault ==
  /\ EngineAt("default") /\ call["engine"].at = "done"
  /\ Goes("engine", Idle)
  /\ IF call["engine"].got = << >>
       THEN EngineEnds /\ UNCHANGED active
       ELSE /\ active' = [active EXCEPT ![engine.side] = Head(call["engine"].got)]
            /\ EngineTo("publish")
  /\ UNCHANGED <<machine, show, library, members, ui, told, stream, gone>>

\* Nothing catches the exception that leaves the thread.
NoDefault ==
  /\ EngineAt("default") /\ call["engine"].at = "threw"
  /\ Ends("terminated")
  /\ UNCHANGED <<machine, show, library, members, active, call, ui, engine, told, stream>>

\* endCapture or endPlay becomes false, even after a destructor has set it, and
\* stateSem is given back.
Publish ==
  /\ EngineAt("publish")
  /\ told' = FALSE
  /\ EngineTo(IF ui.at = "destructor" THEN "late" ELSE "open")
  /\ UNCHANGED <<machine, show, library, members, active, call, ui, stream, gone>>

\* The system's class is gone when ~OSAudio runs: its getDevices and capture
\* are pure virtual then.  A thread that had entered one goes on in it.
PureCall ==
  /\ ui.at = "destructor"
  /\ \/ EngineAt("start") /\ active[engine.side] = None
     \/ engine.at \in {"open", "late"} /\ engine.side = "in"
  /\ Ends("crashed")
  /\ UNCHANGED <<machine, show, library, members, active, call, ui, engine, told, stream>>

\* And playback is OSAudio's, which returns for want of an index on Linux and
\* finds PortAudio terminated elsewhere.
BasePlayback ==
  /\ ui.at = "destructor" /\ engine.at \in {"open", "late"} /\ engine.side = "out"
  /\ IF active["out"].pa = -1
       THEN EngineTo("silent") /\ UNCHANGED gone
       ELSE Ends("crashed") /\ UNCHANGED engine
  /\ UNCHANGED <<machine, show, library, members, active, call, ui, told, stream>>

ByPulse == platform = "Linux"
ByWasapi(d) == platform = "Windows" /\ engine.side = "in" /\ "LOOPBACK" \in d.type

\* WindowsAudio::capture looks at the device's type before it reads more of it.
TestsType == platform = "Windows" /\ engine.side = "in"
TestType ==
  /\ EngineAt("open") /\ TestsType /\ ~ByWasapi(active["in"])
  /\ EngineTo("read")
  /\ UNCHANGED <<machine, show, library, members, active, call, ui, told, stream, gone>>

\* WASAPI: the enumerator is created in the member, and used a step later.
OpenWasapi ==
  /\ EngineAt("open") /\ ByWasapi(active[engine.side])
  /\ enumerator' = TRUE /\ status' = "ok"
  /\ EngineTo("select")
  /\ UNCHANGED <<machine, show, library, active, call, ui, told, stream, gone>>

\* The device is read while it is being replaced: the deleted one, or, as if
\* the switch had not begun or was done, the one that the other steps read.
DanglingRead ==
  /\ engine.at \in {"open", "read", "select"}
  /\ ui.at = "swap" /\ ui.side = engine.side
  /\ Ends("crashed")
  /\ UNCHANGED <<machine, show, library, members, active, call, ui, engine, told, stream>>

Opened(g, api) ==
  /\ stream' = [gear |-> g, api |-> api]
  /\ EngineTo("loop") /\ UNCHANGED gone

SelectWasapi ==
  LET d == active["in"] IN
  /\ EngineAt("select")
  /\ IF ~enumerator THEN Ends("crashed") /\ UNCHANGED <<engine, stream>>
     ELSE IF Here(d.sys) THEN Opened(d.sys, "wasapi")
     ELSE Ends("terminated") /\ UNCHANGED <<engine, stream>>
  /\ UNCHANGED <<machine, show, library, members, active, call, ui, told>>

\* The other streams are opened by the identifier that is read now.
Reads == EngineAt(IF TestsType THEN "read" ELSE "open")

\* A playback without an identifier returns, a capture throws.
NoIdentifier ==
  LET d == active[engine.side] IN
  /\ Reads /\ ~ByPulse /\ d.pa = -1
  /\ IF engine.side = "out"
       THEN EngineTo("silent") /\ UNCHANGED gone
       ELSE Ends("no device") /\ UNCHANGED engine
  /\ UNCHANGED <<machine, show, library, members, active, call, ui, told, stream>>

\* The gear that the device's identifier leads to.
Found(d) ==
  IF ByPulse THEN d.sys
  ELSE IF d.pa \in DOMAIN paTable THEN paTable[d.pa] ELSE None

\* PortAudio, which has no Pa_GetDeviceInfo once it is terminated, and PulseAudio.
OpenStream ==
  LET d == active[engine.side] IN
  /\ Reads /\ (ByPulse \/ d.pa # -1)
  /\ IF Found(d) # None /\ Here(Found(d))
       THEN Opened(Found(d), IF ByPulse THEN "pulse" ELSE "pa")
       ELSE /\ Ends(IF Found(d) = None THEN "crashed"
                    ELSE IF engine.side = "out" /\ ~ByPulse THEN "exited" ELSE "terminated")
            /\ UNCHANGED <<engine, stream>>
  /\ UNCHANGED <<machine, show, library, members, active, call, ui, told>>

\* The loop of a WASAPI capture throws when its gear is gone; the others go on.
LoopFails ==
  /\ EngineAt("loop") /\ stream # None /\ stream.api = "wasapi" /\ ~Here(stream.gear)
  /\ status' = "failed" /\ enumerator' = FALSE
  /\ Ends("terminated")
  /\ UNCHANGED <<machine, show, library, active, call, ui, engine, told, stream>>

LoopEnds ==
  /\ EngineAt("loop") /\ told
  /\ EngineTo("close")
  /\ UNCHANGED <<machine, show, library, members, active, call, ui, told, stream, gone>>

\* As a bug would have it: the stream is stopped and never closed.
CloseNot ==
  /\ EngineAt("close")
  /\ EngineEnds
  /\ UNCHANGED <<stream, gone, members, machine, show, library, active, call, ui, told>>

\* Stop and the releases; pa_simple_free; Pa_CloseStream, which fails once
\* PortAudio is terminated: a capture throws then.
Close ==
  /\ EngineAt("close")
  /\ stream' = None
  /\ IF stream = None /\ engine.side = "in"
       THEN Ends("terminated") /\ UNCHANGED engine
       ELSE EngineEnds /\ UNCHANGED gone
  /\ IF stream # None /\ stream.api = "wasapi"
       THEN enumerator' = FALSE /\ status' = "ok"
       ELSE UNCHANGED members
  /\ UNCHANGED <<machine, show, library, active, call, ui, told>>

\* A thread that returned by itself leaves its side started until it is ended.
SilentEnds ==
  /\ EngineAt("silent") /\ told
  /\ EngineEnds
  /\ UNCHANGED <<machine, show, library, members, active, call, ui, told, stream, gone>>

----------------------------------------------------------------------------
Plug(g) ==
  /\ plugs < MaxPlugs /\ ~Here(g)
  /\ plugged' = Append(plugged, g) /\ plugs' = plugs + 1
  /\ UNCHANGED <<platform, daemon, show, library, members, active, call, ui, engine, told,
                 stream, gone>>

Unplug(g) ==
  /\ plugs < MaxPlugs /\ Here(g)
  /\ plugged' = Part(plugged, {i \in DOMAIN plugged : plugged[i] # g}) /\ plugs' = plugs + 1
  /\ UNCHANGED <<platform, daemon, show, library, members, active, call, ui, engine, told,
                 stream, gone>>

UiStep ==
  \/ Construct \/ StartDaemon \/ Destroy \/ Destroyed
  \/ \E s \in Sides : Start(s)
  \/ Stop \/ EndSide \/ Joined \/ SwapDevice \/ SetShowRecordDevices
  \/ \E s \in Sides, f \in Interfaces : AskDevices(s, f)
  \/ GetDevices("ui") \/ PickNothing
  \/ \E i \in DOMAIN call["ui"].got : Pick(i)

EngineStep ==
  \/ Begin \/ GetDevices("engine") \/ TakeDefault \/ NoDefault \/ Publish
  \/ PureCall \/ BasePlayback \/ TestType \/ DanglingRead
  \/ OpenWasapi \/ SelectWasapi \/ NoIdentifier \/ OpenStream
  \/ LoopFails \/ LoopEnds \/ Close \/ SilentEnds

Next ==
  gone = "no" /\ (UiStep \/ EngineStep \/ DaemonDies \/ \E g \in Gear : Plug(g) \/ Unplug(g))

Spec == Init /\ [][Next]_vars
----------------------------------------------------------------------------
(* Properties. *)

\* A stream opens the gear whose name was chosen, or was the default's: a
\* PortAudio index means the same when it is listed and when it is opened,
\* however many lists were taken and whatever was plugged in between.
OpensTheSelected ==
  [][stream' # stream /\ stream' # None => stream'.gear = active[engine.side].gear]_vars

\* No stream, and no callback of one, outlives the thread that opened it or
\* the library it was opened in: a stop that returned is silent.
OwnedStreams ==
  stream # None => /\ engine.at \in {"loop", "close"}
                   /\ stream.api = "pa" => paCount > 0

\* What the command line's list prints, which asks for fewer types when record
\* devices are not shown, is numbered as findDevice numbers the devices, which
\* always asks for every type.
NumbersAgree ==
  LET NamesOf(s) == [i \in DOMAIN s |-> s[i].name] IN
  NamesOf(Devices(Types)) = NamesOf(Devices(IF show THEN Types ELSE {"PLAYBACK", "LOOPBACK"}))

\* The switch of the input device stops the capture and starts it again with
\* the new one: it does not end it for want of an identifier (the comment of
\* setActiveInputDevice, "Set the selected input device and restart capture
\* threads with new device").
SwitchSurvives == gone # "no device"
=============================================================================
