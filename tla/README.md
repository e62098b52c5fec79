# HulaLoop in TLA+

HulaLoop records and plays back the audio of a computer. This directory models
its program logic: the audio backend with its threads, semaphore and flags, and
the lock-free ring buffer between them; the recording session on top, and the
desktop application on top of that; the three systems' device lists and streams;
the macOS driver and the daemon it shares memory with; and the launcher with its
updater. The modules are checked with TLC on small instances. What the passing
runs check, liveness apart, is also proved with TLAPS for every instance:
invariants, action properties and refinements. The section on the proofs says
from which assumptions.

Paths below are relative to the repository, `src/src/...` being its `src/`
directory.

## The system

| Component | State | Operations | Talks to |
|---|---|---|---|
| `OSAudio` (audio/OSAudio.cpp) | `rbs`, `cbs`, `inThreads`, `outThreads`, `endCapture`, `endPlay`, `stateSem`, the two active devices, `playbackBuffer` | add/removeBuffer, add/removeCallback, start/endPlayback, setActive*Device, playbackCopyToBuffers, destructor; its engine threads `backgroundCapture`, `backgroundPlayback` | called by any application thread; calls the sinks from the capture thread |
| `LinuxAudio`, `WindowsAudio`, `OSXAudio` | the open stream, PortAudio's session, on Windows `pEnumerator` and `status` | getDevices, capture, playback, checkDeviceParams, constructor, destructor | run inside the engine thread and the interface's thread |
| `HulaRingBuffer` | PortAudio's ring buffer | write, read, directRead, clear | one producer thread, one consumer thread |
| `Controller` | the backend | one wrapper per call | between the control layer and `OSAudio` |
| `Record` | `endRecord`, `recordThread`, `rb`, `exportPaths` | start, stop, `recorder` thread | `Controller::addBuffer`, `removeBuffer` |
| `Playback` | `endPlay`, `playThread` | start, stop, `player` thread | `Controller::startPlayback`, `playbackCopyToBuffers`, `endPlayback`; reads `exportPaths` |
| `Export` | - | copyData, deleteTempFiles | the temp files |
| `Transport` | `state`, `canRecord`, `canPlayback`, `initRecordClicked` | record, stop, play, pause, discard, exportFile, destructor | `Record`, `Playback`, `Export` |
| `QMLBridge`, ButtonPanel.qml | the buttons; `endVis`, `visThreads`, `rb` | clicks, close, the visualizer thread, device lists | `Transport`, `Controller` |
| Interactive CLI | - | commands, device lists by number and name | `Transport`, `Controller` |
| `OSXDriver` (HulaLoop/Plug-In) | the object map, `mDeviceInfoList`, the device's rate, start count and status, the serial queue | the entry points of SA_PlugIn.cpp | the system's audio server (the HAL), `OSXDaemon` |
| `OSXDaemon` | `isActive`, `FrameNumber` | the JACK process callback | the driver, by registers and rings in shared memory |
| `Updater`, launcher | an HTTP reply, the asset found, the file | checkForUpdate, downloadUpdate, the window's sequence | GitHub's release API, the installer, HulaLoop |

What is hard here, and what makes each part correct:

* **OSAudio.** Any number of threads start and stop one of two streams. The
  semaphore is taken by the client and given back by the thread it spawns, on
  one of three paths; that thread runs before its starter has put it in the
  vector where a stop looks for it. A stop stores `true` in a flag that a
  starting thread stores `false` in, and then joins that thread while holding
  the semaphore. The lists are changed without a lock while the capture thread
  iterates over them. Correct means: the semaphore is never lost or doubled; at
  most one stream; a stop reaches its thread and the join ends; capture ends
  with its last sink; nobody uses an invalidated iterator.
* **HulaRingBuffer.** A producer and a consumer without a lock, and a flush from
  anywhere. Correct means a bounded FIFO queue whose samples are intact until
  they are taken.
* **Transport, Record, Playback, Export.** Three threads that start, stop and
  join each other through the backend. Correct means: a recording captures; no
  recorded take is lost; every command returns.
* **The desktop.** A visualizer thread that is one more client of the backend,
  restarted by each button. Correct means: one reader of its buffer, nobody in a
  write on it when it is deleted, a recording that can be stopped, a window that
  closes without bringing the process down.
* **Devices.** A device is an index into a table that the library takes when it
  is initialized, or an identifier of the system; it is listed at one time,
  chosen at another and opened at a third, by two threads, and replaced while it
  is in use. Correct means: the stream opens what was chosen and ends with its
  thread and its library; a switch of devices goes on with the new one.
* **The driver.** The HAL calls in from several threads while a queue takes the
  device apart. Correct means: reference counts are exact, nothing is used after
  its destruction, hardware runs exactly while clients do, the property tables
  agree, and a configuration change is completed.
* **Driver and daemon.** Two processes over shared memory without a lock, either
  of which may go and come back. Correct means: a frame is heard and read at the
  time it was written for, a time stamp is not torn into an older one, a new
  daemon takes the clock over.
* **The launcher.** Network requests that fail anywhere. Correct means: what is
  downloaded is what was offered, an installer is not started on what an error
  has cut short, the launcher comes to an end.

PROJECT.json lists the hazards one by one, at their lines, with the property
that covers each or the reason why none does.

## The modules

| Module | What it is |
|---|---|
| `OSAudio` | the backend, one action per statement that another thread can see around |
| `ExclusiveStream` | what the backend promises: one stream at a time, and a stop that is a barrier unless it overtakes the call that started the stream |
| `OSAudioProofs`, `MCOSAudio` | its proofs, and the instances that TLC checks |
| `HulaRingBuffer`, `SampleQueue`, `HulaRingBufferProofs` | the ring buffer, one sample copied per step, the bounded queue it promises to be, and the proof that it is |
| `Transport`, `TransportProofs`, `MCTransport` | a session: `Transport`, `Record`, `Playback` and `Export` composed with `OSAudio` |
| `Desktop`, `DesktopProofs`, `MCDesktop` | the desktop application: the buttons, `QMLBridge` and its visualizer composed with `Transport` |
| `Backends`, `BackendsProofs`, `MCBackends` | the three systems: which devices are listed, chosen and opened |
| `DriverProperties` | the driver's four property tables, as operators |
| `AudioDriver`, `AudioDriverProofs`, `MCAudioDriver` | the driver's objects, calls, queue and locks; `EXTENDS DriverProperties` |
| `DriverBridge`, `DriverBridgeProofs` | driver and daemon over the shared memory |
| `Launcher`, `LauncherProofs`, `MCLauncher` | the updater and the launcher |

Definitions introduced by "As a bug would have it" are variants of the one that
follows them, with a plausible bug; PROJECT.json names the property each breaks.

### OSAudio

`Clients` are application threads. A client is idle or inside one call;
`cpc[c]` is the statement it is at, `call[c]` the call. `Threads` are names for
the `std::thread` objects; `tpc[t]` is where an engine thread is and
`threads[s]` the running threads of a side `s`, `"in"` (capture) or `"out"`
(playback). Capture and playback are the same code over different members, so
one action serves both sides.

| Action | Code |
|---|---|
| `Call(c)` | the entry of a public call, up to its first visible effect; a call without effect is no step |
| `Push`, `AddTest`, `RemoveTest`, `Erase` | addBuffer and addCallback, removeBuffer and removeCallback |
| `StartWait`, `StartTest` (`Spawn`, `FallThrough`), `Insert` | startRecord, startPlayback |
| `EndWait`, `EndStore`, `EndJoin` | endRecord, endPlayback |
| `Trample` | two clients in a vector of threads at once: the process may come down |
| `Release`, `Install`, `ReadFlag` | setActive*Device before its end and restart |
| `DtorStore`, `DtorJoinIn`, `DtorJoinOut` | the destructor |
| `GiveUp`, `Prepare`, `Publish` | backgroundCapture, backgroundPlayback |
| `Open`, `OpenFails`, `OpenRefused`, `LoopBody`, `LoopExit` | capture(), playback() |
| `PureCall` | a virtual call after the platform's destructor |
| `CopyOne`, `CopyNextList`, `CopyThreadDone`, `CopyClientDone` | copyToBuffers, doCallbacks |
| `UseInvalid` | a process goes on with an iterator its vector has invalidated: any outcome, including the end of the process |

**A thread before it is in its vector.** `emplace_back(std::thread(...))` starts
the thread and stores it afterwards. `Spawn` starts it; until `Insert` the
starter has it in `making[c]`, and a join (`EndJoin`) waits for `Joinees` only,
the threads of the vector that are not in anyone's `making`. A thread that a
confirmed stop has not waited for is `loose` for the rest of its life. `loose` is
a history variable: no action of the code depends on it. Every exclusion property
says what it says of the threads that are not loose, and the run
`osaudio_threads` checks it without the exception.

**After the platform's destructor.** `CallDelete` stands for the whole chain of
destructors. The derived one has run when `DtorStore` is done (`Whole` says
until when the platform's part may be there): from then on getDevices() and
capture() are pure virtual and playback() is OSAudio's own, which returns for
want of a PortAudio index (`OpenRefused`) or uses a library that has been
terminated (`PureCall`). A thread that is already inside the platform's loop goes
on in it until it sees its flag.

Abstractions: samples are not represented; a thread that has returned leaves
`threads[s]` at once, since joining it does not wait; the atomic flags and the
semaphore are sequentially consistent, as `std::atomic`'s default order and the
mutex make them. `MayFail` says which failures of the system are possible:
getDevices finds nothing, the stream does not open (LinuxAudio throws out of
the thread's function, which terminates the process), the output device has no
identifier.

### HulaRingBuffer

PortAudio's `PaUtil_*` is not in the repository and is modelled from its use
(mapped as external): indices modulo twice the size, the write index published
after the copy, the read index after the copy in `read` and before the use in
`directRead`. A sample is its number in the order of acceptance. `clear` is
called by whoever ends the playback, at any moment of a `write`: the writer then
puts an index back that it had read before (`WriteEnd` goes on from `wstart` or
from the index as it is, whichever the build reads), and the history variable
`torn` says so until the next `clear` that finds the writer idle. While it is
true nothing is claimed.

### Transport

The session `EXTENDS OSAudio` with three clients: the interface `Ui`, which
runs Transport's methods, `Rec` (recordThread) and `Player` (playThread). Each
call on the Controller begins the backend's own call and the thread goes on once
that has returned, so a session's behaviour contains every interleaving inside
the backend, and `ImplementsFairStream` is checked of it: the backend under a
session is the exclusive stream, with its liveness. `Offered` says which command
the user may give in which state, and whether takes are listed. `fate` records
what became of each take, for `TakesKept` only. Sleeps are left out: the lockout
of 200 ms makes some interleavings unlikely and none impossible. `SessionMakes`
says that the backend's clients may make the calls the session makes of them.

### Desktop

`Desktop` `EXTENDS Transport`. The interface's thread runs one click to its end:
`Click*` is the button's handler up to Transport's method, whose steps are
Transport's; `TransportDone` goes on in QMLBridge; `StopVis`, `JoinVis` and
`StartVis` are stopVisThread and startVisThread; `Updated` is what the panel does
to its buttons. `VisAdd`, `VisLoopEnds`, `VisRemove`, `VisReturn` are
updateVisualizer, each of whose calls is a call of `OSAudio` by another client.
`ClickClose`, `DeleteTransport` and `DeleteBuffer` are wannaClose and
~QMLBridge. The panel and not `Offered` decides what can be clicked (`Shows`).
`VisMakes` is `SessionMakes` for the visualizer's threads.

A copier whose list has changed under it goes on (`UseInvalid` and `CopyOne` give
it every outcome, a write on a sink that has been removed among them, which
`WritesVis` counts). Only an erase through an invalidated iterator, which may
remove anything, ends what is followed (`Intact`); the change under the iterator
is itself the subject of `osaudio_iterators`.

### Backends

One engine thread and the interface's thread: of the session in which no other
caller's stop overtakes a start, so that there is no second stream (`OneStream`).
A piece of gear does `"in"`, `"out"` or both; `plugged` is the order in which the
system lists it, and `Part(list, indices)` is what a loop with a test picks out of
a list. `WindowsDevices`, `OsxDevices`, `PulseDevices` are the lists of the three
getDevices, `GetDevices(c)` their calls: on Windows step by step, because
`pEnumerator` and `status` are members that both threads use. `AskDevices`,
`Pick`, `PickNothing` are the panel's and the command line's choice with
checkDeviceParams; `SwapDevice`, `EndSide`, `Joined` setActive*Device, which
deletes and replaces the device first and then stops the side that uses it;
`Start`, `Stop`, `Begin`, `TakeDefault`, `Publish` the engine's life. A capture on
Windows looks at the device's type (`TestType`, `OpenWasapi`) and reads its
identifier in a later step (`SelectWasapi`, `NoIdentifier`, `OpenStream`), with a
switch possible in between; a read while the device is being replaced may also
find the deleted one (`DanglingRead`). `LoopFails`, `LoopEnds`, `Close` are the
loop. After the destructor of the system's class a thread that still opens meets
a pure function (`PureCall`) or OSAudio's playback (`BasePlayback`). PortAudio is
external: its table is taken when its count of initializations leaves zero and
dropped when it returns there. `gone` is how the process ended, if it did:
"crashed", "terminated" and "no device" are outcomes the code can have.

### DriverProperties and AudioDriver

`DriverProperties` has one operator per table of the driver: `HasProperty`,
`IsPropertySettable`, `GetPropertyDataSize`, `GetPropertyData`; strings and words
no property looks at are the number 0, so that the length of a reply is the
number of its items. A case that counts an item it does not write leaves the
caller's memory as it was (`Unwritten`): so does the device for a UID
(SA_PlugIn.cpp:228), where a qualifier that is too small is an error before that.

In `AudioDriver` every entry point of SA_PlugIn.cpp is three steps: `Begin`
copies a reference from the object map, one action per kind of call works on the
object under the locks it takes (`SetRefused` when the property is unknown or may
not be set), `Finish` releases the reference. The queue's blocks are run by
`QueueStep`: `RunDestroy`, `RunRequest`, and the removal of a device, which is
step by step (`LockState`, `LockIO`, `Unmap`, `CloseDevice`, `ReleaseOwned`,
`ReleaseOwn`) because other threads run between its steps. `BeginChange` and
`EndChange` are the HAL's configuration change. `Sensible` is what the HAL does
and does not do: pair starts and stops, do no IO for a client it has not started.

The plug-in's teardown, SA_PlugIn::Deactivate, has no caller in the repository:
SA_PlugIn.cpp:523-526 says that the HAL never fully releases a plug-in. The base
class's contract (SA_Object.h:96-124) is what the reference counts are for, so the
constant `Deactivates` says whether the action may happen. With `TRUE`, as the run
has it, every behaviour without it is among those checked; the theorems hold for
either value.

### DriverBridge

A register of the shared memory is read and written whole, one at a time, in the
code's order. A frame is the sample time it is meant for, so that a ring says
for which time each of its places was written. The daemon's callback is
`Callback`, `TakeOver`, `ResetNumber`, `NewSeed`, `StampHost`, `StampNumber`,
`sendToCoreAudio`, `receiveFromCoreAudio`; the driver's time stamp is
`GetZeroTimeStamp` to `ReadSeed`. `ServerDies`, `DaemonExit` and their restarts
happen between any two steps; the memory stays.

The driver writes an operation for whatever sample time the server gives it, and
so does `WriteOutputData`, for any time in `OutputTimes`: in pace with the daemon,
while the server runs free, after a restart, late or far ahead. `Paced` tells them
apart for the history variable `astray`, the daemon's count at the last write that
was out of pace; no action depends on either. `PlaysItsTime` speaks of the time
from one turn of the ring after that.

### Launcher

A tag is the sequence of its segments, each the number that its digits make when
they are put together (`"3-rc1"` is 31), `Empty` or without a digit; `toInt` gives
-1 for what is no `int`, with `MaxInt` for the largest. An asset is a name and a
size, a file the number of its bytes. `CheckAnswered` with `Told` is the handler
of the answer, `IsUpdate` the comparison; `downloadUpdate`, `readyRead`,
`DownloadFinished` and `DownloadError` the download; the rest the sequence of
main.cpp and main.qml. A handler of an error asks for the deletion of a reply
that has not finished (`CheckError`, `DownloadError`); then it finishes
(`ErrorFinished`) or is deleted first (`ReplyDeleted`), and nobody leaves the event
loop that waits for it. A download may finish with any number of bytes. The
window has an updater of its own, which asks again.

## The runs

| Run | Shows | Bounds |
|---|---|---|
| `osaudio_calls` | safety of the backend and its refinement of `ExclusiveStream`, all public calls and failures | 2 clients, 2 engine threads, 1 buffer, 1 callback, 1 device a side |
| `ring_buffer` | the ring buffer is a bounded queue, `read` is intact | size 4, chunks up to 3, 11 samples |
| `transport_careful` | a session of a careful user: recording captures and ends with its sink, one producer, no take lost, every command returns, and the backend under it is the exclusive stream with its liveness | 3 takes, 1 buffer, 2 engine threads |
| `desktop` | all clicks: no thread overwritten, one visualizer, nobody in its buffer when it is deleted, what records can be stopped | 2 takes, 2 names for visualizer threads, 2 engine threads |
| `backends` | devices, streams and libraries of the three systems, both interfaces | 4 pieces of gear, 3 machines, one plugging or unplugging or death of the daemon |
| `driver` | references, lifetimes, hardware, rates, tables, completion of changes | a client doing IO and setting, one doing IO and asking, two changes queued, the teardown at any moment |
| `bridge` | time and place of frames, order of stamps, take-over of the clock | a ring of 6 frames, callbacks of 2, operations of 3 for the times 1 and 4, 10 frames, 2 daemons or opens |
| `launcher` | the update as a whole, and that it ends | version 1.2.3, 10 tags, 4 lists of assets, files of 2 bytes, a largest int of 99 |
| `osaudio_threads`, `osaudio_iterators`, `desktop_close`, `backends_switch` | the disagreements below | as above or smaller |

Two engine threads are the least for a stray stream beside another, and enough
for two of them to exclude each other; two clients are enough for a stop to
overtake a start, to hold the semaphore and to wait for it; the proofs cover any
number. In the ring, 11 samples on a size of 4 take both indices past their
modulus of 8, with chunks that straddle the end of the memory. Three takes let a
session record after a discard and after a pause. The visualizer has two names so
that a second thread could start beside the first. Ten frames on the bridge's
ring of six are more than a lap, operations of three on callbacks of two straddle
its end; of the two times one is in pace at the start and one later, and each is
early or late at other counts of the daemon; two opens or daemons are a restart
of each. Two queued changes are the least for one to be made stale by another.
One plugging suffices to shift every index of a list. The tags are one for each
part that can be greater, equal, no number, too large or too many.

What the properties except, because the code breaks it and no document promises
it, or assume of the surroundings:

* `OneStream` speaks of threads that are not loose, and `ExclusiveStream` lets a
  stream stray when a stop overtakes the call that started it; that this may
  happen is `osaudio_threads`. `Backends` has one engine thread, so it is about
  the sessions where it does not.
* `NoPhantomStream` excepts playback() with a device that has no identifier, which
  returns and leaves its flag at false.
* The lists of sinks are tested without a lock. With two threads that register at
  once both may see two sinks and none start the capture; with two that remove,
  none ends it. `RecordingCaptures` and `NoIdleCapture` are checked for a session
  with one sink, and the theorem `CaptureNeverIdle` has the hypothesis that one
  client registers.
* `ReadIntact` and `SampleQueue` claim nothing from a `clear` in the middle of a
  `write` to the next one that is not.
* In `transport_careful` the user does not stop, export, discard or quit while
  playback runs, nor export or discard while recording, nor play when nothing is
  listed, and exports to a format that is written. Each part is needed: a stop
  during playback leaves the player running, an export during a recording forgets
  its take.
* `NumbersAgree` is about two lists taken at one moment. `OwnedStreams` and
  `OpensTheSelected` are about what survives: a crash is an outcome of `Backends`.
* `HardwareFollowsClients` ends with a teardown. `TablesAgree` is about sizes,
  existence and settability, and says nothing of values.
* `PlaysItsTime` begins again one turn after the server wrote out of pace.
  `ReadsItsTime` assumes that the server asks by the daemon's time (`InputTimes`).
  `StampOrder` excepts the driver's own free run, allows an old number with a new
  time, as the code does, and assumes that stores are seen in their order.
  `GetsSynced` is about a daemon that is not active yet: after a restart of the
  server alone the daemon does not take the clock over again.
* `InstallerComplete` excepts a disk that fails, and rests on `UrlsEndInNames`:
  the file is written under the URL's last part and started under the asset's
  name. It says that the file holds what came without an error, not that this is
  the size the release states, which nobody compares. `LauncherEnds` excepts a
  reply that was deleted before it finished.

### Fairness

A thread that can take a step is eventually scheduled: weak fairness of each
client inside a call, of each engine thread, and in `Transport` and `Desktop` of
each thread. Nobody has to make a call, and the user owes no command and no
click. Waiting for the semaphore is weakly fair too: `std::condition_variable`
promises no order among waiters, and the properties hold without any. That an
engine thread comes back from a read or a write of its device is an assumption
about the operating system. In `DriverBridge` only the daemon's callback is fair:
JACK calls it for as long as its client is active. In `AudioDriver` calls that
have begun go on, and so do the queue's thread and the HAL's; the HAL's stopping
of IO before a change is strongly fair for the clients taken together
(`StopForChange`), because each is interrupted by its own cycles: the HAL
promises it (SA_PlugIn.cpp:618). In `Launcher` replies end, timers fire and the
user answers; the code sets no timeout, so that a reply ends is an assumption.

### Where the code and its documentation disagree

1. `osaudio_iterators`: the lists change under the capture thread's iterator
   although removeBuffer claims to prevent it (OSAudio.cpp:94).
2. `osaudio_threads`: a thread runs and gives the semaphore back before
   `emplace_back` has stored it. A stop of another thread then joins an empty
   vector, and a second stream is opened beside the first, although the semaphore
   is to be released "once thread creation is complete" (OSAudio.cpp:48-50).
3. `desktop_close`: play, then close with a discard. The destructor's "Signal
   thread death" (OSAudio.cpp:594) meets a thread that is still starting, which
   then calls what has been destroyed, and the process crashes.
4. `backends_switch`: the input is switched to a WASAPI endpoint while a
   microphone's capture is opening. Its type was tested on the old device and its
   identifier is read from the new one: the thread throws, instead of being
   restarted with the new device (OSAudio.cpp:458-459, 492-496,
   WindowsAudio.cpp:256-258, 374).

Met while modelling, and recorded as hazards: a buffer registered during playback
is never captured for, not even after it (OSAudio.cpp:54), and of two that are
registered at once neither may be (OSAudio.cpp:30), although Controller's
addBuffer promises capture; `directRead` gives its region back before the caller
has read it (HulaRingBuffer.cpp:115); `clear` in the middle of a write brings
samples back (OSAudio.cpp:325); stop() during playback does not stop it
(Transport.cpp:115); an export to FLAC copies nothing and forgets the takes
(Export.cpp:85); a WASAPI endpoint can be chosen as an output and plays nothing
(OSAudio.cpp:397); the device for a UID is never written (SA_PlugIn.cpp:228);
whether a stream is active is answered by scope and set by object
(SA_Device.cpp:1038, 1171); 1.9.0 is offered over 2.0.0, "2.0" is passed over and
"3-rc1" counts as 31 (Updater.cpp:100-114, 177); the results of the update's file
operations are ignored (Updater.cpp:277); a time stamp's number is published
before its seed, so that sample times of a daemon's restart go back
(OSXDaemon.cpp:108); gear plugged in after the start is not listed where
PortAudio lists it (WindowsAudio.cpp:114).

## The proofs

A theorem holds for every value of the constants that satisfies the `ASSUME`s of
its module: those say what a constant is (clients and engine threads are
distinct, null and freed pointers are no devices, a call is one the code has),
and TLC evaluates each on the run's instance. Where a theorem needs more, because
its property is false without, the hypothesis is written in the theorem and the
tables name it. Each proof is the same in outline: an inductive invariant `IInv`
that has the property as a conjunct or implies it, a lemma for each action or
group of actions, and the temporal step.

### OSAudioProofs

| Theorem | States | Hypothesis |
|---|---|---|
| `Invariance` | `Spec => []IInv` | |
| `TypeCorrect` | the type invariant; the semaphore's count is 0 or 1 | |
| `SemaphoreCorrect` | the semaphore is taken exactly while one process still has to give it back | |
| `OneStreamAlways` | at most one engine thread, besides those that a stop came too early to join | |
| `StopIsSeenAlways` | no starting thread overwrites a stop that is being joined | |
| `NoPhantomStreamEver` | no flag is left saying "running" by a thread that has gone | |
| `ExclusiveStreamImplemented` | `OSAudio` implements `ExclusiveStream` (safety), strays included | |
| `CaptureNeverIdle` | capture does not outlive its last sink | `OneSinkCaller` |

None of the properties is inductive alone. `StopIsSeen` needs to know that
nobody publishes a flag while another process is in its join, which is
`SemaphoreOwned`; that in turn needs every running thread to be of one side
(`ThreadsKept`). What `Insert` being a step of its own costs is `StartsKept`: a
thread becomes loose only after it has given the semaphore back, because a stop
needs the semaphore, so a loose thread streams and none is still to store its
flag. `OneStream` needs that a spawn finds only loose threads, so a streaming one
that is not loose and whose flag says "ended" must be one that somebody is
joining (`StreamingFlagged`), and a starting one implies that both flags say it
(`PendingEnded`). The destructor stores its flags without the semaphore and
would break all this, but no other call runs beside it (`DestructorAlone`): it is
its effect on a starting thread, and not on exclusion, that goes wrong.
`InstallsDevice` is for the type invariant. Each action has a lemma for the
protocol part, and the type part follows by groups of actions. For the
refinement, a join that leaves a thread in the vector's place behind is
`OvertakeStart`, the end of such a thread `StrayCloses`, an `Insert` of a
streaming thread `StartReturns`; a crash is `ProcessEnds`.

`OneSinkCaller(u)` says that one client makes the calls that register and remove
sinks, that nothing plays or switches the input, and that an input device is
found: with two such clients, the one that has seen "no sink is left" may end the
capture the other has just found running. Under it `SinkProtocol` says, for
each statement u can be at, whether capture runs: `Serves` counts the sinks
against the one the call in progress adds or takes.

### HulaRingBufferProofs

| Theorem | States |
|---|---|
| `Invariance` | `Spec => []IInv` |
| `ReadAlwaysIntact` | what `read` has got is consecutive, from the oldest sample that was unread when it began, unless `torn` |
| `Implementation` | the ring buffer implements the bounded queue `SampleQueue`, which says nothing while `torn` |

For any size that is a power of two, as PortAudio requires. `IInv` is
`TypeOK /\ (torn \/ Sound)`: a `clear` that finds the writer idle makes the buffer
empty, and so `Sound`, whatever it was before. One fact carries both theorems,
`Held`: from `readIndex` on, the memory holds the published samples and
behind them those that are copied but not published, in order. `Fits` (the
consumer only enlarges the free space a producer has seen) keeps a copy out of
what is unread, `Ahead` says where a `write` in progress began, and `Region` ties
a `read` in progress to `Held`. The rest is arithmetic of indices modulo twice the
size over places modulo the size (`Place`, `Turn`, `Distances`). The refinement
uses that publishing changes the abstract queue by exactly the samples copied.

### TransportProofs

| Theorem | States | Hypothesis |
|---|---|---|
| `SessionUsesBackend` | `SSpec => Spec`: a session is a behaviour of the backend | |
| `SessionStreamExclusive` | a session implements `ExclusiveStream` (safety), strays included | |
| `OneProducerAlways` | capture and player never write to the recorder's ring together | `CarefulUser` |
| `RecordingAlwaysCaptures` | in the state RECORDING, once the backend is quiet, capture runs | `CarefulUser`, `CanCapture` |
| `TakesAlwaysKept` | a complete take stays listed until it is exported or discarded | `CarefulUser`, `Exportable` |

`SessionUsesBackend` needs no hypothesis on the user. Its invariant `SInv` is the
backend's `IInv` and what each of the three threads is inside of when it is in a
call (`SessionCallsHeld`); the one step that could fail to be the backend's is
the destructor, which may only be called when nobody is in a call.

`CarefulUser` is the restriction the run makes: each part of it excludes a session
that breaks a property, such as a stop during playback, which the code ignores.
`Careful` follows recorder and player through the commands: a recorder runs,
untold to end, exactly in the state RECORDING (`RecorderRuns`), a player only in
PLAYING (`PlayerKnown`). `Owned` connects that to the backend: the list of
sinks is the recorder's buffer or empty, at known statements (`SinksExact`), a
capture thread belongs to a recorder and a playback thread to a player, and a
recorder's capture thread is not loose (`CaptureJoined`): it is Ui that starts it,
and Ui's call has returned before Rec can stop it. That
the two never overlap is `OneProducer`; that a recorder has its thread is
`CaptureServes`. `CanCapture` is that an input device is listed whenever it is
asked for, `Exportable` that the formats are ones that are written: an export to
another forgets the takes (Export.cpp:85).

### DesktopProofs

| Theorem | States |
|---|---|
| `PanelNeverTerminates` | no record() assigns to a thread that nobody has joined |
| `RecorderAlwaysStoppable` | a running recorder has an enabled stop button that Transport accepts |
| `OneVisualizerAlways` | at most one thread is in updateVisualizer |
| `DesktopUsesBackend`, `DesktopStreamExclusive` | the application is a behaviour of the backend, and so implements `ExclusiveStream` |
| `BufferAlwaysDeletedLast` | when the visualizer's buffer is deleted nobody is in a write on it |

No hypothesis on the user: here the buttons, and nothing else, decide what can be
clicked. `Control` is about the window alone: where the interface's thread is in
QMLBridge and in Transport (`BridgeKnown`), which buttons are enabled when a
recorder runs (`PanelKnown`), and that a visualizer is started only after the
last one was joined (`VisKept`). The tray's Quit may forget a running
recorder, but no click follows it, which is why `PanelKnown` excepts it. `DInv`
adds the backend's `IInv` and the calls each thread is in, for the refinement.
`EndedInv` adds what `BufferDeletedLast` rests on. removeBuffer returns while a
capture thread, or a player, may still be in a write on the buffer it removed, as
long as another sink is registered; so it is not the visualizer's end that makes
the deletion safe. ~QMLBridge deletes the buffer after `Transport`, whose
destructor has joined recorder and player (`NoStartAtEnd`), and with it the
backend, whose destructor has joined the capture threads, the only ones that copy
(`CopiersCapture`, `CaptureEnded`).

### BackendsProofs

| Theorem | States |
|---|---|
| `StreamsOwned` | no stream outlives its engine thread or PortAudio's session |
| `AlwaysOpensTheSelected` | a stream opens the gear that was chosen, or the default's (an action property) |
| `NumbersAlwaysAgree` | the command line's numbers are those it looks devices up by |

Two invariants that need nothing of each other. `IInv` adds to `OwnedStreams` that
the device table is there only while the library is initialized (`TableHeld`),
from which an opening through an index implies the session. `DInv` is about the
devices: each one that is listed, chosen or being opened is `Sound`, that is, its
identifier and its index lead to the gear of its name or to none, however the
system has changed since it was listed (`ActiveSound`, `SwapSound` for the one a
switch is about to install, `OpeningSound` for an opening between its two reads of
the device). What a list contains follows from `PartSound`: `Part` picks
elements of the list it is given (that `Nth` names one is shown with the least
number that is large enough, since induction over a cardinality is not to be had).
`NumbersAgree` is that the two filters of the two commands pick at the same
indices.

### AudioDriverProofs

| Theorem | States |
|---|---|
| `TypeCorrect` | the type invariant |
| `CountsAlwaysExact` | a count is the references that exist: the owner's and one for each thread inside |
| `LifetimesAlwaysExact` | nobody is inside a destroyed object, and an object is destroyed once |
| `HardwareAlwaysFollows` | the hardware runs exactly while a client has IO started, until a teardown |
| `TicksAlwaysMatch` | the ticks of a frame are those of the rate |
| `TablesAlwaysAgree` | the four property tables agree in existence, size and settability, and the listed streams form one tree |

For any finite set of clients and whatever they ask and set. `References` counts:
`HoldersGrow`, `HoldersShrink` and `OwnersShrink` say what one reference taken or
given back does to the number of holders. That a count that reaches zero belongs
to an object nobody is in (`Mapping`) and that an object leaves the map before it
is queued for destruction (`DestroyOnce`) give the lifetimes. `Removal` says that
the device's own reference lasts until the queue's last step. `IO` needs the
HAL's pairing of starts and stops (`Sensible`), and `TicksSound` strengthens
`TicksMatchRate`: the last stop may open a device again that was taken down in
between, so the ticks must be right also while a client has it running. The
tables are lookups: one lemma per class of object (`PlugInAgrees`,
`DeviceAgrees`, `StreamAgrees`) with a case per kind of property. It says of a
value that it has the size that was announced, not that it is the right one.

### DriverBridgeProofs

| Theorem | States |
|---|---|
| `AlwaysPlaysItsTime` | what the daemon plays at a time was written for it or is silence, from one turn of the ring after its start and after the last write out of pace |
| `AlwaysReadsItsTime` | the driver hands out the frames of the times it is asked for |
| `FramesStayInPlace` | no step of the daemon silences or moves a frame it has still to take (an action property) |
| `StampsAlwaysOrdered` | with a number the daemon published comes no older time |

For rings, callbacks and operations of any length that satisfy the module's
`CallbacksFillTheRing` (the ring is a whole number of callbacks, which the code
presumes: the FIXMEs at OSXDaemon.cpp:164 and 186) and `OperationsFit`, and for any
times the server writes for. There is no lock; the invariant is arithmetic. In
the turn of the ring that begins with the frame the daemon takes next, each place
that the daemon has silenced since the last write out of pace holds the frame of
its own time or silence (`UpHolds`): the places come one after the other, so a turn
later it is all of them. What the daemon wrote is in the other ring for the best
part of a turn (`DownHolds`). Two times less than a turn apart have different
places (`PlaceFrom`), and a callback's frames never cross the ring's end
(`Aligned`). `Stamps` orders the four registers by when they were stored, and
excepts the driver's free run, which stores times of its own.

### LauncherProofs

| Theorem | States |
|---|---|
| `TypeCorrect` | the type invariant; no file is longer than its asset |
| `DownloadIsOfAnswer` | the window downloads an asset of the release it was told of |
| `InstallerAlwaysComplete` | an installer is started only after a download without an error, on a file that holds all that download brought and nothing else |

For any version, releases and sizes. The invariant adds that a reply belongs to
the phase that awaits it (`RepliesAwaited`), that an error's result stays until the
reply finishes (`ErrorsKept`), that a new updater knows of no asset until it is
told (`NothingKnown`, without which the answer of the first check could be
downloaded by the second) and then of one of that answer (`AssetAnswered`), and
that the file has as many bytes as were received (`FileGrows`, `FileComplete`).
`InstallerAlwaysComplete` rests on the assumption `UrlsEndInNames`: the file is
written under the URL's last part and started under the asset's name.

### Checked by TLC only

* Liveness, which is out of the prover's reach: `CommandReturns` (the session's
  commands return), `ImplementsFairStream` (the backend's stops are answered),
  `ChangesComplete`, `GetsSynced`, `LauncherEnds`.
* `NoIdleCapture` of a session, where one thread registers the sink and another
  removes it; the theorem is about one client that does both.
* What the code does not satisfy: `ValidIterators`, `NeverTwoStreams`,
  `ClosesCleanly`, `SwitchSurvives`, of the runs that expect a violation.

## Not modelled

The player's write loop (its offsets and counts), the names of the temp files,
the delay and duration of a recording, which record() ignores; settings and
languages, parsing and printing; drawing and the FFT; the decoding and writing
of audio files (libsndfile); Apple's PublicUtility classes, vendored with the
driver, of which the mutex and the queue appear as `AudioDriver`'s locks and
queue; COM's reference count of the plug-in, which nothing in the repository
releases. A WASAPI packet and a PulseAudio block are a step of `OSAudio`'s loop.

## Plan

1. `OSAudio`, its runs and proofs - done.
2. `Transport`, `Desktop`, `Backends`, the driver, the bridge and the launcher,
   modelled and checked - done.
3. Every invariant and action property that the passing runs check as a theorem -
   done.
4. What liveness rests on, as far as it can be stated without `ENABLED`: that of
   the processes that wait for the semaphore or in a join, one is always waited
   for by nobody it waits for itself, outside the destructor; and the same of the
   session's three joins and of the driver's two locks.
5. The player's write loop, with a flush of the playback buffer that races a
   write: a module over `SampleQueue`, and its proof.
