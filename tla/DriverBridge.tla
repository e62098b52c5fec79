---------------------------- MODULE DriverBridge ----------------------------
(****************************************************************************)
(* The shared memory between the macOS driver (SA_Device.cpp, in the audio  *)
(* server's process) and the JACK client that loops it back                 *)
(* (src/src/audio/OSXDaemon): a handful of registers and, in each           *)
(* direction, a ring of frames.  There is no lock across the processes.     *)
(* Each side finds its place in a ring by its own count of frames; time     *)
(* stamps in the registers are to keep the two counts together.             *)
(*                                                                          *)
(* A frame is the sample time it is meant for; the two streams of a         *)
(* direction are handled alike and are one here.  A register is read and    *)
(* written whole, one at a time, in the order of the code.                  *)
(****************************************************************************)
EXTENDS Integers, Sequences, FiniteSets

CONSTANTS
  FramesPerBuffer,  \* frames of a ring, STRBUFNUM / 2
  NFrames,          \* frames of a JACK callback
  IOFrames,         \* frames of one IO operation of the audio server
  OutputTimes,      \* the sample times the audio server writes an operation for
  Silence,          \* a sample of value 0
  MaxFrame,         \* bound: the daemon's count of frames
  MaxTime,          \* bound: the host's clock
  MaxSeed,          \* bound: a daemon starts while the seed is below it
  MaxOpens          \* bound: how often the audio server opens the driver

ASSUME CallbacksFillTheRing ==
  /\ FramesPerBuffer \in Nat \ {0} /\ NFrames \in Nat \ {0}
  /\ FramesPerBuffer % NFrames = 0
ASSUME TimesAreFrames == OutputTimes \subseteq Nat
ASSUME OperationsFit == IOFrames \in Nat \ {0} /\ IOFrames + NFrames <= FramesPerBuffer
ASSUME Bounds == MaxFrame \in Nat /\ MaxTime \in Nat /\ MaxSeed \in Nat /\ MaxOpens \in Nat
ASSUME SilenceIsNoFrame == Silence \notin Int

JB_DRV_STATUS_INIT == 0
JB_DRV_STATUS_ACTIVE == 1
JB_DRV_STATUS_STARTED == 2

VARIABLES
  shm,      \* the registers
  bufUp,    \* the ring from the driver to the daemon
  bufDown,  \* and back
  now,      \* mach_absolute_time, in units of one turn of the ring
  daemon,   \* the daemon: its life, its fields, where its callback is
  driver,   \* the device: open or not, its count, where its call is
  report,   \* the time stamp the driver last gave the audio server
  astray,   \* history: the daemon's count when the server last wrote out of pace
  origin    \* history: of what is in the two time stamp registers

vars == <<shm, bufUp, bufDown, now, daemon, driver, report, astray, origin>>
rings == <<bufUp, bufDown>>

Offsets == 0 .. FramesPerBuffer - 1
NoStamp == [number |-> 0, host |-> 0, seed |-> 0, since |-> 0]

Init ==
  /\ shm = [exists |-> FALSE, status |-> JB_DRV_STATUS_INIT, syncMode |-> 0,
            number |-> 0, host |-> 0, seed |-> 0]
  /\ bufUp = [o \in Offsets |-> Silence]
  /\ bufDown = [o \in Offsets |-> Silence]
  /\ now = 0
  /\ daemon = [life |-> "down", isActive |-> FALSE, frame |-> 0, pc |-> "idle"]
  /\ driver = [open |-> FALSE, opens |-> 0, status |-> JB_DRV_STATUS_INIT, count |-> 0,
               pc |-> "idle", stamp |-> NoStamp]
  /\ report = NoStamp
  /\ astray = 0
  /\ origin = [stored |-> 0, published |-> 0]

Tick ==
  /\ now < MaxTime
  /\ now' = now + 1
  /\ UNCHANGED <<shm, rings, daemon, driver, report, astray, origin>>

----------------------------------------------------------------------------
(* The frames of one operation, where the ring may end between them.        *)

Smaller(a, b) == IF a < b THEN a ELSE b

\* theNumberFramesToCopy1: from the start offset, up to the ring's end.
FirstPart(offset, n) == Smaller(n, FramesPerBuffer - offset)

\* The ring after n frames for the sample times from t were copied into it.
CopiedIn(ring, t, n) ==
  LET offset == t % FramesPerBuffer
      first == FirstPart(offset, n) IN
  [o \in Offsets |->
     IF offset <= o /\ o < offset + first THEN t + (o - offset)
     ELSE IF o < n - first THEN t + first + o
     ELSE ring[o]]

\* As a bug would have it: the frames that wrap are read after the first part.
CopiedOutStraight(ring, t, n) ==
  LET offset == t % FramesPerBuffer
      first == FirstPart(offset, n) IN
  [i \in 1 .. n |-> IF i <= first THEN ring[offset + i - 1] ELSE ring[i - 1]]

\* The n frames copied out of the ring for the sample times from t.
CopiedOut(ring, t, n) ==
  LET offset == t % FramesPerBuffer
      first == FirstPart(offset, n) IN
  [i \in 1 .. n |-> IF i <= first THEN ring[offset + i - 1] ELSE ring[i - first - 1]]

----------------------------------------------------------------------------
(* The daemon: a JACK client.                                               *)

\* JackClient's constructor: a client of the JACK server, or exit.
OpenClient ==
  /\ daemon.life = "down"
  /\ daemon' = [life |-> "new", isActive |-> FALSE, frame |-> 0, pc |-> "idle"]

\* Without the driver's memory the daemon exits at once.
DaemonStart ==
  /\ OpenClient
  /\ shm.exists /\ shm.seed < MaxSeed
  /\ shm' = [shm EXCEPT !.syncMode = 0]
  /\ astray' = 0
  /\ UNCHANGED <<rings, now, driver, report, origin>>

\* From here on JACK calls back.
activate ==
  /\ daemon.life = "new"
  /\ daemon' = [daemon EXCEPT !.life = "up"]
  /\ UNCHANGED <<shm, rings, now, driver, report, astray, origin>>

\* A signal ends main's loop.  The derived object goes first: what JACK calls
\* until the client is deactivated is the base class's callback, which is empty.
DaemonExit ==
  /\ daemon.life = "up"
  /\ daemon' = [daemon EXCEPT !.life = "dying"]
  /\ UNCHANGED <<shm, rings, now, driver, report, astray, origin>>

DaemonGone ==
  /\ daemon.life = "dying" /\ daemon.pc = "idle"
  /\ daemon' = [daemon EXCEPT !.life = "down"]
  /\ UNCHANGED <<shm, rings, now, driver, report, astray, origin>>

InCallback(pc) == daemon.pc = pc
Goes(pc) == daemon' = [daemon EXCEPT !.pc = pc]

\* A callback does nothing but play silence while the driver is not started.
Callback ==
  /\ daemon.life = "up" /\ InCallback("idle")
  /\ daemon.frame + NFrames <= MaxFrame
  /\ shm.status = JB_DRV_STATUS_STARTED
  /\ daemon' = IF daemon.isActive THEN [daemon EXCEPT !.pc = "stamp"]
               ELSE [daemon EXCEPT !.pc = "takeover", !.frame = 0]
  /\ UNCHANGED <<shm, rings, now, driver, report, astray, origin>>

\* As a bug would have it: the clock is not taken over.
TakeOverNot ==
  /\ InCallback("takeover")
  /\ Goes("reset")
  /\ UNCHANGED <<shm, rings, now, driver, report, astray, origin>>

\* The first callback with the driver takes the clock over, register by
\* register.
TakeOver ==
  /\ InCallback("takeover")
  /\ shm' = [shm EXCEPT !.syncMode = 1]
  /\ Goes("reset")
  /\ UNCHANGED <<rings, now, driver, report, astray, origin>>

ResetNumber ==
  /\ InCallback("reset")
  /\ shm' = [shm EXCEPT !.number = 0]
  /\ origin' = [origin EXCEPT !.published = 0]
  /\ Goes("seed")
  /\ UNCHANGED <<rings, now, driver, report, astray>>

NewSeed ==
  /\ InCallback("seed")
  /\ shm' = [shm EXCEPT !.seed = @ + 1]
  /\ daemon' = [daemon EXCEPT !.isActive = TRUE, !.pc = "stamp"]
  /\ UNCHANGED <<rings, now, driver, report, astray, origin>>

\* Each turn of the ring has a time stamp, if the clock is the daemon's.
TurnBegins == daemon.frame % FramesPerBuffer = 0 /\ shm.syncMode = 1

NoStampDue ==
  /\ InCallback("stamp") /\ ~TurnBegins
  /\ Goes("send")
  /\ UNCHANGED <<shm, rings, now, driver, report, astray, origin>>

\* As a bug would have it: the number goes out, and the time is not stored.
StampHostLate ==
  /\ InCallback("stamp") /\ TurnBegins
  /\ shm' = [shm EXCEPT !.number = daemon.frame \div FramesPerBuffer]
  /\ origin' = [stored |-> now, published |-> now]
  /\ Goes("number")
  /\ UNCHANGED <<rings, now, driver, report, astray>>

StampHost ==
  /\ InCallback("stamp") /\ TurnBegins
  /\ shm' = [shm EXCEPT !.host = now]
  /\ origin' = [origin EXCEPT !.stored = now]
  /\ Goes("number")
  /\ UNCHANGED <<rings, now, driver, report, astray>>

StampNumber ==
  /\ InCallback("number")
  /\ shm' = [shm EXCEPT !.number = daemon.frame \div FramesPerBuffer]
  /\ origin' = [origin EXCEPT !.published = origin.stored]
  /\ Goes("send")
  /\ UNCHANGED <<rings, now, driver, report, astray>>

\* What JACK captured goes to the driver, at the place of this callback.
sendToCoreAudio ==
  /\ InCallback("send")
  /\ bufDown' = CopiedIn(bufDown, daemon.frame, NFrames)
  /\ Goes("receive")
  /\ UNCHANGED <<shm, bufUp, now, driver, report, astray, origin>>

\* Frames are taken one callback late, and where they were is silenced.
ReceiveTime == daemon.frame - NFrames
Received == CopiedOut(bufUp, ReceiveTime, NFrames)

\* As a bug would have it: the frames are left where they were.
ReceiveKept ==
  /\ InCallback("receive")
  /\ daemon' = [daemon EXCEPT !.frame = @ + NFrames, !.pc = "idle"]
  /\ UNCHANGED <<shm, rings, now, driver, report, astray, origin>>

\* As a bug would have it: the place of this callback is silenced.
ReceiveHere ==
  /\ InCallback("receive")
  /\ LET offset == daemon.frame % FramesPerBuffer IN
     bufUp' = [o \in Offsets |-> IF offset <= o /\ o < offset + NFrames
                                 THEN Silence ELSE bufUp[o]]
  /\ daemon' = [daemon EXCEPT !.frame = @ + NFrames, !.pc = "idle"]
  /\ UNCHANGED <<shm, bufDown, now, driver, report, astray, origin>>

receiveFromCoreAudio ==
  /\ InCallback("receive")
  /\ LET offset == ReceiveTime % FramesPerBuffer IN
     bufUp' = [o \in Offsets |-> IF offset <= o /\ o < offset + NFrames
                                 THEN Silence ELSE bufUp[o]]
  /\ daemon' = [daemon EXCEPT !.frame = @ + NFrames, !.pc = "idle"]
  /\ UNCHANGED <<shm, bufDown, now, driver, report, astray, origin>>

----------------------------------------------------------------------------
(* The driver, in the audio server's process.                               *)

\* The memory outlives both processes; what is in it stays.
HW_Open ==
  /\ ~driver.open /\ driver.opens < MaxOpens
  /\ driver' = [driver EXCEPT !.open = TRUE, !.opens = @ + 1,
                              !.status = JB_DRV_STATUS_ACTIVE, !.count = 0, !.pc = "idle"]
  /\ shm' = [shm EXCEPT !.exists = TRUE, !.seed = 1, !.syncMode = 0,
                        !.status = JB_DRV_STATUS_ACTIVE]
  /\ UNCHANGED <<rings, now, daemon, report, astray, origin>>

\* The audio server stops or dies between any two steps; nothing is cleaned.
ServerDies ==
  /\ driver.open
  /\ driver' = [driver EXCEPT !.open = FALSE, !.status = JB_DRV_STATUS_INIT, !.pc = "idle"]
  /\ report' = NoStamp
  /\ UNCHANGED <<shm, rings, now, daemon, astray, origin>>

StartIO ==
  /\ driver.open /\ driver.pc = "idle" /\ driver.status = JB_DRV_STATUS_ACTIVE
  /\ driver' = [driver EXCEPT !.count = 0, !.status = JB_DRV_STATUS_STARTED]
  /\ shm' = [shm EXCEPT !.status = JB_DRV_STATUS_STARTED]
  /\ report' = NoStamp
  /\ UNCHANGED <<rings, now, daemon, astray, origin>>

StopIO ==
  /\ driver.pc = "idle" /\ driver.status = JB_DRV_STATUS_STARTED
  /\ driver' = [driver EXCEPT !.status = JB_DRV_STATUS_ACTIVE]
  /\ shm' = [shm EXCEPT !.status = JB_DRV_STATUS_ACTIVE]
  /\ UNCHANGED <<rings, now, daemon, report, astray, origin>>

\* GetZeroTimeStamp: the driver's own count goes on whoever has the clock.
\* AnchorHostTime is 0, so a turn of the driver's clock is as long as its number.
GetZeroTimeStamp ==
  /\ driver.pc = "idle" /\ driver.status = JB_DRV_STATUS_STARTED
  /\ driver' = [driver EXCEPT !.count = IF @ + 1 <= now THEN @ + 1 ELSE @,
                  !.pc = IF shm.syncMode = 1 THEN "readNumber" ELSE "storeNumber"]
  /\ UNCHANGED <<shm, rings, now, daemon, report, astray, origin>>

ReadNumber ==
  /\ driver.pc = "readNumber"
  /\ driver' = [driver EXCEPT !.pc = "readHost",
                  !.stamp = [NoStamp EXCEPT !.number = shm.number, !.since = origin.published]]
  /\ UNCHANGED <<shm, rings, now, daemon, report, astray, origin>>

\* No time of the daemon's was stored when the register holds the driver's own.
ReadHost ==
  /\ driver.pc = "readHost"
  /\ driver' = [driver EXCEPT !.pc = "readSeed",
                  !.stamp = [driver.stamp EXCEPT !.host = shm.host,
                    !.since = IF origin.stored = 0 THEN 0 ELSE driver.stamp.since]]
  /\ UNCHANGED <<shm, rings, now, daemon, report, astray, origin>>

\* The driver's own stamp; a daemon may take the clock over between the two
\* stores, and its stamp is then overwritten.
StoreNumber ==
  /\ driver.pc = "storeNumber"
  /\ shm' = [shm EXCEPT !.number = driver.count]
  /\ origin' = [origin EXCEPT !.published = 0]
  /\ driver' = [driver EXCEPT !.pc = "storeHost"]
  /\ UNCHANGED <<rings, now, daemon, report, astray>>

StoreHost ==
  /\ driver.pc = "storeHost"
  /\ shm' = [shm EXCEPT !.host = driver.count]
  /\ origin' = [origin EXCEPT !.stored = 0]
  /\ driver' = [driver EXCEPT !.pc = "readSeed",
                  !.stamp = [NoStamp EXCEPT !.number = driver.count, !.host = driver.count]]
  /\ UNCHANGED <<rings, now, daemon, report, astray>>

ReadSeed ==
  /\ driver.pc = "readSeed"
  /\ report' = [driver.stamp EXCEPT !.seed = shm.seed]
  /\ driver' = [driver EXCEPT !.pc = "idle", !.stamp = NoStamp]
  /\ UNCHANGED <<shm, rings, now, daemon, astray, origin>>

\* In pace: from the present on, and not so far ahead that the ring comes round
\* to what the daemon has yet to take.
Paced(t) == daemon.frame <= t /\ t + IOFrames <= ReceiveTime + FramesPerBuffer

\* The audio server has IO done while the driver is started, for whatever times
\* its clock says: in pace once it goes by the daemon's stamps, and any others
\* while it runs free, after it was restarted, or when it runs late.  The driver
\* does not ask, and writes.
WriteOutputData ==
  /\ driver.pc = "idle" /\ driver.status = JB_DRV_STATUS_STARTED
  /\ \E t \in OutputTimes :
       /\ bufUp' = CopiedIn(bufUp, t, IOFrames)
       /\ astray' = IF Paced(t) THEN astray ELSE daemon.frame
  /\ UNCHANGED <<shm, bufDown, now, daemon, driver, report, origin>>

\* Input is read behind the present, within what the ring still holds.
InputTimes ==
  {t \in 0 .. daemon.frame - IOFrames : daemon.frame + NFrames - FramesPerBuffer <= t}

----------------------------------------------------------------------------
DaemonStep ==
  \/ Callback \/ TakeOver \/ ResetNumber \/ NewSeed \/ NoStampDue \/ StampHost
  \/ StampNumber \/ sendToCoreAudio \/ receiveFromCoreAudio

DriverStep ==
  \/ GetZeroTimeStamp \/ ReadNumber \/ ReadHost \/ StoreNumber \/ StoreHost
  \/ ReadSeed \/ WriteOutputData

Next ==
  \/ Tick
  \/ DaemonStart \/ activate \/ DaemonExit \/ DaemonGone \/ DaemonStep
  \/ HW_Open \/ ServerDies \/ StartIO \/ StopIO \/ DriverStep

Spec == Init /\ [][Next]_vars

\* JACK keeps calling the daemon, and a callback goes on to its end.
FairSpec == Spec /\ WF_vars(DaemonStep)

----------------------------------------------------------------------------
(* Properties.                                                              *)

\* What the daemon plays at a time was written for that time, once the ring has
\* gone round since its start and since the server last wrote out of pace: the
\* frames of a free run, a restarted server or an earlier daemon are not heard
\* beyond a turn, since each place is silenced as it is taken.
PlaysItsTime ==
  InCallback("receive") /\ daemon.frame >= astray + FramesPerBuffer =>
    \A i \in 1 .. NFrames : Received[i] \in {Silence, ReceiveTime + i - 1}

\* No step of the daemon reaches the frames that were written ahead of it, by
\* whatever clock: it silences those it takes and nothing else of the turn.
FramesInPlace ==
  [][daemon' # daemon =>
       \A t \in daemon.frame .. ReceiveTime + FramesPerBuffer - 1 :
         bufUp[t % FramesPerBuffer] = t => bufUp'[t % FramesPerBuffer] = t]_vars

\* The driver hands the audio server the frames of the times it asks for,
\* wherever the ring ends, while the daemon is writing ahead of it.
ReadsItsTime ==
  daemon.life = "up" /\ daemon.isActive =>
    \A t \in InputTimes :
      CopiedOut(bufDown, t, IOFrames) = [i \in 1 .. IOFrames |-> t + i - 1]

\* A stamp is read in the opposite order it is stored in: with a number the
\* daemon published never comes a time older than the one it published it with,
\* however the stores and the reads interleave, unless the driver's own free run
\* has overwritten the time.
StampOrder == report.host >= report.since

\* A daemon that is new to a started driver takes its clock over.
GetsSynced ==
  (daemon.life = "up" /\ InCallback("idle") /\ ~daemon.isActive
   /\ shm.status = JB_DRV_STATUS_STARTED)
    ~> (shm.syncMode = 1 \/ daemon.life # "up" \/ shm.status # JB_DRV_STATUS_STARTED)
=============================================================================
