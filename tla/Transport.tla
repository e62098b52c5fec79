------------------------------ MODULE Transport ------------------------------
(****************************************************************************)
(* A recording session: Transport, Record, Playback and Export              *)
(* (src/src/control) over the audio backend of OSAudio.                     *)
(*                                                                          *)
(* Three application threads are the backend's clients: the user interface  *)
(* (Ui), which runs the methods of Transport; recordThread (Rec); and       *)
(* playThread (Player).  Each call a thread makes on the Controller is the  *)
(* backend's own call, step by step, and the thread goes on once it has     *)
(* returned (cpc = "idle").  The sleeps (HL_TRANSPORT_LOCKOUT_MS and the    *)
(* loops' own) promise nothing about the order of steps and are left out.   *)
(*                                                                          *)
(* A "take" is what one run of Record::recorder writes to one temp file.    *)
(****************************************************************************)
EXTENDS OSAudio

CONSTANTS
  Ui, Rec, Player,   \* the clients
  rb,                \* the recorder's HulaRingBuffer
  Offered,           \* <<command, state, hasExportPaths>>: what the user may call
  Formats,           \* the extensions the user exports to
  MaxTakes           \* bound on the takes of a behaviour

TransportStates == {"READY", "RECORDING", "STOPPED", "PLAYING", "PAUSED"}
Commands == {"record", "stop", "play", "pause", "discard", "export", "delete"}

ASSUME ClientsKnown == {Ui, Rec, Player} \subseteq Clients /\ Cardinality({Ui, Rec, Player}) = 3
ASSUME BufferKnown == rb \in Buffers
ASSUME OfferedKnown == Offered \subseteq Commands \X TransportStates \X BOOLEAN
ASSUME TakesBounded == MaxTakes \in Nat
ASSUME SessionMakes ==
  /\ {[op |-> "addBuffer", arg |-> rb], [op |-> "endPlayback", arg |-> NoArg],
      [op |-> "delete", arg |-> NoArg]} \subseteq Calls[Ui]
  /\ [op |-> "removeBuffer", arg |-> rb] \in Calls[Rec]
  /\ {[op |-> "startPlayback", arg |-> NoArg], [op |-> "endPlayback", arg |-> NoArg],
      [op |-> "playbackCopyToBuffers", arg |-> NoArg]} \subseteq Calls[Player]

VARIABLES
  state, canRecord, canPlayback, initRecordClicked,   \* Transport
  doing, at,            \* the command Ui is in, and where
  endRecord, recpc,     \* Record: endRecord, and recordThread
  endPlay, playpc,      \* Playback: endPlay, and playThread
  filesLeft,            \* the files player() has still to read
  exportPaths,          \* Record: the takes whose temp files it lists
  takes,                \* how many takes were begun
  fate,                 \* what became of each take
  terminated            \* std::terminate was called

transport == <<state, canRecord, canPlayback, initRecordClicked>>
record == <<endRecord, recpc>>
player == <<endPlay, playpc, filesLeft>>
files == <<exportPaths, takes, fate>>
svars == <<transport, doing, at, record, player, files, terminated>>
allVars == <<vars, svars>>

\* A std::thread is joinable from its construction to its join.
Joinable(pc) == pc # "none"
Returned(pc) == pc \in {"none", "done"}

hasExportPaths == exportPaths # << >>
Listed == {exportPaths[i] : i \in 1 .. Len(exportPaths)}

SInit ==
  /\ Init
  /\ state = "READY" /\ canRecord = TRUE
  /\ canPlayback = FALSE /\ initRecordClicked = FALSE
  /\ doing = "none" /\ at = "ready"
  /\ endRecord = FALSE /\ recpc = "none"
  /\ endPlay = FALSE /\ playpc = "none" /\ filesLeft = 0
  /\ exportPaths = << >> /\ takes = 0
  /\ fate = [k \in 1 .. MaxTakes |-> "none"]
  /\ terminated = FALSE

\* A call on the Controller: the backend's, or nothing when it has no effect.
AddBuffer(c) ==
  LET k == [op |-> "addBuffer", arg |-> rb]
  IN  CallAdd(c, k) \/ (rb \in ElementsOf("rbs") /\ UNCHANGED vars)
RemoveBuffer(c) ==
  LET k == [op |-> "removeBuffer", arg |-> rb]
  IN  CallRemove(c, k) \/ (rb \notin ElementsOf("rbs") /\ UNCHANGED vars)
PlaybackCall(c, op) == CallPlayback(c, [op |-> op, arg |-> NoArg])

----------------------------------------------------------------------------
(****************************************************************************)
(* Transport, run by the user interface.  Offers(cmd) is the button or the  *)
(* command that calls it (the command line's second try of "play", after a  *)
(* stop, is the two calls); a call whose state test fails returns false and *)
(* is not a step.                                                           *)
(****************************************************************************)
Offers(cmd) ==
  /\ at = "ready"
  /\ <<cmd, state, hasExportPaths>> \in Offered

Enter(cmd, label) == doing' = cmd /\ at' = label
Finish == doing' = "none" /\ at' = "ready"

\* record() up to Controller::addBuffer.  Assigning to a std::thread that is
\* still joinable terminates the process.
RecordCall ==
  /\ Offers("record") /\ canRecord
  /\ takes < MaxTakes
  /\ endRecord' = FALSE
  /\ IF Joinable(recpc)
     THEN terminated' = TRUE /\ UNCHANGED recpc
     ELSE recpc' = "open" /\ UNCHANGED terminated
  /\ Enter("record", "add")
  /\ UNCHANGED <<vars, transport, player, files>>

RecordAdd ==
  /\ at = "add"
  /\ AddBuffer(Ui)
  /\ at' = "adding"
  /\ UNCHANGED <<doing, transport, record, player, files, terminated>>

RecordDone ==
  /\ at = "adding" /\ cpc[Ui] = "idle"
  /\ initRecordClicked' = TRUE
  /\ canRecord' = FALSE /\ canPlayback' = FALSE /\ state' = "RECORDING"
  /\ Finish
  /\ UNCHANGED <<vars, record, player, files, terminated>>

\* stop(), and pause() while recording: Record::stop up to its join.
StopTest == (~canRecord /\ ~canPlayback) \/ state = "PAUSED"
PauseRecordTest == state = "RECORDING" /\ ~canRecord

\* As a bug would have it: Record::stop does not set endRecord.
RecorderStopNot ==
  /\ \/ Offers("stop") /\ StopTest /\ Enter("stop", "recJoin")
     \/ Offers("pause") /\ PauseRecordTest /\ Enter("pause", "recJoin")
  /\ UNCHANGED <<vars, endRecord, recpc, transport, player, files, terminated>>

RecorderStop ==
  /\ \/ Offers("stop") /\ StopTest /\ Enter("stop", "recJoin")
     \/ Offers("pause") /\ PauseRecordTest /\ Enter("pause", "recJoin")
  /\ endRecord' = TRUE
  /\ UNCHANGED <<vars, recpc, transport, player, files, terminated>>

\* Where each caller of Record::stop goes on.
RecorderStopped ==
  \/ /\ doing = "stop"
     /\ canRecord' = FALSE /\ canPlayback' = TRUE /\ state' = "STOPPED"
     /\ UNCHANGED initRecordClicked
     /\ Finish
  \/ /\ doing = "pause"
     /\ canRecord' = TRUE /\ canPlayback' = FALSE /\ state' = "PAUSED"
     /\ UNCHANGED initRecordClicked
     /\ Finish
  \/ doing = "delete" /\ Enter("delete", "deleteAudio") /\ UNCHANGED transport

\* As a bug would have it: Record::stop does not join.
RecorderJoinNot ==
  /\ at = "recJoin"
  /\ RecorderStopped
  /\ UNCHANGED <<vars, record, player, files, terminated>>

RecorderJoin ==
  /\ at = "recJoin" /\ Returned(recpc)
  /\ recpc' = "none"
  /\ RecorderStopped
  /\ UNCHANGED <<vars, endRecord, player, files, terminated>>

\* pause() otherwise, and ~Transport: Playback::stop up to its join.
PausePlaybackTest == ~PauseRecordTest /\ ~canPlayback /\ initRecordClicked

PlayerStop ==
  /\ \/ Offers("pause") /\ PausePlaybackTest /\ Enter("pause", "endPlayback")
     \/ Offers("delete") /\ Enter("delete", "endPlayback")
  /\ endPlay' = TRUE
  /\ PlaybackCall(Ui, "endPlayback")
  /\ UNCHANGED <<transport, record, playpc, filesLeft, files, terminated>>

PlayerStopped ==
  \/ /\ doing = "pause"
     /\ canPlayback' = TRUE /\ state' = "PAUSED"
     /\ UNCHANGED <<canRecord, initRecordClicked, endRecord>>
     /\ Finish
  \/ /\ doing = "delete"        \* ~Record calls its stop() next
     /\ endRecord' = TRUE
     /\ Enter("delete", "recJoin")
     /\ UNCHANGED transport

\* As a bug would have it: Playback::stop does not join.
PlayerJoinNot ==
  /\ at = "endPlayback" /\ cpc[Ui] = "idle"
  /\ PlayerStopped
  /\ UNCHANGED <<vars, recpc, player, files, terminated>>

PlayerJoin ==
  /\ at = "endPlayback" /\ cpc[Ui] = "idle" /\ Returned(playpc)
  /\ playpc' = "none"
  /\ PlayerStopped
  /\ UNCHANGED <<vars, recpc, endPlay, filesLeft, files, terminated>>

\* play(): Playback::start makes the last player end and joins it.
PlayCall ==
  /\ Offers("play") /\ canPlayback
  /\ endPlay' = TRUE
  /\ Enter("play", "restart")
  /\ UNCHANGED <<vars, transport, record, playpc, filesLeft, files, terminated>>

PlayStart ==
  /\ at = "restart" /\ Returned(playpc)
  /\ endPlay' = FALSE /\ playpc' = "start"
  /\ canPlayback' = FALSE /\ canRecord' = FALSE /\ state' = "PLAYING"
  /\ Finish
  /\ UNCHANGED <<vars, initRecordClicked, record, filesLeft, files, terminated>>

\* sf_format_check: "flac" asks for SF_FORMAT_FLOAT | SF_FORMAT_PCM_24, which is
\* SF_FORMAT_DOUBLE, a subtype FLAC does not have.
FormatValid(extension) == extension # "flac"

\* exportFile: copyData reads the listed files, or returns without a copy.
ExportCall ==
  /\ Offers("export")
  /\ \E extension \in Formats :
       fate' = [k \in 1 .. MaxTakes |->
                  IF FormatValid(extension) /\ k \in Listed /\ fate[k] = "complete"
                  THEN "saved" ELSE fate[k]]
  /\ Enter("export", "clear")
  /\ UNCHANGED <<vars, transport, record, player, exportPaths, takes, terminated>>

ExportClear ==
  /\ at = "clear"
  /\ exportPaths' = << >>
  /\ Finish
  /\ UNCHANGED <<vars, transport, record, player, takes, fate, terminated>>

\* discard: reset the states, delete the files, forget them.
DiscardCall ==
  /\ Offers("discard")
  /\ canRecord' = TRUE /\ canPlayback' = FALSE
  /\ initRecordClicked' = FALSE /\ state' = "READY"
  /\ fate' = [k \in 1 .. MaxTakes |-> IF k \in Listed THEN "deleted" ELSE fate[k]]
  /\ Enter("discard", "clear")
  /\ UNCHANGED <<vars, record, player, exportPaths, takes, terminated>>

\* ~Transport deletes the controller, and it the audio backend, last.
DeleteAudio ==
  /\ at = "deleteAudio"
  /\ CallDelete(Ui, [op |-> "delete", arg |-> NoArg])
  /\ at' = "deleting"
  /\ UNCHANGED <<doing, transport, record, player, files, terminated>>

DeleteDone ==
  /\ at = "deleting" /\ cpc[Ui] = "idle"
  /\ Enter("none", "gone")
  /\ UNCHANGED <<vars, transport, record, player, files, terminated>>

----------------------------------------------------------------------------
(****************************************************************************)
(* recordThread: Record::recorder.                                          *)
(****************************************************************************)

\* Open a temp file and list it.
RecOpen ==
  /\ recpc = "open"
  /\ takes' = takes + 1
  /\ fate' = [fate EXCEPT ![takes + 1] = "open"]
  /\ exportPaths' = Append(exportPaths, takes + 1)
  /\ recpc' = "loop"
  /\ UNCHANGED <<vars, transport, doing, at, endRecord, player, terminated>>

\* The loop has seen endRecord: removeBuffer.
RecExit ==
  /\ recpc = "loop" /\ endRecord
  /\ RemoveBuffer(Rec)
  /\ recpc' = "removing"
  /\ UNCHANGED <<transport, doing, at, endRecord, player, files, terminated>>

\* rb->clear() and sf_close: the take is complete unless it was deleted.
RecClose ==
  /\ recpc = "removing" /\ cpc[Rec] = "idle"
  /\ fate' = [fate EXCEPT ![takes] = IF @ = "open" THEN "complete" ELSE @]
  /\ recpc' = "done"
  /\ UNCHANGED <<vars, transport, doing, at, endRecord, player, exportPaths, takes,
                 terminated>>

----------------------------------------------------------------------------
(****************************************************************************)
(* playThread: Playback::player.  The number of blocks in a file is left    *)
(* open: PlayWrite may happen again or the file may end.                    *)
(****************************************************************************)
PlayOpen ==
  /\ playpc = "start"
  /\ PlaybackCall(Player, "startPlayback")
  /\ playpc' = "starting"
  /\ UNCHANGED <<transport, doing, at, record, endPlay, filesLeft, files, terminated>>

\* Without a file player() returns, and leaves the playback running.
PlayFiles ==
  /\ playpc = "starting" /\ cpc[Player] = "idle"
  /\ filesLeft' = Len(exportPaths)
  /\ playpc' = IF hasExportPaths THEN "loop" ELSE "done"
  /\ UNCHANGED <<vars, transport, doing, at, record, endPlay, files, terminated>>

Playing == playpc = "loop" /\ cpc[Player] = "idle"

PlayWrite ==
  /\ Playing /\ ~endPlay
  /\ CallPlaybackCopy(Player, [op |-> "playbackCopyToBuffers", arg |-> NoArg])
  /\ UNCHANGED svars

\* The file is read: go on with the next, or end after the last.
PlayFileEnd ==
  /\ Playing /\ ~endPlay
  /\ IF filesLeft > 1
     THEN filesLeft' = filesLeft - 1 /\ UNCHANGED endPlay
     ELSE endPlay' = TRUE /\ UNCHANGED filesLeft
  /\ UNCHANGED <<vars, transport, doing, at, record, playpc, files, terminated>>

\* As a bug would have it: player() leaves the end of the playback to Playback::stop.
PlayExitSilent ==
  /\ Playing /\ endPlay
  /\ playpc' = "done"
  /\ UNCHANGED <<vars, transport, doing, at, record, endPlay, filesLeft, files,
                 terminated>>

PlayExit ==
  /\ Playing /\ endPlay
  /\ PlaybackCall(Player, "endPlayback")
  /\ playpc' = "ending"
  /\ UNCHANGED <<transport, doing, at, record, endPlay, filesLeft, files, terminated>>

PlayReturn ==
  /\ playpc = "ending" /\ cpc[Player] = "idle"
  /\ playpc' = "done"
  /\ UNCHANGED <<vars, transport, doing, at, record, endPlay, filesLeft, files,
                 terminated>>

----------------------------------------------------------------------------
NewCommand ==
  \/ RecordCall \/ RecorderStop \/ PlayerStop \/ PlayCall
  \/ ExportCall \/ DiscardCall

UiStep ==
  \/ RecordAdd \/ RecordDone \/ RecorderJoin \/ PlayerJoin \/ PlayStart
  \/ ExportClear \/ DeleteAudio \/ DeleteDone

RecStep == RecOpen \/ RecExit \/ RecClose
PlayStep == PlayOpen \/ PlayFiles \/ PlayWrite \/ PlayFileEnd \/ PlayExit \/ PlayReturn

\* What goes on inside the backend.
Inside(c) == (ClientStep(c) \/ UseInvalid(c)) /\ UNCHANGED svars
Engine(t) == (ThreadStep(t) \/ UseInvalid(t)) /\ UNCHANGED svars

Alive == Running /\ ~terminated
Over == ~Alive \/ at = "gone"

SNext ==
  \/ Alive /\ (NewCommand \/ UiStep \/ RecStep \/ PlayStep)
  \/ Alive /\ \E c \in Clients : Inside(c)
  \/ Alive /\ \E t \in Threads : Engine(t)
  \/ Over /\ UNCHANGED allVars

SSpec == SInit /\ [][SNext]_allVars

\* Every thread that can take a step is scheduled; the user owes no command.
SFairness ==
  /\ WF_allVars(Alive /\ UiStep)
  /\ WF_allVars(Alive /\ RecStep)
  /\ WF_allVars(Alive /\ PlayStep)
  /\ \A c \in Clients : WF_allVars(Alive /\ Inside(c))
  /\ \A t \in Threads : WF_allVars(Alive /\ Engine(t))

SFairSpec == SSpec /\ SFairness
----------------------------------------------------------------------------
(****************************************************************************)
(* Properties.                                                              *)
(****************************************************************************)

\* recordThread is never assigned while the last one is unjoined: each take's
\* thread is joined by a stop() or pause() before the next record().
NeverTerminates == ~terminated

\* A session that says it records does record: once nothing is on its way in
\* the backend, the capture stream is the one that runs.
RecordingCaptures == (at = "ready" /\ Quiet /\ state = "RECORDING") => ~ended["in"]

\* The recorder's ring buffer is for one producer: the capture thread and the
\* player never copy into it at the same time.
OneProducer ==
  \A p, q \in Procs :
    (Copying(p) /\ Copying(q) /\ iter[p].list = "rbs" /\ iter[q].list = "rbs") => p = q

\* A complete take is listed until it is exported or discarded.
TakesKept == \A k \in 1 .. takes : fate[k] = "complete" => k \in Listed

\* Every method of Transport returns, through all the joins it waits in: Ui for
\* the recorder or the player, these for an engine thread or for the semaphore;
\* unless the process comes down before.
CommandReturns == at # "ready" ~> (at \in {"ready", "gone"} \/ ~Alive)
=============================================================================
