------------------------------- MODULE Desktop -------------------------------
(****************************************************************************)
(* The desktop application: the buttons of ButtonPanel.qml, QMLBridge       *)
(* (src/src/ui/gui) and its visualizer thread, over Transport.              *)
(*                                                                          *)
(* The user interface's thread runs a click to its end: the Transport       *)
(* method, then startVisThread or stopVisThread, then the update of the     *)
(* buttons.  The visualizer registers a ring buffer of its own (QMLBridge's *)
(* rb, here visrb), reads it until endVis, and removes it.  The FFT, the    *)
(* message boxes and the drawing are left out; devices and settings are     *)
(* chosen elsewhere (Backends).                                             *)
(****************************************************************************)
EXTENDS Transport

CONSTANTS
  VisThreads,   \* names for the threads of visThreads; backend clients too
  visrb         \* QMLBridge's HulaRingBuffer

ASSUME VisKnown == VisThreads \subseteq Clients \ {Ui, Rec, Player} /\ VisThreads # {}
ASSUME VisBufferKnown == visrb \in Buffers \ {rb}
ASSUME VisMakes ==
  \A v \in VisThreads : {[op |-> "addBuffer", arg |-> visrb],
                         [op |-> "removeBuffer", arg |-> visrb]} \subseteq Calls[v]

VARIABLES
  bridge,      \* where the interface's thread is in QMLBridge
  click,       \* the click it serves
  success,     \* what the Transport method returned
  buttons,     \* ButtonPanel.qml: enabled, the icon, stopBtn.isStopped
  endVis,      \* QMLBridge::endVis
  visThreads,  \* the threads in the vector
  vispc        \* where each of them is

bvars == <<bridge, click, success, buttons>>
wvars == <<endVis, visThreads, vispc>>
desktop == <<allVars, bvars, wvars>>

DInit ==
  /\ SInit
  /\ bridge = "idle" /\ click = "none" /\ success = FALSE
  /\ buttons = [record |-> TRUE, stop |-> FALSE, playpause |-> FALSE,
                export |-> FALSE, icon |-> "pause", isStopped |-> FALSE]
  /\ endVis = FALSE /\ visThreads = {}
  /\ vispc = [v \in VisThreads |-> "none"]

----------------------------------------------------------------------------
(****************************************************************************)
(* The panel.  Shows(c) is what the user can click.  The record button asks *)
(* for a discard once a recording is stopped.                               *)
(****************************************************************************)
Shows(c) ==
  /\ bridge = "idle" /\ at = "ready"
  /\ \/ c = "record" /\ buttons.record /\ ~buttons.isStopped
     \/ c = "discard" /\ buttons.record /\ buttons.isStopped
     \/ c = "stop" /\ buttons.stop
     \/ c = "pause" /\ buttons.playpause /\ buttons.icon = "pause"
     \/ c = "play" /\ buttons.playpause /\ buttons.icon = "play"
     \/ c = "export" /\ buttons.export
     \/ c = "close"

\* As a bug would have it: the record button does not enable the stop button.
UpdatedNoStop(c) ==
  CASE c = "record" -> [buttons EXCEPT !.playpause = TRUE, !.icon = "pause",
                                       !.record = FALSE]
    [] c = "stop" -> [buttons EXCEPT !.stop = FALSE, !.record = TRUE,
                        !.isStopped = TRUE, !.playpause = TRUE, !.icon = "play",
                        !.export = TRUE]
    [] c = "pause" -> [buttons EXCEPT !.icon = "play",
                         !.stop = @ \/ ~buttons.isStopped,
                         !.record = @ \/ ~buttons.isStopped]
    [] c = "play" -> [buttons EXCEPT !.icon = "pause",
                        !.stop = @ /\ buttons.isStopped,
                        !.record = @ /\ buttons.isStopped]
    [] c = "discard" -> [buttons EXCEPT !.isStopped = FALSE, !.export = FALSE]
    [] OTHER -> buttons

\* The panel after a click that succeeded.
Updated(c) ==
  CASE c = "record" -> [buttons EXCEPT !.stop = TRUE, !.playpause = TRUE,
                                       !.icon = "pause", !.record = FALSE]
    [] c = "stop" -> [buttons EXCEPT !.stop = FALSE, !.record = TRUE,
                        !.isStopped = TRUE, !.playpause = TRUE, !.icon = "play",
                        !.export = TRUE]
    [] c = "pause" -> [buttons EXCEPT !.icon = "play",
                         !.stop = @ \/ ~buttons.isStopped,
                         !.record = @ \/ ~buttons.isStopped]
    [] c = "play" -> [buttons EXCEPT !.icon = "pause",
                        !.stop = @ /\ buttons.isStopped,
                        !.record = @ /\ buttons.isStopped]
    [] c = "discard" -> [buttons EXCEPT !.isStopped = FALSE, !.export = FALSE]
    [] OTHER -> buttons

Serve(c, label, result) ==
  /\ Shows(c)
  /\ bridge' = label /\ click' = c /\ success' = result
  /\ UNCHANGED <<buttons, wvars>>

\* record, stop, pause, play, discard, saveFile: the Transport method begins.
ClickRecord == Serve("record", "transport", TRUE) /\ RecordCall
ClickPlay == Serve("play", "transport", TRUE) /\ PlayCall
ClickStop == Serve("stop", "transport", TRUE) /\ RecorderStop /\ doing' = "stop"
ClickPause ==
  /\ Serve("pause", "transport", TRUE)
  /\ RecorderStop \/ PlayerStop
  /\ doing' = "pause"
ClickExport == Serve("export", "transport", TRUE) /\ ExportCall
ClickDiscard == Serve("discard", "transport", TRUE) /\ DiscardCall

\* stop and pause also stop the visualizer when the Transport refuses them.
ClickRefused ==
  /\ \/ Serve("stop", "stopVis", FALSE) /\ ~StopTest
     \/ Serve("pause", "stopVis", FALSE) /\ ~PauseRecordTest /\ ~PausePlaybackTest
  /\ UNCHANGED allVars

\* wannaClose: without takes the window closes; with takes the user goes back
\* (no step) or they are discarded.  The tray's Quit asks nothing.
ClickClose ==
  /\ Serve("close", "transport", TRUE)
  /\ DiscardCall \/ UNCHANGED allVars

Served == bridge' = "idle" /\ click' = "none" /\ success' = FALSE

\* The Transport method has returned.
TransportDone ==
  /\ bridge = "transport" /\ at = "ready"
  /\ IF click \in {"export", "discard"}
     THEN Served /\ buttons' = Updated(click)
     ELSE bridge' = "stopVis" /\ UNCHANGED <<click, success, buttons>>
  /\ UNCHANGED <<allVars, wvars>>

----------------------------------------------------------------------------
(****************************************************************************)
(* stopVisThread and startVisThread.                                        *)
(****************************************************************************)
StopVis ==
  /\ bridge = "stopVis"
  /\ endVis' = TRUE
  /\ bridge' = "joinVis"
  /\ UNCHANGED <<click, success, buttons, allVars, visThreads, vispc>>

\* Where stopVisThread returns to.
VisStopped ==
  /\ IF click \in {"stop", "pause"} THEN Served
     ELSE /\ bridge' = IF click = "close" THEN "delete" ELSE "startVis"
          /\ UNCHANGED <<click, success>>
  /\ buttons' = IF success /\ click \in {"stop", "pause"} THEN Updated(click)
                ELSE buttons

\* As a bug would have it: the vector is cleared without a join.
JoinVisNot ==
  /\ bridge = "joinVis"
  /\ visThreads' = {}
  /\ VisStopped
  /\ UNCHANGED <<allVars, endVis, vispc>>

JoinVis ==
  /\ bridge = "joinVis"
  /\ \A v \in visThreads : vispc[v] = "done"
  /\ visThreads' = {}
  /\ vispc' = [v \in VisThreads |-> IF v \in visThreads THEN "none" ELSE vispc[v]]
  /\ VisStopped
  /\ UNCHANGED <<allVars, endVis>>

\* Reset the state, start the new thread; the click is served.
StartVis ==
  /\ bridge = "startVis"
  /\ LET v == CHOOSE w \in VisThreads : vispc[w] = "none"
     IN  /\ vispc' = [vispc EXCEPT ![v] = "add"]
         /\ visThreads' = visThreads \cup {v}
  /\ endVis' = FALSE
  /\ Served /\ buttons' = Updated(click)
  /\ UNCHANGED allVars

\* As a bug would have it: the buffer is deleted before the transport.
DeleteBufferFirst ==
  /\ bridge = "delete"
  /\ PlayerStop /\ doing' = "delete"
  /\ bridge' = "gone"
  /\ UNCHANGED <<click, success, buttons, wvars>>

\* ~QMLBridge after stopVisThread: delete transport, and then rb.
DeleteTransport ==
  /\ bridge = "delete"
  /\ PlayerStop /\ doing' = "delete"
  /\ bridge' = "deleting"
  /\ UNCHANGED <<click, success, buttons, wvars>>

DeleteBuffer ==
  /\ bridge = "deleting" /\ at = "gone"
  /\ bridge' = "gone"
  /\ UNCHANGED <<click, success, buttons, allVars, wvars>>

----------------------------------------------------------------------------
(****************************************************************************)
(* updateVisualizer.                                                        *)
(****************************************************************************)
VisGoto(v, from, to) == vispc[v] = from /\ vispc' = [vispc EXCEPT ![v] = to]
VisOnly == UNCHANGED <<svars, bvars, endVis, visThreads>>

VisAdd(v) ==
  /\ VisGoto(v, "add", "loop")
  /\ \/ CallAdd(v, [op |-> "addBuffer", arg |-> visrb])
     \/ visrb \in ElementsOf("rbs") /\ UNCHANGED vars
  /\ VisOnly

\* while (!endVis): what it reads is left out; both read loops end, the first
\* by endVis too, the second because the capture fills slower than it drains.
VisLoopEnds(v) ==
  /\ endVis /\ cpc[v] = "idle"
  /\ VisGoto(v, "loop", "remove")
  /\ VisOnly /\ UNCHANGED vars

VisRemove(v) ==
  /\ VisGoto(v, "remove", "removing")
  /\ \/ CallRemove(v, [op |-> "removeBuffer", arg |-> visrb])
     \/ visrb \notin ElementsOf("rbs") /\ UNCHANGED vars
  /\ VisOnly

VisReturn(v) ==
  /\ VisGoto(v, "removing", "done") /\ cpc[v] = "idle"
  /\ VisOnly /\ UNCHANGED vars

----------------------------------------------------------------------------
Others == UNCHANGED <<bvars, wvars>>

UserClick ==
  \/ ClickRecord \/ ClickPlay \/ ClickStop \/ ClickPause
  \/ ClickExport \/ ClickDiscard \/ ClickRefused \/ ClickClose

BridgeStep ==
  \/ TransportDone \/ StopVis \/ JoinVis \/ StartVis
  \/ DeleteTransport \/ DeleteBuffer

VisStep(v) ==
  VisAdd(v) \/ VisLoopEnds(v) \/ VisRemove(v) \/ VisReturn(v)

\* A copier whose vector has changed goes on, to an end that OSAudio leaves open.
\* An erase through an iterator that another thread's change has invalidated
\* destroys the vector, and the session is not followed further.
Intact == \A c \in stale \cap Clients : cpc[c] = "copy"
Defined == Alive /\ Intact
Finished == ~Defined \/ bridge = "gone"

DNext ==
  \/ Defined /\ (UserClick \/ BridgeStep)
  \/ Defined /\ \E v \in VisThreads : VisStep(v)
  \/ Defined /\ (UiStep \/ RecStep \/ PlayStep) /\ Others
  \/ Defined /\ \E c \in Clients : Inside(c) /\ Others
  \/ Defined /\ \E t \in Threads : Engine(t) /\ Others
  \/ Finished /\ UNCHANGED desktop

DSpec == DInit /\ [][DNext]_desktop
----------------------------------------------------------------------------
(****************************************************************************)
(* Properties.                                                              *)
(****************************************************************************)

\* The visualizer's ring buffer is for one consumer: never two threads of
\* updateVisualizer at once.
OneVisualizer ==
  \A v, w \in VisThreads :
    (vispc[v] \notin {"none", "done"} /\ vispc[w] \notin {"none", "done"}) => v = w

\* The process p may be inside write() on visrb: its iterator is at it, or was
\* before the vector changed.
WritesVis(p) ==
  /\ Copying(p) /\ iter[p].list = "rbs"
  /\ \/ p \in stale
     \/ iter[p].at <= Len(sinks["rbs"]) /\ sinks["rbs"][iter[p].at] = visrb

\* ~QMLBridge deletes the visualizer's ring buffer when nobody can be inside
\* write() on it any more: the removeBuffer of its thread does not wait for a
\* capture thread or player that is, as long as another sink is registered.
BufferDeletedLast == bridge = "gone" => \A p \in Procs : ~WritesVis(p)

\* The user can stop what records: between two clicks a running recorder has
\* an enabled stop button, and a Transport that accepts its stop().
RecorderStoppable ==
  (bridge = "idle" /\ at = "ready" /\ recpc \in {"open", "loop"})
     => buttons.stop /\ StopTest

\* Closing the window ends the program, not the process: ~OSAudio has told its
\* threads to end (its comment says "Signal thread death") and joins them.
ClosesCleanly == at = "deleting" => ~crashed
=============================================================================
