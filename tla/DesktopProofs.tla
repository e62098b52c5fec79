---------------------------- MODULE DesktopProofs ----------------------------
(****************************************************************************)
(* Proofs about Desktop, for any backend, takes and threads.                *)
(*                                                                          *)
(* The panel: what the buttons let the user do keeps the recorder's thread  *)
(* from being overwritten and leaves it a stop button.  The visualizer: one *)
(* thread at a time.  The whole: a behaviour of the backend, at whose end   *)
(* ~QMLBridge deletes the visualizer's buffer when nobody writes to it.     *)
(****************************************************************************)
EXTENDS Desktop, TransportProofs

USE DEF starts, flow, data, cvars, ivars, life, transport, record, player, files, svars,
        bvars, wvars

----------------------------------------------------------------------------
(****************************************************************************)
(* The panel.                                                               *)
(****************************************************************************)
PanelStates == [record : BOOLEAN, stop : BOOLEAN, playpause : BOOLEAN, export : BOOLEAN,
                icon : {"pause", "play"}, isStopped : BOOLEAN]

\* What the update after each click does to the stop button and to isStopped.
LEMMA PanelAfter ==
  ASSUME buttons \in PanelStates, NEW c
  PROVE  /\ Updated(c) \in PanelStates
         /\ c = "record" => Updated(c).stop
         /\ c = "pause" => (Updated(c).stop <=> buttons.stop \/ ~buttons.isStopped)
         /\ c \notin {"record", "stop", "pause", "play"} =>
              (Updated(c).stop <=> buttons.stop)
         /\ c \notin {"stop", "discard"} => (Updated(c).isStopped <=> buttons.isStopped)
         /\ c = "discard" => ~Updated(c).isStopped
<1> USE DEF PanelStates
<1>1. CASE c = "record"
  BY <1>1 DEF Updated
<1>2. CASE c = "stop"
  BY <1>2 DEF Updated
<1>3. CASE c = "pause"
  BY <1>3 DEF Updated
<1>4. CASE c = "play"
  BY <1>4 DEF Updated
<1>5. CASE c = "discard"
  BY <1>5 DEF Updated
<1>6. CASE c \notin {"record", "stop", "pause", "play", "discard"}
  BY <1>6 DEF Updated
<1> QED
  BY <1>1, <1>2, <1>3, <1>4, <1>5, <1>6

\* Where the interface's thread is, in QMLBridge and in Transport.
BridgeKnown ==
  /\ buttons \in PanelStates /\ success \in BOOLEAN
  /\ bridge = "idle" => click = "none"
  /\ bridge \notin {"transport", "deleting", "gone"} => at = "ready"
  /\ bridge \in {"delete", "deleting", "gone"} => click = "close"
  /\ bridge = "startVis" => click \notin {"stop", "close"}
  /\ bridge = "gone" => at = "gone"
  /\ doing = "delete" \/ at \in {"deleteAudio", "deleting", "gone"}
       => bridge \in {"deleting", "gone"}

\* What the panel knows of the recorder.  Only the tray's Quit, after which there
\* is no click, may forget a running recorder.
PanelKnown ==
  /\ click = "close" \/ RecorderKnown
  /\ buttons.isStopped => recpc = "none"
  /\ click = "stop" /\ success =>
       at = "recJoin" \/ (at = "ready" /\ recpc = "none")
  /\ click = "play" => recpc = "none"
  /\ recpc # "none" => buttons.stop \/ click = "record"
  /\ ~terminated

\* One visualizer thread at most, and none where stopVisThread has joined it.
VisKept ==
  /\ visThreads \subseteq VisThreads
  /\ vispc \in [VisThreads -> {"none", "add", "loop", "remove", "removing", "done"}]
  /\ \A v \in VisThreads : vispc[v] = "none" <=> v \notin visThreads
  /\ \A v, w \in visThreads : v = w
  /\ bridge \in {"startVis", "delete", "deleting", "gone"} => visThreads = {}

Control == BridgeKnown /\ PanelKnown /\ VisKept

LEMMA ControlInit == DInit => Control
<1> SUFFICES ASSUME DInit PROVE Control
  OBVIOUS
<1>1. BridgeKnown
  BY DEF DInit, SInit, BridgeKnown, PanelStates
<1>2. PanelKnown
  BY DEF DInit, SInit, PanelKnown, RecorderKnown
<1>3. VisKept
  BY DEF DInit, VisKept
<1> QED
  BY <1>1, <1>2, <1>3 DEF Control

\* A click.
LEMMA ClickControl ==
  ASSUME Control, UserClick
  PROVE  Control'
<1> USE DEF Control
<1>1. /\ bridge = "idle" /\ at = "ready" /\ click = "none"
      /\ bridge' \in {"transport", "stopVis"} /\ success' \in BOOLEAN
      /\ UNCHANGED <<buttons, endVis, visThreads, vispc>>
  BY DEF UserClick, ClickRecord, ClickPlay, ClickStop, ClickPause, ClickExport, ClickDiscard,
         ClickRefused, ClickClose, Serve, Shows, BridgeKnown
<1>2. VisKept'
  BY <1>1 DEF VisKept
<1>3. RecorderKnown /\ (recpc # "none" => buttons.stop)
  BY <1>1 DEF PanelKnown
<1>4. \A cmd : Enter(cmd, at') => doing' = cmd
  BY DEF Enter
<1>5. CASE ClickRecord
  <2>1. /\ SessionStep /\ ~DiscardCall /\ recpc = "none"
        /\ click' = "record" /\ bridge' = "transport" /\ ~buttons.isStopped
        /\ doing' = "record" /\ at' = "add"
    BY <1>3, <1>5 DEF ClickRecord, Serve, Shows, SessionStep, NewCommand, RecordCall,
                      DiscardCall, Enter, RecorderKnown, Offers
  <2>2. RecorderKnown' /\ UNCHANGED terminated
    BY <1>3, <2>1, RecorderKnownStep
  <2> QED
    BY <1>1, <1>2, <2>1, <2>2 DEF BridgeKnown, PanelKnown
<1>6. CASE ClickPlay
  <2>1. /\ SessionStep /\ ~DiscardCall /\ recpc = "none" /\ UNCHANGED recpc
        /\ click' = "play" /\ bridge' = "transport"
        /\ doing' = "play" /\ at' = "restart"
    BY <1>3, <1>6 DEF ClickPlay, Serve, SessionStep, NewCommand, PlayCall, DiscardCall,
                      Enter, RecorderKnown, Offers
  <2>2. RecorderKnown' /\ UNCHANGED terminated
    BY <1>3, <2>1, RecorderKnownStep
  <2> QED
    BY <1>1, <1>2, <2>1, <2>2 DEF BridgeKnown, PanelKnown
<1>7. CASE ClickStop
  <2>1. /\ SessionStep /\ ~DiscardCall /\ UNCHANGED recpc
        /\ click' = "stop" /\ bridge' = "transport"
        /\ doing' = "stop" /\ at' = "recJoin"
    BY <1>7 DEF ClickStop, Serve, SessionStep, NewCommand, RecorderStop, DiscardCall, Enter
  <2>2. RecorderKnown' /\ UNCHANGED terminated
    BY <1>3, <2>1, RecorderKnownStep
  <2> QED
    BY <1>1, <1>2, <1>3, <2>1, <2>2 DEF BridgeKnown, PanelKnown
<1>8. CASE ClickPause
  <2>1. /\ SessionStep /\ ~DiscardCall /\ UNCHANGED recpc
        /\ click' = "pause" /\ bridge' = "transport"
        /\ doing' = "pause" /\ at' \in {"recJoin", "endPlayback"}
    BY <1>8 DEF ClickPause, Serve, SessionStep, NewCommand, RecorderStop, PlayerStop,
                DiscardCall, Enter
  <2>2. RecorderKnown' /\ UNCHANGED terminated
    BY <1>3, <2>1, RecorderKnownStep
  <2> QED
    BY <1>1, <1>2, <1>3, <2>1, <2>2 DEF BridgeKnown, PanelKnown
<1>9. CASE ClickExport
  <2>1. /\ SessionStep /\ ~DiscardCall /\ UNCHANGED recpc
        /\ click' = "export" /\ bridge' = "transport"
        /\ doing' = "export" /\ at' = "clear"
    BY <1>9 DEF ClickExport, Serve, SessionStep, NewCommand, ExportCall, DiscardCall, Enter
  <2>2. RecorderKnown' /\ UNCHANGED terminated
    BY <1>3, <2>1, RecorderKnownStep
  <2> QED
    BY <1>1, <1>2, <1>3, <2>1, <2>2 DEF BridgeKnown, PanelKnown
<1>10. CASE ClickDiscard
  <2>1. /\ SessionStep /\ recpc = "none" /\ UNCHANGED recpc
        /\ click' = "discard" /\ bridge' = "transport"
        /\ doing' = "discard" /\ at' = "clear"
    BY <1>10 DEF ClickDiscard, Serve, Shows, SessionStep, NewCommand, DiscardCall, Enter,
                 PanelKnown
  <2>2. RecorderKnown' /\ UNCHANGED terminated
    BY <1>3, <2>1, RecorderKnownStep
  <2> QED
    BY <1>1, <1>2, <1>3, <2>1, <2>2 DEF BridgeKnown, PanelKnown
<1>11. CASE ClickRefused
  <2>1. /\ UNCHANGED allVars /\ click' \in {"stop", "pause"} /\ bridge' = "stopVis"
        /\ success' = FALSE
    BY <1>11 DEF ClickRefused, Serve
  <2>2. RecorderKnown'
    BY <1>3, <2>1 DEF RecorderKnown, allVars
  <2> QED
    BY <1>1, <1>2, <1>3, <2>1, <2>2 DEF BridgeKnown, PanelKnown, allVars
<1>12. CASE ClickClose
  <2>1. /\ click' = "close" /\ bridge' = "transport" /\ UNCHANGED <<recpc, terminated>>
        /\ \/ doing' = "discard" /\ at' = "clear"
           \/ UNCHANGED <<doing, at>>
    BY <1>12 DEF ClickClose, Serve, DiscardCall, Enter, allVars
  <2> QED
    BY <1>1, <1>2, <1>3, <2>1 DEF BridgeKnown, PanelKnown
<1> QED
  BY <1>5, <1>6, <1>7, <1>8, <1>9, <1>10, <1>11, <1>12 DEF UserClick

\* A step of QMLBridge's own.
LEMMA BridgeControl ==
  ASSUME Control, BridgeStep
  PROVE  Control'
<1> USE DEF Control
<1>1. CASE TransportDone
  <2>1. UNCHANGED <<allVars, wvars>> /\ bridge = "transport" /\ at = "ready"
    BY <1>1 DEF TransportDone
  <2>2. CASE click \in {"export", "discard"}
    <3>1. bridge' = "idle" /\ click' = "none" /\ success' = FALSE /\ buttons' = Updated(click)
      BY <1>1, <2>2 DEF TransportDone, Served
    <3>2. BridgeKnown'
      BY <2>1, <3>1, PanelAfter DEF BridgeKnown, allVars
    <3>3. PanelKnown'
      BY <2>1, <2>2, <3>1, PanelAfter DEF BridgeKnown, PanelKnown, RecorderKnown, allVars
    <3>4. VisKept'
      BY <2>1, <3>1 DEF VisKept
    <3> QED
      BY <3>2, <3>3, <3>4
  <2>3. CASE click \notin {"export", "discard"}
    <3>1. bridge' = "stopVis" /\ UNCHANGED <<click, success, buttons>>
      BY <1>1, <2>3 DEF TransportDone
    <3> QED
      BY <2>1, <3>1 DEF BridgeKnown, PanelKnown, RecorderKnown, VisKept, allVars
  <2> QED
    BY <2>2, <2>3
<1>2. CASE StopVis
  BY <1>2 DEF StopVis, BridgeKnown, PanelKnown, RecorderKnown, VisKept, allVars
<1>3. CASE JoinVis
  <2>1. /\ UNCHANGED allVars /\ bridge = "joinVis" /\ at = "ready" /\ visThreads' = {}
        /\ vispc' = [v \in VisThreads |-> IF v \in visThreads THEN "none" ELSE vispc[v]]
    BY <1>3 DEF JoinVis, BridgeKnown
  <2>2. VisKept'
    BY <2>1 DEF VisKept
  <2>3. CASE click \in {"stop", "pause"}
    <3>1. /\ bridge' = "idle" /\ click' = "none" /\ success' = FALSE
          /\ buttons' = IF success THEN Updated(click) ELSE buttons
      BY <1>3, <2>3 DEF JoinVis, VisStopped, Served
    <3>2. BridgeKnown'
      BY <2>1, <3>1, PanelAfter DEF BridgeKnown, allVars
    <3>3. success /\ click = "stop" => recpc = "none"
      BY <2>1 DEF PanelKnown
    <3>4. PanelKnown'
      BY <2>1, <2>3, <3>1, <3>3, PanelAfter
         DEF BridgeKnown, PanelKnown, RecorderKnown, allVars
    <3> QED
      BY <2>2, <3>2, <3>4
  <2>4. CASE click \notin {"stop", "pause"}
    <3>1. /\ bridge' = IF click = "close" THEN "delete" ELSE "startVis"
          /\ UNCHANGED <<click, success, buttons>>
      BY <1>3, <2>4 DEF JoinVis, VisStopped
    <3> QED
      BY <2>1, <2>2, <2>4, <3>1 DEF BridgeKnown, PanelKnown, RecorderKnown, allVars
  <2> QED
    BY <2>3, <2>4
<1>4. CASE StartVis
  <2> DEFINE v == CHOOSE w \in VisThreads : vispc[w] = "none"
  <2>1. bridge = "startVis" /\ visThreads = {} /\ at = "ready"
        /\ click \notin {"stop", "close"}
    BY <1>4 DEF StartVis, VisKept, BridgeKnown
  <2>2. \E w \in VisThreads : vispc[w] = "none"
    BY <2>1, VisKnown DEF VisKept
  <2>3. v \in VisThreads /\ vispc[v] = "none"
    BY <2>2
  <2>4. /\ vispc' = [vispc EXCEPT ![v] = "add"] /\ visThreads' = {v}
        /\ bridge' = "idle" /\ click' = "none" /\ success' = FALSE
        /\ buttons' = Updated(click) /\ UNCHANGED allVars
    BY <1>4, <2>1 DEF StartVis, Served
  <2> HIDE DEF v
  <2>5. VisKept'
    BY <2>1, <2>3, <2>4 DEF VisKept
  <2>6. BridgeKnown'
    BY <2>1, <2>4, PanelAfter DEF BridgeKnown, allVars
  <2>7. PanelKnown'
    BY <2>1, <2>4, PanelAfter DEF BridgeKnown, PanelKnown, RecorderKnown, allVars
  <2> QED
    BY <2>5, <2>6, <2>7
<1>5. CASE DeleteTransport
  <2>1. /\ bridge = "delete" /\ click = "close" /\ bridge' = "deleting"
        /\ UNCHANGED <<click, success, buttons, wvars, recpc, terminated>>
    BY <1>5 DEF DeleteTransport, PlayerStop, BridgeKnown
  <2> QED
    BY <1>5, <2>1 DEF BridgeKnown, PanelKnown, VisKept
<1>6. CASE DeleteBuffer
  BY <1>6 DEF DeleteBuffer, BridgeKnown, PanelKnown, VisKept, allVars
<1> QED
  BY <1>1, <1>2, <1>3, <1>4, <1>5, <1>6 DEF BridgeStep

\* A step of a session's own threads that is not a click.
LEMMA SessionControl ==
  ASSUME Control, UiStep \/ RecStep \/ PlayStep, UNCHANGED <<bvars, wvars>>
  PROVE  Control'
<1> USE DEF Control
<1>1. SessionStep /\ ~DiscardCall
  BY DEF SessionStep, UiStep, RecStep, PlayStep, RecordAdd, RecordDone, RecorderJoin,
         PlayerJoin, PlayStart, ExportClear, DeleteAudio, DeleteDone, RecOpen, RecExit,
         RecClose, PlayOpen, PlayFiles, PlayWrite, PlayFileEnd, PlayExit, PlayReturn,
         Offers, DiscardCall, Enter, Finish
<1>2. VisKept'
  BY DEF VisKept
<1>3. click # "close" => RecorderKnown'
  BY <1>1, RecorderKnownStep DEF PanelKnown
<1>4. UNCHANGED terminated
  BY DEF UiStep, RecStep, PlayStep, RecordAdd, RecordDone, RecorderJoin, PlayerJoin,
         PlayStart, ExportClear, DeleteAudio, DeleteDone, RecOpen, RecExit, RecClose,
         PlayOpen, PlayFiles, PlayWrite, PlayFileEnd, PlayExit, PlayReturn
<1>5. CASE UiStep
  <2>1. CASE RecorderJoin
    <3>1. /\ at = "recJoin" /\ recpc' = "none"
          /\ \/ at' = "ready" /\ doing' = "none"
             \/ at' = "deleteAudio" /\ doing = "delete" /\ doing' = "delete"
      BY <2>1 DEF RecorderJoin, RecorderStopped, Enter, Finish
    <3> QED
      BY <1>2, <1>3, <1>4, <3>1 DEF BridgeKnown, PanelKnown
  <2>2. CASE ~RecorderJoin
    <3>1. UNCHANGED recpc /\ at \notin {"ready", "recJoin", "gone"}
      BY <1>5, <2>2 DEF UiStep, RecordAdd, RecordDone, PlayerJoin, PlayStart, ExportClear,
                        DeleteAudio, DeleteDone
    <3>2. \/ doing' = "none" /\ at' = "ready"
          \/ UNCHANGED doing /\ at' = "adding"
          \/ UNCHANGED doing /\ at' = "recJoin" /\ doing = "delete"
          \/ UNCHANGED doing /\ at = "deleteAudio" /\ at' = "deleting"
          \/ doing' = "none" /\ at = "deleting" /\ at' = "gone"
      BY <1>5, <2>2 DEF UiStep, RecordAdd, RecordDone, PlayerJoin, PlayerStopped, PlayStart,
                        ExportClear, DeleteAudio, DeleteDone, Enter, Finish
    <3> QED
      BY <1>2, <1>3, <1>4, <3>1, <3>2 DEF BridgeKnown, PanelKnown
  <2> QED
    BY <2>1, <2>2
<1>6. CASE RecStep
  <2>1. UNCHANGED <<at, doing>> /\ recpc # "none" /\ recpc' # "none"
    BY <1>6 DEF RecStep, RecOpen, RecExit, RecClose
  <2> QED
    BY <1>2, <1>3, <1>4, <2>1 DEF BridgeKnown, PanelKnown
<1>7. CASE PlayStep
  <2>1. UNCHANGED <<at, doing, recpc>>
    BY <1>7 DEF PlayStep, PlayOpen, PlayFiles, PlayWrite, PlayFileEnd, PlayExit, PlayReturn
  <2> QED
    BY <1>2, <1>3, <1>4, <2>1 DEF BridgeKnown, PanelKnown
<1> QED
  BY <1>5, <1>6, <1>7

\* A step of a visualizer thread.
LEMMA VisControl ==
  ASSUME Control, NEW v \in VisThreads, VisStep(v)
  PROVE  Control'
<1>1. UNCHANGED <<svars, bvars, endVis, visThreads>> /\ vispc[v] # "none"
      /\ \E l \in {"loop", "remove", "removing", "done"} : vispc' = [vispc EXCEPT ![v] = l]
  BY DEF VisStep, VisAdd, VisLoopEnds, VisRemove, VisReturn, VisGoto, VisOnly
<1>2. VisKept'
  BY <1>1 DEF Control, VisKept
<1> QED
  BY <1>1, <1>2 DEF Control, BridgeKnown, PanelKnown, RecorderKnown

\* What a step of the desktop is.
DesktopSession == (UiStep \/ RecStep \/ PlayStep) /\ Others
DesktopInside == InsideStep /\ Others

LEMMA DesktopCases ==
  ASSUME [DNext]_desktop
  PROVE  \/ Defined /\ (UserClick \/ BridgeStep \/ DesktopSession \/ DesktopInside)
         \/ Defined /\ \E v \in VisThreads : VisStep(v)
         \/ UNCHANGED desktop
BY DEF DNext, DesktopSession, DesktopInside, InsideStep

LEMMA ControlStep ==
  ASSUME Control, [DNext]_desktop
  PROVE  Control'
<1>1. ASSUME UNCHANGED <<svars, bvars, wvars>> PROVE Control'
  BY <1>1 DEF Control, BridgeKnown, PanelKnown, RecorderKnown, VisKept
<1>2. CASE UNCHANGED desktop
  BY <1>1, <1>2 DEF desktop, allVars
<1>3. CASE DesktopInside
  BY <1>1, <1>3 DEF DesktopInside, InsideStep, Inside, Engine, Others
<1>4. CASE DesktopSession
  BY <1>4, SessionControl DEF DesktopSession, Others
<1> QED
  BY <1>2, <1>3, <1>4, ClickControl, BridgeControl, VisControl, DesktopCases

\* The panel, the Transport and the recorder's thread agree at every click.
THEOREM ControlInvariance == DSpec => []Control
<1>1. DInit => Control
  BY ControlInit
<1>2. Control /\ [DNext]_desktop => Control'
  BY ControlStep
<1> QED
  BY <1>1, <1>2, PTL DEF DSpec

\* The buttons never let a record() overwrite a recorder's thread that nobody has
\* joined: std::terminate is not called.
THEOREM PanelNeverTerminates == DSpec => []NeverTerminates
<1>1. Control => NeverTerminates
  BY DEF Control, PanelKnown, NeverTerminates
<1> QED
  BY <1>1, ControlInvariance, PTL

\* Between two clicks a running recorder has an enabled stop button, and Transport
\* accepts its stop().
THEOREM RecorderAlwaysStoppable == DSpec => []RecorderStoppable
<1>1. Control => RecorderStoppable
  BY DEF Control, BridgeKnown, PanelKnown, RecorderKnown, RecorderStoppable, StopTest
<1> QED
  BY <1>1, ControlInvariance, PTL

\* updateVisualizer runs in one thread at a time.
THEOREM OneVisualizerAlways == DSpec => []OneVisualizer
<1>1. Control => OneVisualizer
  BY DEF Control, VisKept, OneVisualizer
<1> QED
  BY <1>1, ControlInvariance, PTL

----------------------------------------------------------------------------
(****************************************************************************)
(* The desktop's threads use the backend as its clients may.                *)
(****************************************************************************)
VisCalls ==
  \A v \in VisThreads :
    /\ vispc[v] = "loop" => Within(v, "addBuffer", visrb)
    /\ vispc[v] = "removing" => Within(v, "removeBuffer", visrb)
    /\ vispc[v] \notin {"loop", "removing"} => cpc[v] = "idle"

OthersIdle == \A c \in Clients \ ({Ui, Rec, Player} \cup VisThreads) : cpc[c] = "idle"

DInv == Control /\ IInv /\ SessionCallsHeld /\ VisCalls /\ OthersIdle

LEMMA VisClients ==
  /\ \A v \in VisThreads : v \in Clients \ {Ui, Rec, Player} /\ v \in Procs
  /\ \A t \in Threads : t \in Procs /\ t \notin Clients
BY VisKnown, ThreadsDistinct DEF Procs

\* When the backend is deleted nobody is in a call, and no visualizer runs.
LEMMA AllIdle ==
  ASSUME DInv, at \in {"deleteAudio", "deleting", "gone"}
  PROVE  /\ \A v \in VisThreads : vispc[v] = "none"
         /\ at = "deleteAudio" => \A c \in Clients : cpc[c] = "idle"
<1>1. \A v \in VisThreads : vispc[v] = "none"
  BY DEF DInv, Control, BridgeKnown, VisKept
<1> QED
  BY <1>1 DEF DInv, VisCalls, OthersIdle, SessionCallsHeld, UiCalls, RecCalls, PlayerCalls,
              Deleting

\* The calls that a visualizer's thread begins.
LEMMA VisBegins ==
  ASSUME DInv, NEW v \in VisThreads, VisStep(v)
  PROVE  \/ UNCHANGED vars /\ cpc[v] = "idle" /\ vispc' = [vispc EXCEPT ![v] = "loop"]
         \/ UNCHANGED vars /\ cpc[v] = "idle" /\ vispc' = [vispc EXCEPT ![v] = "remove"]
         \/ /\ UNCHANGED vars /\ cpc[v] = "idle" /\ visrb \notin ElementsOf("rbs")
            /\ vispc' = [vispc EXCEPT ![v] = "removing"]
         \/ /\ UNCHANGED vars /\ cpc[v] = "idle" /\ vispc[v] = "removing"
            /\ vispc' = [vispc EXCEPT ![v] = "done"]
         \/ /\ CallBegins(v, [op |-> "addBuffer", arg |-> visrb])
            /\ vispc' = [vispc EXCEPT ![v] = "loop"]
         \/ /\ CallBegins(v, [op |-> "removeBuffer", arg |-> visrb])
            /\ vispc' = [vispc EXCEPT ![v] = "removing"]
<1>1. cpc[v] = "idle" \/ vispc[v] \in {"loop", "removing"}
  BY DEF DInv, VisCalls
<1>2. ~destroyed
  <2>1. vispc[v] # "none"
    BY DEF VisStep, VisAdd, VisLoopEnds, VisRemove, VisReturn, VisGoto
  <2> QED
    BY <2>1, AllIdle DEF DInv, SessionCallsHeld, Deleting
<1>3. CASE VisAdd(v)
  BY <1>1, <1>2, <1>3, VisMakes DEF VisAdd, VisGoto, CallBegins
<1>4. CASE VisRemove(v)
  BY <1>1, <1>2, <1>4, VisMakes DEF VisRemove, VisGoto, CallBegins
<1>5. CASE VisLoopEnds(v) \/ VisReturn(v)
  BY <1>5 DEF VisLoopEnds, VisReturn, VisGoto
<1> QED
  BY <1>3, <1>4, <1>5 DEF VisStep

\* A step of the interface's thread is one of Transport or leaves the backend and
\* the session alone; it starts and ends visualizer threads that are in no call.
LEMMA InterfaceCases ==
  ASSUME UserClick \/ BridgeStep
  PROVE  SessionStep \/ UNCHANGED allVars
BY DEF UserClick, BridgeStep, SessionStep, NewCommand, ClickRecord, ClickPlay, ClickStop,
       ClickPause, ClickExport, ClickDiscard, ClickRefused, ClickClose, TransportDone,
       StopVis, JoinVis, StartVis, DeleteTransport, DeleteBuffer

LEMMA InterfaceStarts ==
  ASSUME Control, UserClick \/ BridgeStep
  PROVE  \A v \in VisThreads :
           vispc'[v] = vispc[v]
           \/ (vispc[v] \in {"none", "done"} /\ vispc'[v] \in {"none", "add"})
<1>1. CASE UNCHANGED vispc
  BY <1>1
<1>2. CASE JoinVis
  BY <1>2 DEF JoinVis, Control, VisKept
<1>3. CASE StartVis
  <2> DEFINE v == CHOOSE w \in VisThreads : vispc[w] = "none"
  <2>1. visThreads = {} /\ vispc' = [vispc EXCEPT ![v] = "add"]
    BY <1>3 DEF StartVis, Control, VisKept
  <2>2. \E w \in VisThreads : vispc[w] = "none"
    BY <2>1, VisKnown DEF Control, VisKept
  <2>3. v \in VisThreads /\ vispc[v] = "none"
    BY <2>2
  <2> HIDE DEF v
  <2> QED
    BY <2>1, <2>3 DEF Control, VisKept
<1> QED
  BY <1>1, <1>2, <1>3
     DEF UserClick, BridgeStep, ClickRecord, ClickPlay, ClickStop, ClickPause, ClickExport,
         ClickDiscard, ClickRefused, ClickClose, Serve, TransportDone, StopVis,
         DeleteTransport, DeleteBuffer

LEMMA DesktopStepsBackend ==
  ASSUME DInv, [DNext]_desktop
  PROVE  [Next]_vars
<1> USE DEF DInv
<1>1. CASE UNCHANGED vars
  BY <1>1
<1>2. CASE Defined /\ SessionStep
  BY <1>2, AllIdle, SessionIsBackend DEF Defined
<1>3. CASE Defined /\ InsideStep
  BY <1>3, InsideIsBackend DEF Defined
<1>4. ASSUME Defined, NEW v \in VisThreads, VisStep(v) PROVE [Next]_vars
  BY <1>4, VisBegins, VisClients, CallIsStep DEF Defined
<1> QED
  BY <1>1, <1>2, <1>3, <1>4, DesktopCases, InterfaceCases
     DEF DesktopSession, DesktopInside, SessionStep, desktop, allVars

\* The client c is where it was, in its call.
Rests(c) == cpc'[c] = cpc[c] /\ call'[c] = call[c]

LEMMA VisCallsKept ==
  ASSUME VisCalls, OthersIdle,
         \A v \in VisThreads :
           \/ vispc'[v] = vispc[v]
           \/ vispc[v] \in {"none", "done"} /\ vispc'[v] \in {"none", "add"},
         \A c \in Clients \ {Ui, Rec, Player} : Rests(c)
  PROVE  VisCalls' /\ OthersIdle'
BY VisClients, WithinKept DEF VisCalls, OthersIdle, Rests

LEMMA SessionCallsRest ==
  ASSUME SessionCallsHeld, UNCHANGED <<svars, destroyed>>,
         \A c \in {Ui, Rec, Player} : Rests(c)
  PROVE  SessionCallsHeld'
BY UiLeft, RecLeft, PlayerLeft DEF SessionCallsHeld, Deleting, Rests

LEMMA DInvVis ==
  ASSUME DInv, NEW v \in VisThreads, VisStep(v)
  PROVE  SessionCallsHeld' /\ VisCalls' /\ OthersIdle'
<1> USE VisClients DEF DInv
<1>1. vispc \in [VisThreads -> {"none", "add", "loop", "remove", "removing", "done"}]
  BY DEF Control, VisKept
<1>2. UNCHANGED svars
  BY DEF VisStep, VisAdd, VisLoopEnds, VisRemove, VisReturn, VisOnly
<1>3. ASSUME NEW l \in {"loop", "remove", "removing", "done"},
             UNCHANGED vars, cpc[v] = "idle", vispc' = [vispc EXCEPT ![v] = l]
      PROVE  SessionCallsHeld' /\ VisCalls' /\ OthersIdle'
  <2>1. \A c \in Clients : Rests(c)
    BY <1>3 DEF Rests, vars
  <2>2. SessionCallsHeld'
    BY <1>2, <1>3, <2>1, SessionCallsRest, SessionClients DEF vars
  <2>3. OthersIdle'
    BY <1>3 DEF OthersIdle, vars
  <2>4. cpc'[v] = "idle" /\ \A w \in VisThreads : w # v => vispc'[w] = vispc[w] /\ Rests(w)
    BY <1>1, <1>3, <2>1 DEF Rests
  <2>5. VisCalls'
    BY <2>4, WithinKept DEF VisCalls, Within, Rests
  <2> QED
    BY <2>2, <2>3, <2>5
<1>4. ASSUME NEW op \in {"addBuffer", "removeBuffer"},
             CallBegins(v, [op |-> op, arg |-> visrb]),
             vispc' = [vispc EXCEPT ![v] = IF op = "addBuffer" THEN "loop" ELSE "removing"]
      PROVE  SessionCallsHeld' /\ VisCalls' /\ OthersIdle'
  <2>1. op \in SessionOps /\ op # "delete"
    BY DEF SessionOps
  <2>2. /\ Within(v, op, visrb)' /\ UNCHANGED destroyed
        /\ \A c \in Clients : c # v => Rests(c)
    BY <1>4, <2>1, CallEnters DEF Rests
  <2>3. SessionCallsHeld'
    BY <1>2, <2>2, SessionCallsRest, SessionClients
  <2>4. OthersIdle'
    BY <2>2 DEF OthersIdle, Rests
  <2>5. \A w \in VisThreads : w # v => vispc'[w] = vispc[w] /\ Rests(w)
    BY <1>1, <1>4, <2>2
  <2>6. vispc'[v] = IF op = "addBuffer" THEN "loop" ELSE "removing"
    BY <1>1, <1>4
  <2>7. VisCalls'
    BY <2>2, <2>5, <2>6, WithinKept DEF VisCalls, Rests
  <2> QED
    BY <2>3, <2>4, <2>7
<1> QED
  BY <1>3, <1>4, VisBegins

LEMMA DInvStep ==
  ASSUME DInv, [DNext]_desktop
  PROVE  DInv'
<1> USE DEF DInv
<1>1. Control' /\ IInv'
  BY ControlStep, DesktopStepsBackend, IInvStep
<1>2. CASE UNCHANGED desktop
  <2>1. \A c \in Clients : Rests(c)
    BY <1>2 DEF Rests, desktop, allVars, vars
  <2> QED
    BY <1>1, <1>2, <2>1, SessionCallsRest, SessionClients, VisCallsKept
       DEF desktop, allVars, vars
<1>3. CASE Defined /\ (UserClick \/ BridgeStep)
  <2>1. SessionCallsHeld' /\ \A c \in Clients \ {Ui, Rec, Player} : Rests(c)
    <3>1. CASE SessionStep
      BY <1>3, <3>1, SessionKeepsCalls, SessionMovesOnly DEF Defined, Rests
    <3>2. CASE UNCHANGED allVars
      <4>1. \A c \in Clients : Rests(c)
        BY <3>2 DEF Rests, allVars, vars
      <4> QED
        BY <3>2, <4>1, SessionCallsRest, SessionClients DEF allVars, vars
    <3> QED
      BY <1>3, <3>1, <3>2, InterfaceCases
  <2> QED
    BY <1>1, <1>3, <2>1, VisCallsKept, InterfaceStarts
<1>4. CASE Defined /\ DesktopSession
  <2>1. SessionStep /\ UNCHANGED vispc
    BY <1>4 DEF DesktopSession, SessionStep, Others
  <2>2. SessionCallsHeld' /\ \A c \in Clients \ {Ui, Rec, Player} : Rests(c)
    BY <1>4, <2>1, SessionKeepsCalls, SessionMovesOnly DEF Defined, Rests
  <2> QED
    BY <1>1, <2>1, <2>2, VisCallsKept
<1>5. CASE Defined /\ DesktopInside
  <2>1. InsideStep /\ UNCHANGED vispc /\ SessionCallsHeld'
    BY <1>5, InsideKeepsCalls DEF DesktopInside, Others
  <2>2. CASE \A c \in Clients : Rests(c)
    BY <1>1, <2>1, <2>2, VisCallsKept
  <2>3. ASSUME NEW c \in Clients, ClientStep(c) PROVE VisCalls' /\ OthersIdle'
    <3>1. \A d \in Clients :
            /\ cpc[d] = "idle" => cpc'[d] = "idle"
            /\ \A op, arg : Within(d, op, arg) => Within(d, op, arg)'
      BY <2>3, ClientMoves, WithinKept
    <3> QED
      BY <2>1, <3>1, VisClients DEF VisCalls, OthersIdle
  <2> QED
    BY <1>1, <2>1, <2>2, <2>3, ThreadMovesNone
       DEF InsideStep, Inside, Engine, UseInvalid, Rests
<1>6. CASE Defined /\ \E v \in VisThreads : VisStep(v)
  BY <1>1, <1>6, DInvVis
<1> QED
  BY <1>2, <1>3, <1>4, <1>5, <1>6, DesktopCases

LEMMA InitDInv == DInit => DInv
<1> SUFFICES ASSUME DInit PROVE DInv
  OBVIOUS
<1>1. Control /\ SInv
  BY ControlInit, InitSInv DEF DInit
<1>2. \A v \in VisThreads : vispc[v] = "none" /\ cpc[v] = "idle"
  BY VisClients DEF DInit, SInit, Init
<1> QED
  BY <1>1, <1>2 DEF DInv, SInv, NoOtherCalls, VisCalls, OthersIdle

\* The desktop's threads make only the calls a backend's clients may make.
THEOREM DesktopInvariance == DSpec => []DInv
<1>1. DInit => DInv
  BY InitDInv
<1>2. DInv /\ [DNext]_desktop => DInv'
  BY DInvStep
<1> QED
  BY <1>1, <1>2, PTL DEF DSpec

\* The interface, the recorder, the player and the visualizers use the backend as
\* its clients may; ~QMLBridge deletes it when all of them have ended.
THEOREM DesktopUsesBackend == DSpec => Spec
<1>1. DInit => Init
  BY DEF DInit, SInit
<1>2. DInv /\ [DNext]_desktop => [Next]_vars
  BY DesktopStepsBackend
<1> QED
  BY <1>1, <1>2, DesktopInvariance, PTL DEF DSpec, Spec

\* Under the desktop the backend is one exclusive stream whose stops are barriers.
THEOREM DesktopStreamExclusive == DSpec => ImplementsExclusiveStream
BY DesktopUsesBackend, ExclusiveStreamImplemented

----------------------------------------------------------------------------
(****************************************************************************)
(* The visualizer's buffer.  A capture thread may be inside write() on it   *)
(* when its removeBuffer returns; ~OSAudio has joined that thread before    *)
(* ~QMLBridge deletes the buffer.                                           *)
(****************************************************************************)

\* The backend's destructor is past its join of the capture threads.
CaptureEnded ==
  \/ at = "deleting" /\ cpc[Ui] \in {"dtorJoinOut", "idle"}
  \/ at = "gone"

EndedInv == DInv /\ CopiersCapture /\ (CaptureEnded => threads["in"] = {})

\* Nobody starts a thread while the backend is being deleted.
LEMMA NoStartAtEnd ==
  ASSUME DInv, at \in {"deleting", "gone"}, NEW c \in Clients
  PROVE  cpc[c] = "idle" \/ (c = Ui /\ at = "deleting" /\ cpc[c] \in DtorPCs)
<1>1. \A v \in VisThreads : cpc[v] = "idle"
  BY AllIdle DEF DInv, VisCalls
<1> QED
  BY <1>1
     DEF DInv, OthersIdle, SessionCallsHeld, UiCalls, RecCalls, PlayerCalls, Deleting, Within,
         LabelOf, DtorPCs

\* Only StartTest makes a capture thread.
LEMMA CaptureGrows ==
  ASSUME IInv, [Next]_vars, \A c \in Clients : cpc[c] # "startTest"
  PROVE  threads'["in"] \subseteq threads["in"]
<1>1. ASSUME NEW c \in Clients, Call(c) \/ ClientStep(c) PROVE UNCHANGED threads
  BY <1>1
     DEF Call, CallAdd, CallRemove, CallSetDevice, CallPlayback, CallPlaybackCopy,
         CallDelete, ClientStep, Push, AddTest, RemoveTest, Erase, StartWait, StartTest,
         EndWait, Wait, Insert, Trample, EndStore, EndJoin, Release, Install, ReadFlag,
         DtorStore, DtorJoinIn, DtorJoinOut, CopyOne, CopyClientDone
<1>2. ASSUME NEW s \in Sides, NEW t \in threads[s],
             GiveUp(s, t) \/ OpenRefused(s, t) \/ LoopExit(s, t)
      PROVE  threads'["in"] \subseteq threads["in"]
  <2>1. threads' = [threads EXCEPT ![s] = @ \ {t}]
    BY <1>2 DEF GiveUp, OpenRefused, LoopExit, Returns
  <2> QED
    BY <2>1 DEF IInv, TypeOK, Sides
<1>3. ASSUME NEW s \in Sides, NEW t \in threads[s],
             \/ Prepare(s, t) \/ Publish(s, t) \/ PureCall(s, t) \/ Open(s, t)
             \/ OpenFails(s, t) \/ LoopBody(s, t)
      PROVE  UNCHANGED threads
  BY <1>3 DEF Prepare, Publish, PureCall, Open, OpenFails, LoopBody
<1>4. ASSUME NEW t \in Threads, CopyOne(t) \/ CopyNextList(t) \/ CopyThreadDone(t)
      PROVE  UNCHANGED threads
  BY <1>4 DEF CopyOne, CopyNextList, CopyThreadDone
<1> QED
  BY <1>1, <1>2, <1>3, <1>4 DEF Next, Step, ThreadStep, UseInvalid, vars

\* The destructor comes to its second join through the first.
LEMMA EndReached ==
  ASSUME DInv, Defined, ~CaptureEnded, CaptureEnded', SessionStep \/ InsideStep
  PROVE  threads["in"] = {}
<1> USE SessionClients DEF CaptureEnded
<1>1. cpc \in [Clients -> CallPCs]
  BY DEF DInv, IInv, TypeOK
<1>2. CASE SessionStep
  <2>1. CASE at' = at
    <3>1. at = "deleting" /\ cpc'[Ui] = cpc[Ui]
      BY <1>1, <1>2, <2>1, NoStartAtEnd
         DEF SessionStep, NewCommand, UiStep, RecStep, PlayStep, RecordCall, RecorderStop,
             PlayerStop, PlayCall, ExportCall, DiscardCall, RecordAdd, RecordDone,
             RecorderJoin, PlayerJoin, PlayStart, ExportClear, DeleteAudio, DeleteDone,
             RecOpen, RecExit, RecClose, PlayOpen, PlayFiles, PlayWrite, PlayFileEnd,
             PlayExit, PlayReturn, Offers, Enter, Finish, DInv, SessionCallsHeld, Deleting,
             Playing
    <3> QED
      BY <2>1, <3>1
  <2>2. CASE at' # at
    <3>1. DeleteAudio \/ DeleteDone
      BY <1>2, <2>2
         DEF SessionStep, NewCommand, UiStep, RecStep, PlayStep, RecordCall, RecorderStop,
             PlayerStop, PlayCall, ExportCall, DiscardCall, RecordAdd, RecordDone,
             RecorderJoin, RecorderStopped, PlayerJoin, PlayerStopped, PlayStart,
             ExportClear, RecOpen, RecExit, RecClose, PlayOpen, PlayFiles, PlayWrite,
             PlayFileEnd, PlayExit, PlayReturn, Enter, Finish
    <3>2. CASE DeleteAudio
      BY <1>1, <3>2 DEF DeleteAudio, CallDelete, Begin, Goto
    <3>3. CASE DeleteDone
      BY <3>3 DEF DeleteDone
    <3> QED
      BY <3>1, <3>2, <3>3
  <2> QED
    BY <2>1, <2>2
<1>3. CASE InsideStep
  <2>1. UNCHANGED at
    BY <1>3 DEF InsideStep, Inside, Engine
  <2>2. at = "deleting" /\ cpc[Ui] # cpc'[Ui]
    BY <2>1
  <2>3. PICK c \in Clients : ClientStep(c)
    BY <1>3, <2>2, ThreadMovesNone DEF InsideStep, Inside, Engine, UseInvalid
  <2>4. c = Ui /\ cpc[c] \in {"dtorStore", "dtorJoinIn"}
    BY <2>2, <2>3, ClientMoves, NoStartAtEnd DEF DInv, DtorPCs
  <2>5. DtorStore(c) \/ DtorJoinIn(c)
    BY <2>3, <2>4
       DEF ClientStep, Push, AddTest, RemoveTest, Erase, StartWait, StartTest, EndWait, Wait,
           Insert, Trample, EndStore, EndJoin, Release, Install, ReadFlag, DtorJoinOut,
           CopyOne, Copying, CopyClientDone
  <2> QED
    BY <1>1, <2>1, <2>2, <2>4, <2>5 DEF DtorStore, DtorJoinIn, Goto
<1> QED
  BY <1>2, <1>3

LEMMA EndedStep ==
  ASSUME EndedInv, [DNext]_desktop
  PROVE  EndedInv'
<1> USE DEF EndedInv
<1>1. DInv' /\ CopiersCapture' /\ [Next]_vars
  BY DInvStep, DesktopStepsBackend, CopiersStep DEF DInv
<1>2. ASSUME CaptureEnded PROVE threads'["in"] = {}
  <2>1. \A c \in Clients : cpc[c] # "startTest"
    BY <1>2, NoStartAtEnd DEF CaptureEnded, DtorPCs
  <2> QED
    BY <1>1, <1>2, <2>1, CaptureGrows DEF DInv
<1>3. ASSUME ~CaptureEnded, CaptureEnded' PROVE threads'["in"] = {}
  <2>1. Defined /\ (SessionStep \/ InsideStep)
    <3>1. ASSUME UNCHANGED <<at, cpc>> PROVE FALSE
      BY <1>3, <3>1 DEF CaptureEnded
    <3>2. ASSUME NEW v \in VisThreads, VisStep(v)
          PROVE  UNCHANGED at /\ at \notin {"deleting", "gone"}
      <4>1. UNCHANGED at /\ vispc[v] # "none"
        BY <3>2 DEF VisStep, VisAdd, VisLoopEnds, VisRemove, VisReturn, VisOnly, VisGoto
      <4> QED
        BY <4>1, AllIdle
    <3> QED
      BY <1>3, <3>1, <3>2, DesktopCases, InterfaceCases
         DEF DesktopSession, DesktopInside, SessionStep, desktop, allVars, vars, CaptureEnded
  <2>2. threads["in"] = {} /\ at' \in {"deleting", "gone"}
    BY <1>3, <2>1, EndReached DEF CaptureEnded
  <2>3. \A c \in Clients : cpc[c] # "startTest"
    <3>1. at \in {"deleteAudio", "deleting", "gone"}
      BY <2>1, <2>2
         DEF SessionStep, NewCommand, UiStep, RecStep, PlayStep, RecordCall, RecorderStop,
             PlayerStop, PlayCall, ExportCall, DiscardCall, RecordAdd, RecordDone,
             RecorderJoin, RecorderStopped, PlayerJoin, PlayerStopped, PlayStart,
             ExportClear, DeleteAudio, DeleteDone, RecOpen, RecExit, RecClose, PlayOpen,
             PlayFiles, PlayWrite, PlayFileEnd, PlayExit, PlayReturn, Enter, Finish,
             InsideStep, Inside, Engine
    <3> QED
      BY <3>1, NoStartAtEnd, AllIdle DEF DtorPCs
  <2> QED
    BY <1>1, <2>2, <2>3, CaptureGrows DEF DInv
<1> QED
  BY <1>1, <1>2, <1>3

\* When ~QMLBridge deletes the visualizer's ring buffer no capture thread and no
\* player is inside write() on it, whenever the visualizer has removed it.
THEOREM BufferAlwaysDeletedLast == DSpec => []BufferDeletedLast
<1>1. DInit => EndedInv
  <2> SUFFICES ASSUME DInit PROVE CopiersCapture /\ ~CaptureEnded
    BY InitDInv DEF EndedInv
  <2> QED
    BY DEF DInit, SInit, Init, CopiersCapture, CaptureEnded
<1>2. EndedInv /\ [DNext]_desktop => EndedInv'
  BY EndedStep
<1>3. EndedInv => BufferDeletedLast
  <2> SUFFICES ASSUME EndedInv, bridge = "gone", NEW p \in Procs, Copying(p) PROVE FALSE
    BY DEF BufferDeletedLast, WritesVis
  <2>1. at = "gone"
    BY DEF EndedInv, DInv, Control, BridgeKnown
  <2>2. \A c \in Clients : cpc[c] = "idle"
    BY <2>1, NoStartAtEnd DEF EndedInv
  <2>3. \A t \in Threads : tpc[t] # "copy"
    BY <2>1 DEF EndedInv, CopiersCapture, CaptureEnded
  <2> QED
    BY <2>2, <2>3 DEF Copying, Procs
<1> QED
  BY <1>1, <1>2, <1>3, PTL DEF DSpec
=============================================================================
