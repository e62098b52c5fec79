--------------------------- MODULE TransportProofs ---------------------------
(****************************************************************************)
(* Proofs about Transport, for any number of takes, formats, clients,       *)
(* engine threads, devices and failures of the system.                      *)
(*                                                                          *)
(* First: a session is a behaviour of the backend, whatever the user may    *)
(* do, so that what OSAudioProofs shows of the backend holds under it.      *)
(* Then, for a careful user: one producer, a capture for each recording,    *)
(* and every take kept.                                                     *)
(****************************************************************************)
EXTENDS Transport, OSAudioProofs, FiniteSetTheorems

USE DEF starts, flow, data, cvars, ivars, life, transport, record, player, files, svars

(****************************************************************************)
(* The calls on the backend.                                                *)
(****************************************************************************)

\* The labels of the calls that a session makes.
LabelOf(label, op) ==
  \/ op = "addBuffer" /\ label \in {"push", "addTest", "startWait", "startTest", "insert"}
  \/ /\ op = "removeBuffer"
     /\ label \in {"removeTest", "endWait", "endStore", "endJoin", "erase"}
  \/ op = "startPlayback" /\ label \in {"startWait", "startTest", "insert"}
  \/ op = "endPlayback" /\ label \in {"endWait", "endStore", "endJoin"}
  \/ op = "playbackCopyToBuffers" /\ label = "copy"
  \/ op = "delete" /\ label \in DtorPCs

\* The client c is in this call and no other.
Within(c, op, arg) ==
  cpc[c] # "idle" => LabelOf(cpc[c], op) /\ call[c] = [op |-> op, arg |-> arg]

\* A client inside a call goes on in it, or leaves it.
LEMMA ClientMoves ==
  ASSUME IInv, NEW c \in Clients, ClientStep(c)
  PROVE  /\ cpc[c] # "idle"
         /\ \A d \in Clients : d # c => cpc'[d] = cpc[d]
         /\ UNCHANGED <<call, destroyed>>
         /\ \A op, arg : Within(c, op, arg) => Within(c, op, arg)'
<1> USE DEF IInv, TypeOK, Goto, Within, LabelOf, DtorPCs
<1>1. CASE Push(c) \/ AddTest(c) \/ RemoveTest(c) \/ Erase(c)
  BY <1>1 DEF Push, AddTest, RemoveTest, Erase
<1>2. CASE StartWait(c) \/ EndWait(c) \/ EndStore(c)
  BY <1>2 DEF StartWait, EndWait, Wait, EndStore
<1>2a. CASE StartTest(c)
  <2>1. /\ cpc[c] = "startTest" /\ UNCHANGED <<call, destroyed>>
        /\ \/ cpc' = [cpc EXCEPT ![c] = "insert"]
           \/ cpc' = [cpc EXCEPT ![c] = "idle"]
    BY <1>2a DEF StartTest, Spawn, FallThrough
  <2> QED
    BY <2>1
<1>2b. CASE Insert(c) \/ Trample(c)
  BY <1>2b DEF Insert, Trample
<1>3. CASE EndJoin(c)
  <2>1. /\ cpc[c] = "endJoin" /\ cpc' = [cpc EXCEPT ![c] = AfterEnd(c)]
        /\ UNCHANGED <<call, destroyed>>
    BY <1>3 DEF EndJoin
  <2>2. call[c].op = "removeBuffer" => AfterEnd(c) = "erase"
    BY DEF AfterEnd
  <2>3. call[c].op = "endPlayback" => AfterEnd(c) = "idle"
    BY DEF AfterEnd
  <2> QED
    BY <2>1, <2>2, <2>3
<1>4. CASE Release(c) \/ Install(c) \/ ReadFlag(c)
  BY <1>4 DEF Release, Install, ReadFlag
<1>5. CASE DtorStore(c) \/ DtorJoinIn(c) \/ DtorJoinOut(c)
  BY <1>5 DEF DtorStore, DtorJoinIn, DtorJoinOut
<1>6. CASE CopyOne(c)
  BY <1>6 DEF CopyOne, Copying
<1>7. CASE CopyClientDone(c)
  BY <1>7 DEF CopyClientDone, Drop
<1> QED
  BY <1>1, <1>2, <1>2a, <1>2b, <1>3, <1>4, <1>5, <1>6, <1>7 DEF ClientStep

\* An engine thread moves no client.
LEMMA ThreadMovesNone ==
  ASSUME NEW t \in Threads, ThreadStep(t)
  PROVE  UNCHANGED <<cpc, call, sinks, destroyed>>
BY DEF ThreadStep, GiveUp, Prepare, Publish, PureCall, Open, OpenFails, OpenRefused,
       LoopBody, LoopExit, CopyOne, CopyNextList, CopyThreadDone, Drop

----------------------------------------------------------------------------
(****************************************************************************)
(* A session's threads use the backend as its clients may.                  *)
(****************************************************************************)
UiCalls ==
  /\ at = "adding" => Within(Ui, "addBuffer", rb)
  /\ at = "endPlayback" => Within(Ui, "endPlayback", NoArg)
  /\ at = "deleting" => Within(Ui, "delete", NoArg)
  /\ at \notin {"adding", "endPlayback", "deleting"} => cpc[Ui] = "idle"

RecCalls ==
  /\ recpc = "removing" => Within(Rec, "removeBuffer", rb)
  /\ recpc # "removing" => cpc[Rec] = "idle"

PlayerCalls ==
  /\ playpc = "starting" => Within(Player, "startPlayback", NoArg)
  /\ playpc = "loop" => Within(Player, "playbackCopyToBuffers", NoArg)
  /\ playpc = "ending" => Within(Player, "endPlayback", NoArg)
  /\ playpc \notin {"starting", "loop", "ending"} => cpc[Player] = "idle"

\* ~Transport has joined both threads when it deletes the backend.
Deleting ==
  /\ doing = "delete" /\ at = "recJoin" => playpc = "none"
  /\ at \in {"deleteAudio", "deleting", "gone"} => recpc = "none" /\ playpc = "none"
  /\ destroyed => at \in {"deleting", "gone"}

SessionCallsHeld == UiCalls /\ RecCalls /\ PlayerCalls /\ Deleting

\* The clients a session does not have call nothing.
NoOtherCalls == \A c \in Clients \ {Ui, Rec, Player} : cpc[c] = "idle"

\* A step of a session's own threads.
SessionStep == NewCommand \/ UiStep \/ RecStep \/ PlayStep

LEMMA SessionClients ==
  /\ Ui \in Clients /\ Rec \in Clients /\ Player \in Clients
  /\ Ui # Rec /\ Ui # Player /\ Rec # Player
<1>1. Ui \in Clients /\ Rec \in Clients /\ Player \in Clients
  BY ClientsKnown
<1>2. ASSUME NEW a, NEW b, {Ui, Rec, Player} = {a, b} PROVE FALSE
  <2>1. Cardinality({a, b}) = 3
    BY <1>2, ClientsKnown
  <2>2. IsFiniteSet({a}) /\ Cardinality({a}) = 1 /\ {a, b} = {a} \cup {b}
    BY FS_Singleton
  <2>3. Cardinality({a, b}) \in {1, 2}
    BY <2>2, FS_AddElement
  <2> QED
    BY <2>1, <2>3
<1>3. Ui # Rec
  BY <1>2
<1>4. Ui # Player
  BY <1>2
<1>5. Rec # Player
  BY <1>2
<1> QED
  BY <1>1, <1>3, <1>4, <1>5

(****************************************************************************)
(* Each step of the session's threads is a call that the backend offers, or *)
(* leaves the backend alone; at a call the thread is in none.               *)
(****************************************************************************)
CallBegins(c, k) ==
  /\ cpc[c] = "idle" /\ ~destroyed /\ k \in Calls[c]
  /\ \/ CallAdd(c, k) \/ CallRemove(c, k) \/ CallSetDevice(c, k)
     \/ CallPlayback(c, k) \/ CallPlaybackCopy(c, k) \/ CallDelete(c, k)

LEMMA CallIsStep ==
  ASSUME Alive, NEW c \in Clients, NEW k, CallBegins(c, k)
  PROVE  Next
BY DEF CallBegins, Call, Next, Step, Alive

LEMMA SessionIsBackend ==
  ASSUME IInv, SessionCallsHeld, Alive, SessionStep,
         at = "deleteAudio" => \A c \in Clients : cpc[c] = "idle"
  PROVE  [Next]_vars
<1> USE SessionClients DEF SessionCallsHeld
<1>1. CASE UNCHANGED vars
  BY <1>1
<1>2. CASE RecordAdd /\ ~UNCHANGED vars
  <2>1. CallBegins(Ui, [op |-> "addBuffer", arg |-> rb])
    BY <1>2, SessionMakes DEF RecordAdd, AddBuffer, UiCalls, Deleting, CallBegins
  <2> QED
    BY <2>1, CallIsStep
<1>3. CASE PlayerStop
  <2>1. CallBegins(Ui, [op |-> "endPlayback", arg |-> NoArg])
    BY <1>3, SessionMakes
       DEF PlayerStop, Offers, PlaybackCall, UiCalls, Deleting, CallBegins
  <2> QED
    BY <2>1, CallIsStep
<1>4. CASE DeleteAudio
  <2>1. CallBegins(Ui, [op |-> "delete", arg |-> NoArg])
    BY <1>4, SessionMakes DEF DeleteAudio, UiCalls, Deleting, CallBegins
  <2> QED
    BY <2>1, CallIsStep
<1>5. CASE RecExit /\ ~UNCHANGED vars
  <2>1. CallBegins(Rec, [op |-> "removeBuffer", arg |-> rb])
    BY <1>5, SessionMakes DEF RecExit, RemoveBuffer, RecCalls, Deleting, CallBegins
  <2> QED
    BY <2>1, CallIsStep
<1>6. CASE PlayOpen
  <2>1. CallBegins(Player, [op |-> "startPlayback", arg |-> NoArg])
    BY <1>6, SessionMakes DEF PlayOpen, PlaybackCall, PlayerCalls, Deleting, CallBegins
  <2> QED
    BY <2>1, CallIsStep
<1>7. CASE PlayWrite
  <2>1. CallBegins(Player, [op |-> "playbackCopyToBuffers", arg |-> NoArg])
    BY <1>7, SessionMakes DEF PlayWrite, Playing, Deleting, CallBegins
  <2> QED
    BY <2>1, CallIsStep
<1>8. CASE PlayExit
  <2>1. CallBegins(Player, [op |-> "endPlayback", arg |-> NoArg])
    BY <1>8, SessionMakes DEF PlayExit, Playing, PlaybackCall, Deleting, CallBegins
  <2> QED
    BY <2>1, CallIsStep
<1> QED
  BY <1>1, <1>2, <1>3, <1>4, <1>5, <1>6, <1>7, <1>8
     DEF SessionStep, NewCommand, UiStep, RecStep, PlayStep, RecordCall, RecorderStop,
         PlayCall, ExportCall, DiscardCall, RecordDone, RecorderJoin, PlayerJoin,
         PlayStart, ExportClear, DeleteDone, RecOpen, RecClose, PlayFiles, PlayFileEnd,
         PlayReturn

SessionOps == {"addBuffer", "removeBuffer", "startPlayback", "endPlayback",
               "playbackCopyToBuffers", "delete"}

\* A call begins at a label of its own.
LEMMA CallEnters ==
  ASSUME IInv, NEW c \in Clients, NEW op \in SessionOps, NEW arg,
         CallBegins(c, [op |-> op, arg |-> arg])
  PROVE  /\ Within(c, op, arg)'
         /\ \A d \in Clients : d # c => cpc'[d] = cpc[d] /\ call'[d] = call[d]
         /\ op # "delete" => destroyed' = destroyed
BY DEF IInv, TypeOK, CallBegins, CallAdd, CallRemove, CallSetDevice, CallPlayback,
       CallPlaybackCopy, CallDelete, Begin, Goto, Within, LabelOf, SessionOps, DtorPCs

LEMMA WithinKept ==
  ASSUME NEW c, cpc'[c] = cpc[c], call'[c] = call[c]
  PROVE  \A op, arg : Within(c, op, arg)' <=> Within(c, op, arg)
BY DEF Within, LabelOf

\* The threads that a step leaves alone.
LEMMA RecLeft ==
  ASSUME RecCalls, UNCHANGED recpc, cpc'[Rec] = cpc[Rec], call'[Rec] = call[Rec]
  PROVE  RecCalls'
BY WithinKept DEF RecCalls

LEMMA PlayerLeft ==
  ASSUME PlayerCalls, UNCHANGED playpc, cpc'[Player] = cpc[Player],
         call'[Player] = call[Player]
  PROVE  PlayerCalls'
BY WithinKept DEF PlayerCalls

LEMMA UiLeft ==
  ASSUME UiCalls, UNCHANGED at, cpc'[Ui] = cpc[Ui], call'[Ui] = call[Ui]
  PROVE  UiCalls'
BY WithinKept DEF UiCalls

LEMMA SessionKeepsCalls ==
  ASSUME IInv, SessionCallsHeld, Alive, SessionStep
  PROVE  SessionCallsHeld'
<1> USE SessionClients DEF SessionCallsHeld, SessionOps
<1>1. CASE NewCommand
  <2>1. CASE PlayerStop
    <3>1. CallBegins(Ui, [op |-> "endPlayback", arg |-> NoArg])
      BY <2>1, SessionMakes
         DEF PlayerStop, Offers, PlaybackCall, UiCalls, Deleting, CallBegins
    <3>2. UiCalls'
      BY <2>1, <3>1, CallEnters DEF PlayerStop, Enter, UiCalls
    <3>3. RecCalls' /\ PlayerCalls'
      BY <2>1, <3>1, CallEnters, RecLeft, PlayerLeft DEF PlayerStop
    <3>4. Deleting'
      BY <2>1, <3>1, CallEnters DEF PlayerStop, Enter, Offers, Deleting
    <3> QED
      BY <3>2, <3>3, <3>4
  <2>2. CASE ~PlayerStop
    <3>1. /\ UNCHANGED <<vars, playpc>> /\ at = "ready"
          /\ at' \in {"add", "recJoin", "restart", "clear"}
          /\ at' = "recJoin" => doing' # "delete"
      BY <1>1, <2>2 DEF NewCommand, RecordCall, RecorderStop, PlayCall, ExportCall,
                        DiscardCall, Offers, Enter
    <3>2. UNCHANGED recpc \/ (recpc' = "open" /\ recpc = "none")
      BY <1>1, <2>2 DEF NewCommand, RecordCall, RecorderStop, PlayCall, ExportCall,
                        DiscardCall, Joinable
    <3>3. UiCalls' /\ RecCalls' /\ PlayerCalls'
      BY <3>1, <3>2, RecLeft, PlayerLeft DEF UiCalls, RecCalls, vars
    <3>4. Deleting'
      BY <3>1, <3>2 DEF Deleting, vars
    <3> QED
      BY <3>3, <3>4
  <2> QED
    BY <2>1, <2>2
<1>2. CASE UiStep
  <2>1. CASE RecordAdd
    <3>1. CASE UNCHANGED vars
      <4>1. UiCalls'
        BY <2>1, <3>1 DEF RecordAdd, UiCalls, Within, vars
      <4>2. RecCalls' /\ PlayerCalls' /\ Deleting'
        BY <2>1, <3>1, RecLeft, PlayerLeft DEF RecordAdd, Deleting, vars
      <4> QED
        BY <4>1, <4>2
    <3>2. CASE ~UNCHANGED vars
      <4>1. CallBegins(Ui, [op |-> "addBuffer", arg |-> rb])
        BY <2>1, <3>2, SessionMakes DEF RecordAdd, AddBuffer, UiCalls, Deleting, CallBegins
      <4>2. UiCalls'
        BY <2>1, <4>1, CallEnters DEF RecordAdd, UiCalls
      <4>3. RecCalls' /\ PlayerCalls'
        BY <2>1, <4>1, CallEnters, RecLeft, PlayerLeft DEF RecordAdd
      <4>4. Deleting'
        BY <2>1, <4>1, CallEnters DEF RecordAdd, Deleting
      <4> QED
        BY <4>2, <4>3, <4>4
    <3> QED
      BY <3>1, <3>2
  <2>2. CASE DeleteAudio
    <3>1. CallBegins(Ui, [op |-> "delete", arg |-> NoArg])
      BY <2>2, SessionMakes DEF DeleteAudio, UiCalls, Deleting, CallBegins
    <3>2. UiCalls'
      BY <2>2, <3>1, CallEnters DEF DeleteAudio, UiCalls
    <3>3. RecCalls' /\ PlayerCalls'
      BY <2>2, <3>1, CallEnters, RecLeft, PlayerLeft DEF DeleteAudio
    <3>4. Deleting'
      BY <2>2, <3>1, CallEnters DEF DeleteAudio, Deleting
    <3> QED
      BY <3>2, <3>3, <3>4
  <2>3. CASE RecorderJoin
    <3>1. /\ UNCHANGED <<vars, playpc>> /\ at = "recJoin" /\ recpc' = "none"
          /\ Returned(recpc)
          /\ at' = "ready" \/ (at' = "deleteAudio" /\ doing = "delete")
      BY <2>3 DEF RecorderJoin, RecorderStopped, Enter, Finish
    <3>2. UiCalls' /\ RecCalls' /\ PlayerCalls'
      BY <3>1, PlayerLeft DEF UiCalls, RecCalls, Returned, vars
    <3>3. Deleting'
      BY <3>1 DEF Deleting, vars
    <3> QED
      BY <3>2, <3>3
  <2>4. CASE PlayerJoin
    <3>1. /\ UNCHANGED <<vars, recpc>> /\ at = "endPlayback" /\ cpc[Ui] = "idle"
          /\ playpc' = "none" /\ Returned(playpc) /\ at' \in {"ready", "recJoin"}
      BY <2>4 DEF PlayerJoin, PlayerStopped, Enter, Finish
    <3>2. UiCalls' /\ RecCalls' /\ PlayerCalls'
      BY <3>1, RecLeft DEF UiCalls, PlayerCalls, Returned, vars
    <3>3. Deleting'
      BY <3>1 DEF Deleting, vars
    <3> QED
      BY <3>2, <3>3
  <2>5. CASE PlayStart
    <3>1. /\ UNCHANGED <<vars, recpc>> /\ at = "restart" /\ at' = "ready"
          /\ playpc' = "start" /\ Returned(playpc)
      BY <2>5 DEF PlayStart, Finish
    <3>2. UiCalls' /\ RecCalls' /\ PlayerCalls'
      BY <3>1, RecLeft DEF UiCalls, PlayerCalls, Returned, vars
    <3>3. Deleting'
      BY <3>1 DEF Deleting, vars
    <3> QED
      BY <3>2, <3>3
  <2>6. CASE RecordDone \/ ExportClear \/ DeleteDone
    <3>1. /\ UNCHANGED <<vars, recpc, playpc>> /\ cpc[Ui] = "idle"
          /\ \/ at \in {"adding", "clear"} /\ at' = "ready"
             \/ at = "deleting" /\ at' = "gone"
      BY <2>6 DEF RecordDone, ExportClear, DeleteDone, Finish, Enter, UiCalls
    <3>2. UiCalls' /\ RecCalls' /\ PlayerCalls'
      BY <3>1, RecLeft, PlayerLeft DEF UiCalls, vars
    <3>3. Deleting'
      BY <3>1 DEF Deleting, vars
    <3> QED
      BY <3>2, <3>3
  <2> QED
    BY <1>2, <2>1, <2>2, <2>3, <2>4, <2>5, <2>6 DEF UiStep
<1>3. CASE RecStep
  <2>1. UNCHANGED <<at, doing, playpc>>
    BY <1>3 DEF RecStep, RecOpen, RecExit, RecClose
  <2>2. recpc # "none" /\ recpc' # "none"
    BY <1>3 DEF RecStep, RecOpen, RecExit, RecClose
  <2>3. CASE RecExit /\ ~UNCHANGED vars
    <3>1. CallBegins(Rec, [op |-> "removeBuffer", arg |-> rb])
      BY <2>3, SessionMakes DEF RecExit, RemoveBuffer, RecCalls, Deleting, CallBegins
    <3>2. RecCalls'
      BY <2>3, <3>1, CallEnters DEF RecExit, RecCalls
    <3>3. UiCalls' /\ PlayerCalls'
      BY <2>1, <3>1, CallEnters, UiLeft, PlayerLeft
    <3>4. Deleting'
      BY <2>1, <2>2, <3>1, CallEnters DEF Deleting
    <3> QED
      BY <3>2, <3>3, <3>4
  <2>4. CASE UNCHANGED vars
    <3>1. cpc[Rec] = "idle" /\ cpc'[Rec] = "idle"
      BY <1>3, <2>4 DEF RecStep, RecOpen, RecExit, RecClose, RecCalls, vars
    <3>2. RecCalls'
      BY <3>1 DEF RecCalls, Within
    <3>3. UiCalls' /\ PlayerCalls'
      BY <2>1, <2>4, UiLeft, PlayerLeft DEF vars
    <3>4. Deleting'
      BY <2>1, <2>2, <2>4 DEF Deleting, vars
    <3> QED
      BY <3>2, <3>3, <3>4
  <2> QED
    BY <1>3, <2>3, <2>4 DEF RecStep, RecOpen, RecClose
<1>4. CASE PlayStep
  <2>1. UNCHANGED <<at, doing, recpc>>
    BY <1>4 DEF PlayStep, PlayOpen, PlayFiles, PlayWrite, PlayFileEnd, PlayExit, PlayReturn
  <2>2. playpc # "none" /\ playpc' # "none"
    BY <1>4 DEF PlayStep, PlayOpen, PlayFiles, PlayWrite, PlayFileEnd, PlayExit,
                PlayReturn, Playing
  <2>3. ASSUME NEW op \in {"startPlayback", "endPlayback", "playbackCopyToBuffers"},
               CallBegins(Player, [op |-> op, arg |-> NoArg]),
               \/ op = "startPlayback" /\ playpc' = "starting"
               \/ op = "endPlayback" /\ playpc' = "ending"
               \/ op = "playbackCopyToBuffers" /\ playpc' = "loop"
        PROVE  SessionCallsHeld'
    <3>1. PlayerCalls'
      BY <2>3, CallEnters DEF PlayerCalls
    <3>2. UiCalls' /\ RecCalls'
      BY <2>1, <2>3, CallEnters, UiLeft, RecLeft
    <3>3. Deleting'
      BY <2>1, <2>2, <2>3, CallEnters DEF Deleting
    <3> QED
      BY <3>1, <3>2, <3>3
  <2>4. CASE PlayOpen
    <3>1. CallBegins(Player, [op |-> "startPlayback", arg |-> NoArg])
      BY <2>4, SessionMakes DEF PlayOpen, PlaybackCall, PlayerCalls, Deleting, CallBegins
    <3> QED
      BY <2>3, <2>4, <3>1 DEF PlayOpen
  <2>5. CASE PlayWrite
    <3>1. CallBegins(Player, [op |-> "playbackCopyToBuffers", arg |-> NoArg])
      BY <2>5, SessionMakes DEF PlayWrite, Playing, Deleting, CallBegins
    <3> QED
      BY <2>3, <2>5, <3>1 DEF PlayWrite, Playing
  <2>6. CASE PlayExit
    <3>1. CallBegins(Player, [op |-> "endPlayback", arg |-> NoArg])
      BY <2>6, SessionMakes DEF PlayExit, Playing, PlaybackCall, Deleting, CallBegins
    <3> QED
      BY <2>3, <2>6, <3>1 DEF PlayExit
  <2>7. CASE UNCHANGED vars
    <3>1. cpc[Player] = "idle" /\ cpc'[Player] = "idle"
      BY <1>4, <2>7 DEF PlayStep, PlayOpen, PlayFiles, PlayWrite, PlayFileEnd, PlayExit,
                        PlayReturn, Playing, PlayerCalls, vars
    <3>2. PlayerCalls'
      BY <3>1 DEF PlayerCalls, Within
    <3>3. UiCalls' /\ RecCalls'
      BY <2>1, <2>7, UiLeft, RecLeft DEF vars
    <3>4. Deleting'
      BY <2>1, <2>2, <2>7 DEF Deleting, vars
    <3> QED
      BY <3>2, <3>3, <3>4
  <2> QED
    BY <1>4, <2>4, <2>5, <2>6, <2>7 DEF PlayStep, PlayFiles, PlayFileEnd, PlayReturn
<1> QED
  BY <1>1, <1>2, <1>3, <1>4 DEF SessionStep

\* What goes on inside the backend.
InsideStep == \/ \E c \in Clients : Inside(c)
              \/ \E t \in Threads : Engine(t)

LEMMA InsideIsBackend == Alive /\ InsideStep => Next
BY DEF InsideStep, Inside, Engine, Alive, Next, Step, Procs

LEMMA InsideKeepsCalls ==
  ASSUME IInv, SessionCallsHeld, InsideStep
  PROVE  SessionCallsHeld'
<1> USE SessionClients DEF SessionCallsHeld
<1>1. UNCHANGED svars
  BY DEF InsideStep, Inside, Engine
<1>2. ASSUME NEW c \in Clients, ClientStep(c)
      PROVE  SessionCallsHeld'
  <2>1. \A d \in {Ui, Rec, Player} :
          /\ cpc[d] = "idle" => cpc'[d] = "idle"
          /\ \A op, arg : Within(d, op, arg) => Within(d, op, arg)'
    BY <1>2, ClientMoves, WithinKept
  <2>2. UNCHANGED destroyed
    BY <1>2, ClientMoves
  <2> QED
    BY <1>1, <2>1, <2>2 DEF UiCalls, RecCalls, PlayerCalls, Deleting
<1>3. ASSUME UNCHANGED <<cpc, call, destroyed>>
      PROVE  SessionCallsHeld'
  BY <1>1, <1>3, UiLeft, RecLeft, PlayerLeft DEF Deleting
<1> QED
  BY <1>2, <1>3, ThreadMovesNone DEF InsideStep, Inside, Engine, UseInvalid

\* The session's threads leave the other clients alone.
LEMMA SessionMovesOnly ==
  ASSUME IInv, SessionStep, NEW c \in Clients \ {Ui, Rec, Player}
  PROVE  cpc'[c] = cpc[c] /\ call'[c] = call[c] /\ iter'[c] = iter[c]
<1>1. CASE UNCHANGED vars
  BY <1>1 DEF vars
<1>2. CASE ~UNCHANGED vars
  <2>1. /\ \E d \in {Ui, Rec, Player} : \E l, k : cpc' = [cpc EXCEPT ![d] = l]
                                               /\ call' = [call EXCEPT ![d] = k]
        /\ \/ UNCHANGED iter
           \/ \E d \in {Rec, Player} : \E x : iter' = [iter EXCEPT ![d] = x]
    BY <1>2 DEF SessionStep, NewCommand, UiStep, RecStep, PlayStep, RecordCall,
         RecorderStop, PlayerStop, PlayCall, ExportCall, DiscardCall, RecordAdd, RecordDone,
         RecorderJoin, PlayerJoin, PlayStart, ExportClear, DeleteAudio, DeleteDone,
         RecOpen, RecExit, RecClose, PlayOpen, PlayFiles, PlayWrite, PlayFileEnd,
         PlayExit, PlayReturn, AddBuffer, RemoveBuffer, PlaybackCall, CallAdd, CallRemove,
         CallPlayback, CallPlaybackCopy, CallDelete, Begin, Goto
  <2>2. c \in Procs
    BY DEF Procs
  <2> QED
    BY <2>1, <2>2 DEF IInv, TypeOK
<1> QED
  BY <1>1, <1>2

\* Nobody begins a call for a client that the session does not have.
LEMMA OthersStayIdle ==
  ASSUME IInv, SessionCallsHeld, NoOtherCalls,
         (Alive /\ SessionStep) \/ InsideStep
  PROVE  NoOtherCalls'
<1> USE SessionClients DEF NoOtherCalls
<1>1. CASE UNCHANGED cpc
  BY <1>1
<1>2. CASE InsideStep /\ ~UNCHANGED cpc
  <2>1. PICK c \in Clients : ClientStep(c)
    BY <1>2, ThreadMovesNone DEF InsideStep, Inside, Engine, UseInvalid
  <2> QED
    BY <2>1, ClientMoves
<1>3. CASE SessionStep
  BY <1>3, SessionMovesOnly
<1> QED
  BY <1>1, <1>2, <1>3

\* The invariant of every session.
SInv == IInv /\ SessionCallsHeld /\ NoOtherCalls

LEMMA InitSInv == SInit => SInv
<1> SUFFICES ASSUME SInit PROVE SInv
  OBVIOUS
<1>1. IInv
  BY InitIInv DEF SInit
<1>2. \A c \in Clients : cpc[c] = "idle"
  BY DEF SInit, Init
<1> QED
  BY <1>1, <1>2, SessionClients
     DEF SInv, NoOtherCalls, SessionCallsHeld, UiCalls, RecCalls, PlayerCalls, Deleting,
         SInit, Init

\* What a step of a session is.
LEMMA SessionCases ==
  ASSUME [SNext]_allVars
  PROVE  \/ UNCHANGED allVars
         \/ Alive /\ SessionStep
         \/ Alive /\ InsideStep
BY DEF SNext, SessionStep, InsideStep

LEMMA SessionStepsBackend ==
  ASSUME SInv, [SNext]_allVars
  PROVE  [Next]_vars
<1>1. CASE UNCHANGED allVars
  BY <1>1 DEF allVars
<1>2. CASE Alive /\ SessionStep
  <2>1. at = "deleteAudio" => \A c \in Clients : cpc[c] = "idle"
    BY DEF SInv, SessionCallsHeld, NoOtherCalls, UiCalls, RecCalls, PlayerCalls, Deleting
  <2> QED
    BY <1>2, <2>1, SessionIsBackend DEF SInv
<1>3. CASE Alive /\ InsideStep
  BY <1>3, InsideIsBackend
<1> QED
  BY <1>1, <1>2, <1>3, SessionCases

LEMMA SInvStep ==
  ASSUME SInv, [SNext]_allVars
  PROVE  SInv'
<1>1. IInv'
  BY SessionStepsBackend, IInvStep DEF SInv
<1>2. CASE UNCHANGED allVars
  BY <1>1, <1>2, SessionClients, UiLeft, RecLeft, PlayerLeft
     DEF SInv, SessionCallsHeld, NoOtherCalls, Deleting, allVars, vars
<1>3. CASE Alive /\ SessionStep
  BY <1>1, <1>3, SessionKeepsCalls, OthersStayIdle DEF SInv
<1>4. CASE Alive /\ InsideStep
  BY <1>1, <1>4, InsideKeepsCalls, OthersStayIdle DEF SInv
<1> QED
  BY <1>2, <1>3, <1>4, SessionCases

\* Who is in a call of the backend, and for whom, in every state of a session.
THEOREM SessionInvariance == SSpec => []SInv
<1>1. SInit => SInv
  BY InitSInv
<1>2. SInv /\ [SNext]_allVars => SInv'
  BY SInvStep
<1> QED
  BY <1>1, <1>2, PTL DEF SSpec

\* Whatever the user commands, Record, Playback and Transport use the backend as
\* its clients may: ~Transport deletes it when nobody else is in a call, and no
\* thread begins a call inside another.
THEOREM SessionUsesBackend == SSpec => Spec
<1>1. SInit => Init
  BY DEF SInit
<1>2. SInv /\ [SNext]_allVars => [Next]_vars
  BY SessionStepsBackend
<1> QED
  BY <1>1, <1>2, SessionInvariance, PTL DEF SSpec, Spec

\* Under a session the backend is one exclusive stream whose stops are barriers,
\* but for the stream of a start that a stop has overtaken.
THEOREM SessionStreamExclusive == SSpec => ImplementsExclusiveStream
BY SessionUsesBackend, ExclusiveStreamImplemented

----------------------------------------------------------------------------
(****************************************************************************)
(* The recorder's thread.                                                   *)
(****************************************************************************)

\* Once record() has returned the recorder runs only in the state RECORDING, in
\* which neither record() nor play() does anything.
RecorderKnown ==
  /\ recpc # "none" =>
       at \in {"add", "adding"} \/ (state = "RECORDING" /\ ~canRecord /\ ~canPlayback)
  /\ at = "restart" => recpc = "none"
  /\ at = "endPlayback" /\ doing = "pause" => recpc = "none"

\* No record() overwrites a thread, and the states follow it: unless a discard
\* forgets the recorder.
LEMMA RecorderKnownStep ==
  ASSUME RecorderKnown, SessionStep, DiscardCall => recpc = "none"
  PROVE  RecorderKnown' /\ UNCHANGED terminated
<1> USE DEF RecorderKnown, Enter, Finish
<1>1. CASE RecordCall
  <2>1. recpc = "none"
    BY <1>1 DEF RecordCall, Offers
  <2> QED
    BY <1>1, <2>1 DEF RecordCall, Joinable
<1>2. CASE RecorderStop
  BY <1>2 DEF RecorderStop, Offers
<1>3. CASE PlayerStop
  BY <1>3 DEF PlayerStop, Offers, PausePlaybackTest, PauseRecordTest
<1>4. CASE PlayCall
  BY <1>4 DEF PlayCall, Offers
<1>5. CASE ExportCall
  BY <1>5 DEF ExportCall, Offers
<1>6. CASE DiscardCall
  BY <1>6 DEF DiscardCall, Offers
<1>7. CASE RecordAdd \/ RecordDone
  BY <1>7 DEF RecordAdd, RecordDone
<1>8. CASE RecorderJoin
  BY <1>8 DEF RecorderJoin, RecorderStopped
<1>9. CASE PlayerJoin
  BY <1>9 DEF PlayerJoin, PlayerStopped
<1>10. CASE PlayStart
  BY <1>10 DEF PlayStart
<1>11. CASE ExportClear \/ DeleteAudio \/ DeleteDone
  BY <1>11 DEF ExportClear, DeleteAudio, DeleteDone
<1>12. CASE RecStep
  BY <1>12 DEF RecStep, RecOpen, RecExit, RecClose
<1>13. CASE PlayStep
  BY <1>13 DEF PlayStep, PlayOpen, PlayFiles, PlayWrite, PlayFileEnd, PlayExit, PlayReturn
<1> QED
  BY <1>1, <1>2, <1>3, <1>4, <1>5, <1>6, <1>7, <1>8, <1>9, <1>10, <1>11, <1>12, <1>13
     DEF SessionStep, NewCommand, UiStep

----------------------------------------------------------------------------
(****************************************************************************)
(* A careful user pauses what plays before anything else, plays only what   *)
(* is there, and exports and discards while nothing runs.                   *)
(****************************************************************************)

\* The hypothesis, which MCTransport's Careful satisfies.
CarefulUser ==
  \A s \in TransportStates, listed \in BOOLEAN :
    /\ <<"stop", s, listed>> \in Offered => s # "PLAYING"
    /\ <<"delete", s, listed>> \in Offered => s # "PLAYING"
    /\ <<"play", s, listed>> \in Offered => listed
    /\ <<"export", s, listed>> \in Offered => s \notin {"RECORDING", "PLAYING"}
    /\ <<"discard", s, listed>> \in Offered => s \notin {"RECORDING", "PLAYING"}

\* The recorder runs, and has not been told to end, exactly while the state says
\* so; ~Transport leaves the state behind.
RecorderRuns ==
  /\ at \in {"add", "adding"} => recpc \in {"open", "loop"} /\ ~endRecord
  /\ state = "RECORDING" =>
       /\ ~canRecord /\ ~canPlayback
       /\ \/ recpc \in {"open", "loop"} /\ ~endRecord
          \/ at \in {"recJoin", "deleteAudio", "deleting", "gone"}

\* The player exists only in the state PLAYING, and never beside a recorder.
PlayerKnown ==
  /\ playpc # "none" => state = "PLAYING" /\ ~canRecord /\ ~canPlayback
  /\ at \in {"add", "adding", "recJoin", "restart", "clear"} => playpc = "none"

\* What it is to play is listed until it has counted the files.
PlayerHasFiles ==
  /\ exportPaths \in Seq(Nat) /\ takes \in Nat
  /\ at = "restart" \/ playpc \in {"start", "starting"} => hasExportPaths

Careful == RecorderKnown /\ RecorderRuns /\ PlayerKnown /\ PlayerHasFiles

LEMMA WhatIsOffered ==
  ASSUME NEW cmd, Offers(cmd)
  PROVE  /\ at = "ready" /\ <<cmd, state, hasExportPaths>> \in Offered
         /\ cmd \in Commands /\ state \in TransportStates /\ hasExportPaths \in BOOLEAN
BY OfferedKnown DEF Offers

LEMMA CarefulSession ==
  ASSUME CarefulUser, Careful, SessionStep
  PROVE  Careful' /\ UNCHANGED terminated
<1> USE DEF Careful
<1>1. DiscardCall => recpc = "none"
  BY WhatIsOffered DEF DiscardCall, CarefulUser, RecorderKnown
<1>2. RecorderKnown' /\ UNCHANGED terminated
  BY <1>1, RecorderKnownStep
<1>3. CASE RecordCall
  <2>1. recpc = "none" /\ playpc = "none"
    BY <1>3 DEF RecordCall, Offers, RecorderKnown, PlayerKnown
  <2>2. RecorderRuns' /\ PlayerKnown' /\ PlayerHasFiles'
    BY <1>3, <2>1 DEF RecordCall, Offers, Enter, Joinable, RecorderRuns, PlayerKnown,
                      PlayerHasFiles, hasExportPaths
  <2> QED
    BY <1>2, <2>2
<1>4. CASE RecorderStop
  <2>1. state # "PLAYING" /\ playpc = "none"
    BY <1>4, WhatIsOffered DEF RecorderStop, PauseRecordTest, CarefulUser, PlayerKnown
  <2>2. RecorderRuns' /\ PlayerKnown' /\ PlayerHasFiles'
    BY <1>4, <2>1 DEF RecorderStop, Offers, Enter, RecorderRuns, PlayerKnown,
                      PlayerHasFiles, hasExportPaths
  <2> QED
    BY <1>2, <2>2
<1>5. CASE PlayerStop
  <2>1. RecorderRuns' /\ PlayerKnown' /\ PlayerHasFiles'
    BY <1>5 DEF PlayerStop, Offers, Enter, RecorderRuns, PlayerKnown, PlayerHasFiles,
                hasExportPaths
  <2> QED
    BY <1>2, <2>1
<1>6. CASE PlayCall
  <2>1. hasExportPaths
    BY <1>6, WhatIsOffered DEF PlayCall, CarefulUser
  <2>2. playpc = "none"
    BY <1>6 DEF PlayCall, PlayerKnown
  <2>3. RecorderRuns' /\ PlayerKnown' /\ PlayerHasFiles'
    BY <1>6, <2>1, <2>2 DEF PlayCall, Offers, Enter, RecorderRuns, PlayerKnown,
                            PlayerHasFiles, hasExportPaths
  <2> QED
    BY <1>2, <2>3
<1>7. CASE ExportCall \/ DiscardCall
  <2>1. state \notin {"RECORDING", "PLAYING"}
    BY <1>7, WhatIsOffered DEF ExportCall, DiscardCall, CarefulUser
  <2>2. playpc = "none"
    BY <2>1 DEF PlayerKnown
  <2>3. RecorderRuns' /\ PlayerKnown' /\ PlayerHasFiles'
    BY <1>7, <2>1, <2>2 DEF ExportCall, DiscardCall, Offers, Enter, RecorderRuns,
                            PlayerKnown, PlayerHasFiles, hasExportPaths
  <2> QED
    BY <1>2, <2>3
<1>8. CASE RecordAdd \/ RecordDone
  <2>1. RecorderRuns' /\ PlayerKnown' /\ PlayerHasFiles'
    BY <1>8 DEF RecordAdd, RecordDone, Finish, RecorderRuns, PlayerKnown, PlayerHasFiles,
                hasExportPaths
  <2> QED
    BY <1>2, <2>1
<1>9. CASE RecorderJoin
  <2>1. RecorderRuns' /\ PlayerKnown' /\ PlayerHasFiles'
    BY <1>9 DEF RecorderJoin, RecorderStopped, Finish, Enter, RecorderRuns, PlayerKnown,
                PlayerHasFiles, hasExportPaths
  <2> QED
    BY <1>2, <2>1
<1>10. CASE PlayerJoin
  <2>1. RecorderRuns' /\ PlayerKnown' /\ PlayerHasFiles'
    BY <1>10 DEF PlayerJoin, PlayerStopped, Finish, Enter, RecorderRuns, PlayerKnown,
                 PlayerHasFiles, hasExportPaths
  <2> QED
    BY <1>2, <2>1
<1>11. CASE PlayStart
  <2>1. RecorderRuns' /\ PlayerKnown' /\ PlayerHasFiles'
    BY <1>11 DEF PlayStart, Finish, RecorderRuns, PlayerKnown, PlayerHasFiles,
                 hasExportPaths
  <2> QED
    BY <1>2, <2>1
<1>12. CASE ExportClear \/ DeleteAudio \/ DeleteDone
  <2>1. << >> \in Seq(Nat)
    BY EmptySeq
  <2>2. RecorderRuns' /\ PlayerKnown' /\ PlayerHasFiles'
    <3>1. CASE ExportClear
      BY <3>1, <2>1 DEF ExportClear, Finish, RecorderRuns, PlayerKnown, PlayerHasFiles,
                        hasExportPaths
    <3>2. CASE DeleteAudio \/ DeleteDone
      BY <3>2 DEF DeleteAudio, DeleteDone, Enter, RecorderRuns, PlayerKnown,
                  PlayerHasFiles, hasExportPaths
    <3> QED
      BY <1>12, <3>1, <3>2
  <2> QED
    BY <1>2, <2>2
<1>13. CASE RecOpen
  <2>1. takes + 1 \in Nat
    BY DEF PlayerHasFiles
  <2>2. Append(exportPaths, takes + 1) \in Seq(Nat) /\ Append(exportPaths, takes + 1) # << >>
    BY <2>1, AppendProperties, EmptySeq DEF PlayerHasFiles
  <2>3. RecorderRuns' /\ PlayerKnown' /\ PlayerHasFiles'
    BY <1>13, <2>2 DEF RecOpen, RecorderRuns, PlayerKnown, PlayerHasFiles, hasExportPaths
  <2> QED
    BY <1>2, <2>3
<1>14. CASE RecExit \/ RecClose
  <2>1. RecorderRuns' /\ PlayerKnown' /\ PlayerHasFiles'
    BY <1>14 DEF RecExit, RecClose, RecorderRuns, PlayerKnown, PlayerHasFiles,
                 hasExportPaths
  <2> QED
    BY <1>2, <2>1
<1>15. CASE PlayStep
  <2>1. /\ UNCHANGED <<at, doing, state, canRecord, canPlayback, recpc, endRecord,
                       exportPaths, takes>>
        /\ playpc # "none" /\ (playpc' = "starting" => playpc \in {"start", "starting"})
        /\ playpc' # "start" \/ playpc = "start"
    BY <1>15 DEF PlayStep, PlayOpen, PlayFiles, PlayWrite, PlayFileEnd, PlayExit,
                 PlayReturn, Playing
  <2>2. RecorderRuns' /\ PlayerKnown' /\ PlayerHasFiles'
    BY <2>1 DEF RecorderRuns, PlayerKnown, PlayerHasFiles, hasExportPaths
  <2> QED
    BY <1>2, <2>2
<1> QED
  BY <1>3, <1>4, <1>5, <1>6, <1>7, <1>8, <1>9, <1>10, <1>11, <1>12, <1>13, <1>14, <1>15
     DEF SessionStep, NewCommand, UiStep, RecStep

LEMMA CarefulStep ==
  ASSUME CarefulUser, Careful, [SNext]_allVars
  PROVE  Careful' /\ UNCHANGED terminated
<1>1. CASE UNCHANGED svars
  BY <1>1 DEF Careful, RecorderKnown, RecorderRuns, PlayerKnown, PlayerHasFiles,
              hasExportPaths
<1> QED
  BY <1>1, CarefulSession, SessionCases DEF allVars, InsideStep, Inside, Engine

----------------------------------------------------------------------------
(****************************************************************************)
(* What the backend does for a careful user.  The recorder's buffer is the  *)
(* only sink; capture runs for the recorder and playback for the player,    *)
(* each between its own start and its own end.                              *)
(****************************************************************************)
Listing ==
  \/ at = "adding" /\ cpc[Ui] # "push"
  \/ recpc \in {"open", "loop"} /\ at \notin {"add", "adding"}
  \/ recpc = "removing" /\ cpc[Rec] # "idle"

Recording ==
  \/ at = "adding" /\ cpc[Ui] \in {"insert", "idle"}
  \/ recpc \in {"open", "loop"} /\ at \notin {"add", "adding"}
  \/ recpc = "removing" /\ cpc[Rec] \in {"removeTest", "endWait", "endStore"}

Unrecording == recpc = "removing" /\ cpc[Rec] = "endJoin"

PlayingBack ==
  \/ playpc = "starting" /\ cpc[Player] \in {"insert", "idle"}
  \/ playpc = "loop"
  \/ playpc = "ending" /\ cpc[Player] # "idle"

SinksExact ==
  /\ sinks["cbs"] = << >>
  /\ sinks["rbs"] = IF Listing THEN <<rb>> ELSE << >>

CaptureOwned == threads["in"] # {} => Recording \/ Unrecording
PlaybackOwned == threads["out"] # {} \/ ~ended["out"] => PlayingBack

\* The system lists an input device whenever it is asked.
CanCapture == Inputs # {} /\ "enumerate" \notin MayFail
CaptureServes == CanCapture /\ Recording => threads["in"] # {}

Owned == SinksExact /\ CaptureOwned /\ PlaybackOwned /\ CaptureServes

\* Only capture copies in an engine thread.
CopiersCapture == \A t \in Threads : tpc[t] = "copy" => t \in threads["in"]

\* The recorder joins the capture thread that its session has started: no stop
\* overtakes a start of capture.
CaptureJoined == threads["in"] \cap loose = {}

\* All that is known of a careful user's session.
CarefulInv ==
  /\ SInv /\ NoPhantomStream /\ CopiersCapture
  /\ Careful /\ Owned /\ CaptureJoined

LEMMA CopiersStep ==
  ASSUME IInv, CopiersCapture, [Next]_vars
  PROVE  CopiersCapture'
<1> USE DEF CopiersCapture
<1>1. ASSUME UNCHANGED <<tpc, threads>> PROVE CopiersCapture'
  BY <1>1
<1>2. ASSUME NEW c \in Clients, StartTest(c) PROVE CopiersCapture'
  <2>1. CASE FallThrough(c)
    BY <2>1 DEF FallThrough
  <2>2. CASE Spawn(c)
    <3>1. SideOf(c) \in Sides
      BY DEF SideOf, Sides
    <3> QED
      BY <2>2, <3>1 DEF Spawn, FreeNames, IInv, TypeOK, Sides
  <2> QED
    BY <1>2, <2>1, <2>2 DEF StartTest
<1>3. ASSUME NEW c \in Clients, Call(c) \/ ClientStep(c), ~StartTest(c)
      PROVE  UNCHANGED <<tpc, threads>>
  BY <1>3 DEF Call, CallAdd, CallRemove, CallSetDevice, CallPlayback, CallPlaybackCopy,
       CallDelete, ClientStep, Push, AddTest, RemoveTest, Erase, StartWait, EndWait, Wait,
       Insert, Trample, EndStore, EndJoin, Release, Install, ReadFlag, DtorStore,
       DtorJoinIn, DtorJoinOut, CopyOne, CopyClientDone
<1>4. ASSUME NEW s \in Sides, NEW t \in threads[s],
             GiveUp(s, t) \/ OpenRefused(s, t) \/ LoopExit(s, t)
      PROVE  CopiersCapture'
  <2>1. /\ tpc' = [tpc EXCEPT ![t] = "free"]
        /\ threads' = [threads EXCEPT ![s] = @ \ {t}]
    BY <1>4 DEF GiveUp, OpenRefused, LoopExit, Returns
  <2>2. t \in Threads /\ (\A u \in Threads : u # t => tpc'[u] = tpc[u]) /\ tpc'[t] = "free"
    BY <2>1 DEF IInv, TypeOK, Sides
  <2>3. \A u \in threads["in"] : u # t => u \in threads'["in"]
    BY <2>1 DEF IInv, TypeOK, Sides
  <2> QED
    BY <2>2, <2>3
<1>5. ASSUME NEW s \in Sides, NEW t \in threads[s],
             \/ Prepare(s, t) \/ Publish(s, t) \/ PureCall(s, t) \/ Open(s, t)
             \/ OpenFails(s, t) \/ LoopBody(s, t)
      PROVE  CopiersCapture'
  BY <1>5 DEF Prepare, Publish, PureCall, Open, OpenFails, LoopBody, IInv, TypeOK, Sides
<1>6. ASSUME NEW t \in Threads, CopyOne(t) \/ CopyNextList(t) \/ CopyThreadDone(t)
      PROVE  CopiersCapture'
  BY <1>6 DEF CopyOne, CopyNextList, CopyThreadDone, IInv, TypeOK
<1> QED
  BY <1>1, <1>2, <1>3, <1>4, <1>5, <1>6
     DEF Next, Step, ThreadStep, UseInvalid, vars

LEMMA OwnedKept ==
  ASSUME Owned, UNCHANGED <<sinks, threads, ended>>,
         Listing' <=> Listing, Recording' <=> Recording,
         Unrecording => Unrecording', PlayingBack => PlayingBack'
  PROVE  Owned'
BY DEF Owned, SinksExact, CaptureOwned, PlaybackOwned, CaptureServes

\* Which threads exist together.
LEMMA OneAtATime ==
  ASSUME CarefulInv
  PROVE  /\ at \in {"add", "adding"} => recpc \in {"open", "loop"} /\ playpc = "none"
         /\ recpc # "none" => playpc = "none"
         /\ at = "add" => cpc[Ui] = "idle" /\ ~Listing
BY DEF CarefulInv, Careful, RecorderKnown, RecorderRuns, PlayerKnown, SInv,
       SessionCallsHeld, UiCalls, Listing

LEMMA OwnedSession ==
  ASSUME CarefulUser, CarefulInv, Alive, SessionStep
  PROVE  Owned'
<1> USE SessionClients DEF CarefulInv, SInv, SessionCallsHeld
<1>1. CASE NewCommand
  <2>1. at = "ready"
    BY <1>1 DEF NewCommand, RecordCall, RecorderStop, PlayerStop, PlayCall, ExportCall,
                DiscardCall, Offers
  <2>2. at' # "adding" /\ UNCHANGED <<sinks, threads, ended, playpc>>
        /\ cpc'[Rec] = cpc[Rec] /\ cpc'[Player] = cpc[Player]
    BY <1>1 DEF NewCommand, RecordCall, RecorderStop, PlayerStop, PlayCall, ExportCall,
                DiscardCall, Enter, PlaybackCall, CallPlayback, Begin, Goto, vars,
                IInv, TypeOK
  <2>3. \/ recpc' = recpc /\ at' # "add"
        \/ recpc = "none" /\ recpc' = "open" /\ at' = "add"
    BY <1>1 DEF NewCommand, RecordCall, RecorderStop, PlayerStop, PlayCall, ExportCall,
                DiscardCall, Enter, Joinable, Offers, Careful, RecorderKnown
  <2> QED
    BY <2>1, <2>2, <2>3, OwnedKept DEF Listing, Recording, Unrecording, PlayingBack
<1>2. CASE UiStep
  <2>1. CASE RecordAdd
    <3>1. sinks["rbs"] = << >>
      BY <2>1, OneAtATime DEF RecordAdd, Owned, SinksExact
    <3>2. rb \notin ElementsOf("rbs")
      BY <3>1 DEF ElementsOf
    <3>3. /\ cpc' = [cpc EXCEPT ![Ui] = "push"] /\ at = "add" /\ at' = "adding"
          /\ UNCHANGED <<sinks, threads, ended, recpc, playpc>>
      BY <2>1, <3>2 DEF RecordAdd, AddBuffer, CallAdd, Begin, Goto
    <3>4. recpc \in {"open", "loop"} /\ cpc'[Ui] = "push" /\ cpc'[Player] = cpc[Player]
      BY <3>3, OneAtATime DEF IInv, TypeOK
    <3> QED
      BY <3>3, <3>4, OwnedKept DEF Listing, Recording, Unrecording, PlayingBack
  <2>2. CASE RecordDone
    <3>1. recpc \in {"open", "loop"}
      BY <2>2, OneAtATime DEF RecordDone
    <3> QED
      BY <2>2, <3>1, OwnedKept
         DEF RecordDone, Finish, Listing, Recording, Unrecording, PlayingBack, vars
  <2>3. CASE RecorderJoin \/ PlayerJoin \/ PlayStart
    <3>1. /\ UNCHANGED vars /\ at \notin {"add", "adding"} /\ at' \notin {"add", "adding"}
          /\ recpc' = recpc \/ (Returned(recpc) /\ recpc' = "none")
          /\ playpc' = playpc \/ (Returned(playpc) /\ playpc' \in {"none", "start"})
      BY <2>3 DEF RecorderJoin, RecorderStopped, PlayerJoin, PlayerStopped, PlayStart,
                  Enter, Finish
    <3> QED
      BY <3>1, OwnedKept
         DEF Returned, Listing, Recording, Unrecording, PlayingBack, vars
  <2>4. CASE ExportClear \/ DeleteAudio \/ DeleteDone
    <3>1. /\ at \notin {"add", "adding"} /\ at' \notin {"add", "adding"}
          /\ UNCHANGED <<sinks, threads, ended, recpc, playpc>>
          /\ cpc'[Rec] = cpc[Rec] /\ cpc'[Player] = cpc[Player]
      BY <2>4 DEF ExportClear, DeleteAudio, DeleteDone, Enter, Finish, CallDelete, Begin,
                  Goto, vars, IInv, TypeOK
    <3> QED
      BY <3>1, OwnedKept DEF Listing, Recording, Unrecording, PlayingBack
  <2> QED
    BY <1>2, <2>1, <2>2, <2>3, <2>4 DEF UiStep
<1>3. CASE RecStep
  <2>1. UNCHANGED <<at, playpc>>
    BY <1>3 DEF RecStep, RecOpen, RecExit, RecClose
  <2>2. CASE RecOpen
    BY <2>1, <2>2, OwnedKept
       DEF RecOpen, Listing, Recording, Unrecording, PlayingBack, vars
  <2>3. CASE RecExit
    <3>1. at \notin {"add", "adding"} /\ recpc = "loop" /\ recpc' = "removing"
      BY <2>3 DEF RecExit, Careful, RecorderRuns
    <3>2. sinks["rbs"] = <<rb>>
      BY <3>1 DEF Owned, SinksExact, Listing
    <3>3. rb \in ElementsOf("rbs")
      BY <3>2 DEF ElementsOf
    <3>4. /\ cpc' = [cpc EXCEPT ![Rec] = "removeTest"]
          /\ UNCHANGED <<sinks, threads, ended>>
      BY <2>3, <3>3 DEF RecExit, RemoveBuffer, CallRemove, Begin, Goto
    <3>5. cpc'[Rec] = "removeTest" /\ cpc'[Player] = cpc[Player]
      BY <3>4 DEF IInv, TypeOK
    <3> QED
      BY <2>1, <3>1, <3>4, <3>5, OwnedKept
         DEF Listing, Recording, Unrecording, PlayingBack
  <2>4. CASE RecClose
    BY <2>1, <2>4, OwnedKept
       DEF RecClose, Listing, Recording, Unrecording, PlayingBack, vars
  <2> QED
    BY <1>3, <2>2, <2>3, <2>4 DEF RecStep
<1>4. CASE PlayStep
  <2>1. UNCHANGED <<at, recpc, sinks, threads, ended>>
        /\ cpc'[Ui] = cpc[Ui] /\ cpc'[Rec] = cpc[Rec]
    BY <1>4 DEF PlayStep, PlayOpen, PlayFiles, PlayWrite, PlayFileEnd, PlayExit,
                PlayReturn, PlaybackCall, CallPlayback, CallPlaybackCopy, Begin, Goto,
                vars, IInv, TypeOK
  <2>2. PlayingBack => PlayingBack'
    <3>1. CASE PlayOpen
      BY <3>1 DEF PlayOpen, PlayingBack
    <3>2. CASE PlayFiles
      BY <3>2 DEF PlayFiles, PlayingBack, Careful, PlayerHasFiles
    <3>3. CASE PlayWrite \/ PlayFileEnd
      BY <3>3 DEF PlayWrite, PlayFileEnd, Playing, PlayingBack
    <3>4. CASE PlayExit
      <4>1. cpc'[Player] = "endWait" /\ playpc' = "ending"
        BY <3>4 DEF PlayExit, PlaybackCall, CallPlayback, Begin, Goto, IInv, TypeOK
      <4> QED
        BY <4>1 DEF PlayingBack
    <3>5. CASE PlayReturn
      BY <3>5 DEF PlayReturn, PlayingBack
    <3> QED
      BY <1>4, <3>1, <3>2, <3>3, <3>4, <3>5 DEF PlayStep
  <2> QED
    BY <2>1, <2>2, OwnedKept DEF Listing, Recording, Unrecording
<1> QED
  BY <1>1, <1>2, <1>3, <1>4 DEF SessionStep

\* Who is in which call, and at which of its labels.
LEMMA WhoMoves ==
  ASSUME CarefulInv, NEW c \in Clients, cpc[c] # "idle"
  PROVE  \/ c = Ui /\ at = "adding" /\ Within(c, "addBuffer", rb)
         \/ c = Ui /\ at = "endPlayback" /\ Within(c, "endPlayback", NoArg)
         \/ c = Ui /\ at = "deleting" /\ Within(c, "delete", NoArg)
         \/ c = Rec /\ recpc = "removing" /\ Within(c, "removeBuffer", rb)
         \/ c = Player /\ playpc = "starting" /\ Within(c, "startPlayback", NoArg)
         \/ c = Player /\ playpc = "loop" /\ Within(c, "playbackCopyToBuffers", NoArg)
         \/ c = Player /\ playpc = "ending" /\ Within(c, "endPlayback", NoArg)
BY SessionClients
   DEF CarefulInv, SInv, SessionCallsHeld, NoOtherCalls, UiCalls, RecCalls, PlayerCalls

\* The recorder's buffer comes and goes.
LEMMA OwnedPush ==
  ASSUME CarefulInv, NEW c \in Clients, Push(c), UNCHANGED svars
  PROVE  Owned'
<1> USE SessionClients DEF CarefulInv, SInv
<1>1. /\ cpc[c] = "push" /\ cpc' = [cpc EXCEPT ![c] = "addTest"]
      /\ sinks' = [sinks EXCEPT ![ListOf(c)] = Append(@, call[c].arg)]
      /\ UNCHANGED <<threads, ended>>
  BY DEF Push, Goto
<1>2. c = Ui /\ at = "adding" /\ ListOf(c) = "rbs" /\ call[c].arg = rb
  BY <1>1, WhoMoves DEF Within, LabelOf, DtorPCs, ListOf
<1>3. recpc \in {"open", "loop"}
  BY <1>2, OneAtATime
<1>4. sinks["rbs"] = << >> /\ sinks["cbs"] = << >>
  BY <1>1, <1>2, <1>3 DEF Owned, SinksExact, Listing
<1>5. sinks'["rbs"] = <<rb>> /\ sinks'["cbs"] = << >>
  BY <1>1, <1>2, <1>4 DEF IInv, TypeOK, Lists
<1>6. cpc'[Ui] = "addTest" /\ cpc'[Rec] = cpc[Rec] /\ cpc'[Player] = cpc[Player]
  BY <1>1, <1>2 DEF IInv, TypeOK
<1>7. Listing'
  BY <1>2, <1>6 DEF Listing
<1>8. /\ ~Recording' /\ ~Recording /\ (Unrecording' <=> Unrecording)
      /\ PlayingBack' <=> PlayingBack
  BY <1>1, <1>2, <1>3, <1>6 DEF Recording, Unrecording, PlayingBack
<1> QED
  BY <1>1, <1>5, <1>7, <1>8
     DEF Owned, SinksExact, CaptureOwned, PlaybackOwned, CaptureServes

LEMMA WithoutLast ==
  ASSUME NEW x, NEW i \in 1 .. Len(<<x>>)
  PROVE  Without(<<x>>, i) = << >>
<1> DEFINE seq == <<x>>
<1>1. seq \in Seq({x}) /\ Len(seq) = 1 /\ i \in 1 .. Len(seq)
  OBVIOUS
<1> HIDE DEF seq
<1>2. Without(seq, i) \in Seq({x})
  BY <1>1, WithoutSeq
<1>3. Len(Without(seq, i)) = Len(seq) - 1
  BY <1>1, WithoutLen
<1>4. Len(Without(seq, i)) = 0
  BY <1>1, <1>3
<1> QED
  BY <1>2, <1>4, EmptySeq DEF seq

LEMMA OwnedErase ==
  ASSUME CarefulInv, NEW c \in Clients, Erase(c), UNCHANGED svars
  PROVE  Owned'
<1> USE SessionClients DEF CarefulInv, SInv
<1>1. /\ cpc[c] = "erase" /\ cpc' = [cpc EXCEPT ![c] = "idle"]
      /\ UNCHANGED <<threads, ended>>
  BY DEF Erase, Goto
<1>2. c = Rec /\ recpc = "removing" /\ ListOf(c) = "rbs"
  BY <1>1, WhoMoves DEF Within, LabelOf, DtorPCs, ListOf
<1>3. at \notin {"add", "adding"}
  BY <1>2, OneAtATime
<1>4. sinks["rbs"] = <<rb>> /\ sinks["cbs"] = << >>
  BY <1>1, <1>2 DEF Owned, SinksExact, Listing
<1>5. PICK i \in 1 .. Len(<<rb>>) : sinks' = [sinks EXCEPT !["rbs"] = Without(@, i)]
  BY <1>2, <1>4 DEF Erase
<1>6. sinks'["rbs"] = << >> /\ sinks'["cbs"] = << >>
  BY <1>4, <1>5, WithoutLast DEF IInv, TypeOK, Lists
<1>7. cpc'[Rec] = "idle" /\ cpc'[Ui] = cpc[Ui] /\ cpc'[Player] = cpc[Player]
  BY <1>1, <1>2 DEF IInv, TypeOK
<1>8. /\ ~Listing' /\ ~Recording' /\ ~Recording /\ ~Unrecording' /\ ~Unrecording
      /\ PlayingBack' <=> PlayingBack
  BY <1>1, <1>2, <1>3, <1>7 DEF Listing, Recording, Unrecording, PlayingBack
<1> QED
  BY <1>1, <1>6, <1>8
     DEF Owned, SinksExact, CaptureOwned, PlaybackOwned, CaptureServes

\* The recorder's buffer is the only sink.
LEMMA OwnedTests ==
  ASSUME CarefulInv, NEW c \in Clients, AddTest(c) \/ RemoveTest(c), UNCHANGED svars
  PROVE  Owned'
<1> USE SessionClients DEF CarefulInv, SInv
<1>1. cpc[c] \in {"addTest", "removeTest"} /\ UNCHANGED <<sinks, threads, ended>>
  BY DEF AddTest, RemoveTest
<1>2. \/ c = Ui /\ at = "adding" /\ cpc[c] = "addTest"
      \/ c = Rec /\ recpc = "removing" /\ cpc[c] = "removeTest"
  BY <1>1, WhoMoves DEF Within, LabelOf, DtorPCs
<1>3. sinks["rbs"] = <<rb>> /\ sinks["cbs"] = << >>
  BY <1>1, <1>2 DEF Owned, SinksExact, Listing
<1>4. ListOf(c) = "rbs" /\ OtherList(ListOf(c)) = "cbs"
  BY <1>1, WhoMoves DEF Within, LabelOf, DtorPCs, ListOf, OtherList
<1>5. OnlySink(c)
  <2>1. Len(<<rb>>) = 1 /\ Len(<< >>) = 0
    OBVIOUS
  <2> QED
    BY <1>3, <1>4, <2>1, Zenon DEF OnlySink
<1>6. cpc' = [cpc EXCEPT ![c] = IF cpc[c] = "addTest" THEN "startWait" ELSE "endWait"]
  BY <1>5 DEF AddTest, RemoveTest, Goto
<1>7. \A d \in {Ui, Rec, Player} :
        cpc'[d] = IF d # c THEN cpc[d]
                  ELSE IF cpc[c] = "addTest" THEN "startWait" ELSE "endWait"
  BY <1>6 DEF IInv, TypeOK
<1>8. at = "adding" => recpc \in {"open", "loop"}
  BY OneAtATime
<1> QED
  BY <1>1, <1>2, <1>7, <1>8, OwnedKept DEF Listing, Recording, Unrecording, PlayingBack

\* A start of capture finds neither capture nor playback, and so does not fall
\* through.
LEMMA OwnedStart ==
  ASSUME CarefulInv, NEW c \in Clients, StartTest(c), UNCHANGED svars
  PROVE  Owned'
<1> USE SessionClients DEF CarefulInv, SInv
<1>1. cpc[c] = "startTest" /\ UNCHANGED <<sinks, ended>>
  BY DEF StartTest
<1>2. PICK l \in {"insert", "idle"} : cpc' = [cpc EXCEPT ![c] = l]
  BY DEF StartTest, Spawn, FallThrough, Goto
<1>2a. \A d \in {Ui, Rec, Player} : cpc'[d] = IF d = c THEN l ELSE cpc[d]
  BY <1>2 DEF IInv, TypeOK
<1>3. CASE c = Ui
  <2>1. at = "adding" /\ SideOf(c) = "in"
    BY <1>1, <1>3, WhoMoves DEF Within, LabelOf, DtorPCs, SideOf
  <2>2. recpc \in {"open", "loop"} /\ playpc = "none"
    BY <2>1, OneAtATime
  <2>3. threads["in"] = {} /\ threads["out"] = {} /\ ended["out"]
    BY <1>1, <1>3, <2>1, <2>2
       DEF Owned, CaptureOwned, PlaybackOwned, Recording, Unrecording, PlayingBack
  <2>4. ended["in"]
    BY <2>3 DEF NoPhantomStream, Sides
  <2>5. Spawn(c)
    BY <2>1, <2>3, <2>4 DEF StartTest, FallThrough, Sides
  <2>6. threads'["in"] # {} /\ threads'["out"] = {}
    BY <2>1, <2>3, <2>5 DEF Spawn, IInv, TypeOK, Sides
  <2>7. Recording' /\ ~PlayingBack /\ (Listing' <=> Listing) /\ Listing
    BY <1>1, <1>2a, <1>3, <2>1, <2>2 DEF Recording, PlayingBack, Listing
  <2> QED
    BY <1>1, <2>3, <2>6, <2>7
       DEF Owned, SinksExact, CaptureOwned, PlaybackOwned, CaptureServes
<1>4. CASE c = Player
  <2>1. playpc = "starting" /\ SideOf(c) = "out"
    BY <1>1, <1>4, WhoMoves DEF Within, LabelOf, DtorPCs, SideOf
  <2>2. threads'["in"] = threads["in"]
    BY <2>1 DEF StartTest, Spawn, FallThrough, IInv, TypeOK, Sides
  <2>3. PlayingBack' /\ (Listing' <=> Listing) /\ (Recording' <=> Recording)
        /\ (Unrecording' <=> Unrecording)
    BY <1>2a, <1>4, <2>1 DEF PlayingBack, Listing, Recording, Unrecording
  <2> QED
    BY <1>1, <2>2, <2>3
       DEF Owned, SinksExact, CaptureOwned, PlaybackOwned, CaptureServes
<1> QED
  BY <1>1, <1>3, <1>4, WhoMoves DEF Within, LabelOf, DtorPCs

\* While the recorder or the player ends its stream nobody is starting one, so
\* that every thread is in its vector; Transport's own stop of the playback may
\* overtake the player.
LEMMA NoStartBeside ==
  ASSUME CarefulInv, NEW c \in Clients, cpc[c] \in {"endStore", "endJoin"}, c # Ui
  PROVE  Joinees(SideOf(c)) = threads[SideOf(c)]
<1> USE SessionClients DEF CarefulInv, SInv
<1>1. \/ c = Rec /\ recpc = "removing"
      \/ c = Player /\ playpc = "ending"
  BY WhoMoves DEF Within, LabelOf, DtorPCs
<1>2. ASSUME NEW d \in Clients PROVE cpc[d] # "insert"
  <2> SUFFICES ASSUME cpc[d] = "insert" PROVE FALSE
    OBVIOUS
  <2>1. \/ d = Ui /\ at = "adding"
        \/ d = Player /\ playpc = "starting"
    BY WhoMoves DEF Within, LabelOf, DtorPCs
  <2> QED
    BY <1>1, <2>1, OneAtATime
<1>3. \A d \in Clients : making[d] = NoThread
  BY <1>2 DEF IInv, Protocol, StartsKept
<1>4. SideOf(c) \in Sides
  BY DEF SideOf, Sides
<1>5. \A t \in threads[SideOf(c)] : t \in Threads /\ t # NoThread
  BY <1>4, ThreadsDistinct DEF IInv, TypeOK
<1> QED
  BY <1>3, <1>5 DEF Joinees

\* The ends: of capture by the recorder, of playback by the player or by Transport.
LEMMA OwnedEnd ==
  ASSUME CarefulInv, NEW c \in Clients, EndStore(c) \/ EndJoin(c), UNCHANGED svars
  PROVE  Owned'
<1> USE SessionClients DEF CarefulInv, SInv
<1>1. /\ cpc[c] \in {"endStore", "endJoin"} /\ UNCHANGED <<sinks, threads, call>>
      /\ \A s \in Sides : ended[s] => ended'[s]
  BY DEF EndStore, EndJoin, IInv, TypeOK
<1>2. \/ c = Ui /\ at = "endPlayback" /\ SideOf(c) = "out" /\ AfterEnd(c) = "idle"
      \/ /\ c = Rec /\ recpc = "removing" /\ SideOf(c) = "in"
         /\ AfterEnd(c) = "erase"
      \/ c = Player /\ playpc = "ending" /\ SideOf(c) = "out" /\ AfterEnd(c) = "idle"
  BY <1>1, WhoMoves DEF Within, LabelOf, DtorPCs, SideOf, AfterEnd
<1>3. \A d \in {Ui, Rec, Player} :
        cpc'[d] = IF d # c THEN cpc[d]
                  ELSE IF EndStore(c) THEN "endJoin" ELSE AfterEnd(c)
  BY DEF EndStore, EndJoin, Goto, IInv, TypeOK
<1>4. EndJoin(c) => cpc[c] = "endJoin" /\ UNCHANGED ended
  BY DEF EndJoin
<1>4a. EndJoin(c) /\ c # Ui => threads[SideOf(c)] = {}
  BY <1>1, NoStartBeside DEF EndJoin
<1>5. EndStore(c) => cpc[c] = "endStore"
  BY DEF EndStore
<1>6. EndJoin(c) => ended[SideOf(c)]
  BY <1>4 DEF IInv, Protocol, StopIsSeen
<1>7. "in" \in Sides /\ "out" \in Sides
  BY DEF Sides
<1>8. at = "adding" => recpc \in {"open", "loop"}
  BY OneAtATime
<1>9. /\ Listing' <=> Listing
      /\ Recording' => Recording
  BY <1>1, <1>2, <1>3, <1>8 DEF Listing, Recording
<1>10. SinksExact' /\ CaptureServes'
  BY <1>1, <1>9 DEF Owned, SinksExact, CaptureServes
<1>11. CaptureOwned'
  BY <1>1, <1>2, <1>3, <1>4, <1>4a, <1>5, <1>8, SessionClients
     DEF Owned, CaptureOwned, Recording, Unrecording
<1>12. PlaybackOwned'
  <2>1. CASE c = Player /\ EndJoin(c)
    BY <1>1, <1>2, <1>4, <1>4a, <1>6, <1>7, <2>1, SessionClients DEF PlaybackOwned
  <2>2. CASE ~(c = Player /\ EndJoin(c))
    <3>1. PlayingBack => PlayingBack'
      BY <1>2, <1>3, <2>2 DEF PlayingBack
    <3> QED
      BY <1>1, <1>7, <3>1 DEF Owned, PlaybackOwned
  <2> QED
    BY <2>1, <2>2
<1> QED
  BY <1>10, <1>11, <1>12 DEF Owned

\* Everything else that a client does.
LEMMA OwnedWaits ==
  ASSUME CarefulInv, NEW c \in Clients,
         StartWait(c) \/ EndWait(c) \/ Insert(c) \/ CopyClientDone(c), UNCHANGED svars
  PROVE  Owned'
<1> USE SessionClients DEF CarefulInv, SInv
<1>1. cpc[c] \in {"startWait", "endWait", "copy", "insert"}
      /\ UNCHANGED <<sinks, threads, ended>>
  BY DEF StartWait, EndWait, Wait, CopyClientDone, Insert
<1>2. \A d \in {Ui, Rec, Player} :
        cpc'[d] = IF d # c THEN cpc[d]
                  ELSE IF cpc[c] = "startWait" THEN "startTest"
                  ELSE IF cpc[c] = "endWait" THEN "endStore" ELSE "idle"
  BY DEF StartWait, EndWait, Wait, CopyClientDone, Insert, Goto, IInv, TypeOK
<1>3. \/ c = Ui /\ at = "adding" /\ cpc[c] \in {"startWait", "insert"}
      \/ c = Ui /\ at = "endPlayback"
      \/ c = Rec /\ recpc = "removing" /\ cpc[c] = "endWait"
      \/ c = Player /\ playpc = "starting" /\ cpc[c] \in {"startWait", "insert"}
      \/ c = Player /\ playpc = "loop"
      \/ c = Player /\ playpc = "ending" /\ cpc[c] = "endWait"
  BY <1>1, WhoMoves DEF Within, LabelOf, DtorPCs
<1> QED
  BY <1>1, <1>2, <1>3, OwnedKept DEF Listing, Recording, Unrecording, PlayingBack

LEMMA OwnedDestructor ==
  ASSUME CarefulInv, NEW c \in Clients,
         DtorStore(c) \/ DtorJoinIn(c) \/ DtorJoinOut(c), UNCHANGED svars
  PROVE  Owned'
<1> USE SessionClients DEF CarefulInv, SInv
<1>1. /\ cpc[c] \in DtorPCs /\ UNCHANGED <<sinks, threads>>
      /\ \A s \in Sides : ended[s] => ended'[s]
      /\ \A d \in Clients : d # c => cpc'[d] = cpc[d]
  BY DEF DtorStore, DtorJoinIn, DtorJoinOut, Goto, IInv, TypeOK, DtorPCs
<1>2. c = Ui /\ at = "deleting"
  BY <1>1, WhoMoves DEF Within, LabelOf, DtorPCs
<1>3. recpc = "none" /\ playpc = "none"
  BY <1>2 DEF SessionCallsHeld, Deleting
<1>4. "in" \in Sides /\ "out" \in Sides
  BY DEF Sides
<1> QED
  BY <1>1, <1>2, <1>3, <1>4
     DEF Owned, SinksExact, CaptureOwned, PlaybackOwned, CaptureServes, Listing, Recording,
         Unrecording, PlayingBack

LEMMA OwnedClient ==
  ASSUME CarefulInv, NEW c \in Clients, ClientStep(c), UNCHANGED svars
  PROVE  Owned'
<1>1. CASE CopyOne(c)
  BY <1>1, OwnedKept
     DEF CopyOne, CarefulInv, Listing, Recording, Unrecording, PlayingBack
<1>1a. CASE Trample(c)
  BY <1>1a, OwnedKept
     DEF Trample, CarefulInv, Listing, Recording, Unrecording, PlayingBack
<1>2. ~(Release(c) \/ Install(c) \/ ReadFlag(c))
  BY WhoMoves DEF Release, Install, ReadFlag, Within, LabelOf, DtorPCs
<1> QED
  BY <1>1, <1>1a, <1>2, OwnedPush, OwnedErase, OwnedTests, OwnedStart, OwnedEnd,
     OwnedWaits, OwnedDestructor DEF ClientStep

\* A capture thread that serves the recorder neither gives up nor leaves.
LEMMA CaptureStays ==
  ASSUME CarefulInv, CanCapture, Recording, ~destroyed, NEW t \in threads["in"],
         GiveUp("in", t) \/ LoopExit("in", t)
  PROVE  FALSE
<1> USE SessionClients DEF CarefulInv, SInv
<1>1. Listing
  BY DEF Recording, Listing
<1>2. sinks["rbs"] = <<rb>>
  BY <1>1 DEF Owned, SinksExact
<1>3. sinks["rbs"] # << >>
  BY <1>2
<1>4. ~GiveUp("in", t)
  BY <1>3 DEF GiveUp, CanCapture, Devices, Lists
<1>5. LoopExit("in", t) /\ tpc[t] = "loop" /\ ended["in"]
  BY <1>4 DEF LoopExit
<1>6. PICK c \in Clients : cpc[c] = "endJoin" /\ SideOf(c) = "in"
  BY <1>5 DEF CaptureJoined, IInv, Protocol, StreamingFlagged, Streaming, Sides
<1>7. c = Rec /\ recpc = "removing"
  BY <1>6, WhoMoves DEF Within, LabelOf, DtorPCs, SideOf
<1>8. at \notin {"add", "adding"}
  BY <1>7, OneAtATime
<1> QED
  BY <1>6, <1>7, <1>8 DEF Recording

LEMMA OwnedThread ==
  ASSUME CarefulInv, NEW t \in Threads, ThreadStep(t), UNCHANGED svars
  PROVE  Owned'
<1> USE DEF CarefulInv, SInv
<1>1. UNCHANGED <<cpc, sinks, destroyed>>
  BY ThreadMovesNone
<1>2. /\ Listing' <=> Listing
      /\ Recording' <=> Recording
      /\ Unrecording' <=> Unrecording
      /\ PlayingBack' <=> PlayingBack
  BY <1>1 DEF Listing, Recording, Unrecording, PlayingBack
<1>3. CASE UNCHANGED <<threads, ended>>
  BY <1>1, <1>2, <1>3, OwnedKept
<1>4. ASSUME NEW s \in Sides, t \in threads[s], Publish(s, t)
      PROVE  Owned'
  <2>1. UNCHANGED threads /\ ended' = [ended EXCEPT ![s] = FALSE]
    BY <1>4 DEF Publish
  <2>2. PlaybackOwned'
    BY <1>2, <1>4, <2>1 DEF Owned, PlaybackOwned, IInv, TypeOK, Sides
  <2> QED
    BY <1>1, <1>2, <2>1, <2>2 DEF Owned, SinksExact, CaptureOwned, CaptureServes
<1>5. ASSUME NEW s \in Sides, t \in threads[s],
             GiveUp(s, t) \/ OpenRefused(s, t) \/ LoopExit(s, t)
      PROVE  Owned'
  <2>1. UNCHANGED ended /\ threads' = [threads EXCEPT ![s] = @ \ {t}]
    BY <1>5 DEF GiveUp, OpenRefused, LoopExit, Returns
  <2>2. /\ threads'["in"] \subseteq threads["in"]
        /\ threads'["out"] \subseteq threads["out"]
    BY <2>1 DEF IInv, TypeOK, Sides
  <2>3. SinksExact' /\ CaptureOwned' /\ PlaybackOwned'
    BY <1>1, <1>2, <2>1, <2>2 DEF Owned, SinksExact, CaptureOwned, PlaybackOwned
  <2>4. ASSUME CanCapture, Recording PROVE s = "out"
    <3>1. ~destroyed
      BY <2>4 DEF SessionCallsHeld, Deleting, Recording
    <3>2. ASSUME s = "in" PROVE FALSE
      <4>1. t \in threads["in"] /\ (GiveUp("in", t) \/ LoopExit("in", t))
        BY <1>5, <3>2 DEF OpenRefused
      <4> QED
        BY <2>4, <3>1, <4>1, CaptureStays
    <3> QED
      BY <3>2 DEF Sides
  <2>5. CaptureServes'
    <3> SUFFICES ASSUME CanCapture, Recording' PROVE threads'["in"] # {}
      BY DEF CaptureServes, CanCapture
    <3>1. s = "out" /\ threads["in"] # {}
      BY <1>2, <2>4 DEF Owned, CaptureServes
    <3> QED
      BY <2>1, <3>1 DEF IInv, TypeOK, Sides
  <2> QED
    BY <2>3, <2>5 DEF Owned
<1> QED
  BY <1>3, <1>4, <1>5
     DEF ThreadStep, Prepare, PureCall, Open, OpenFails, LoopBody, CopyOne, CopyNextList,
         CopyThreadDone

\* Only EndJoin leaves threads behind, and only playback's.
LEMMA JoinedStep ==
  ASSUME CarefulInv, [Next]_vars
  PROVE  CaptureJoined'
<1> USE DEF CarefulInv, SInv
<1>0. "in" \in Sides /\ "out" \in Sides
  BY DEF Sides
<1>1. ASSUME NEW c \in Clients, EndJoin(c) PROVE CaptureJoined'
  <2>1. /\ loose' = loose \cup threads[SideOf(c)] /\ UNCHANGED threads
        /\ cpc[c] = "endJoin" /\ Joinees(SideOf(c)) = {}
    BY <1>1 DEF EndJoin
  <2>2. CASE c = Ui
    <3>1. SideOf(c) = "out"
      BY <2>1, <2>2, WhoMoves, SessionClients DEF Within, LabelOf, DtorPCs, SideOf
    <3>2. threads["in"] \cap threads["out"] = {}
      BY <1>0 DEF IInv, Protocol, ThreadsKept
    <3> QED
      BY <2>1, <3>1, <3>2 DEF CaptureJoined
  <2>3. CASE c # Ui
    <3>1. threads[SideOf(c)] = {}
      BY <2>1, <2>3, NoStartBeside
    <3> QED
      BY <2>1, <3>1 DEF CaptureJoined
  <2> QED
    BY <2>2, <2>3
<1>2. ASSUME NEW c \in Clients, StartTest(c) PROVE CaptureJoined'
  <2>1. UNCHANGED loose
    BY <1>2 DEF StartTest
  <2>2. CASE Spawn(c)
    <3>1. PICK t \in FreeNames : threads' = [threads EXCEPT ![SideOf(c)] = @ \cup {t}]
      BY <2>2 DEF Spawn
    <3>2. t \notin loose
      BY DEF FreeNames, IInv, Protocol, StartsKept, Streaming
    <3>3. threads'["in"] \subseteq threads["in"] \cup {t}
      BY <1>0, <3>1 DEF IInv, TypeOK
    <3> QED
      BY <2>1, <3>2, <3>3 DEF CaptureJoined
  <2>3. CASE FallThrough(c)
    BY <2>1, <2>3 DEF FallThrough, CaptureJoined
  <2> QED
    BY <1>2, <2>2, <2>3 DEF StartTest
<1>3. ASSUME NEW c \in Clients, Call(c) \/ ClientStep(c), ~StartTest(c), ~EndJoin(c)
      PROVE  UNCHANGED <<threads, loose>>
  BY <1>3 DEF Call, CallAdd, CallRemove, CallSetDevice, CallPlayback, CallPlaybackCopy,
       CallDelete, ClientStep, Push, AddTest, RemoveTest, Erase, StartWait, EndWait, Wait,
       Insert, Trample, EndStore, Release, Install, ReadFlag, DtorStore, DtorJoinIn,
       DtorJoinOut, CopyOne, CopyClientDone
<1>4. ASSUME NEW s \in Sides, NEW t \in threads[s],
             GiveUp(s, t) \/ OpenRefused(s, t) \/ LoopExit(s, t)
      PROVE  CaptureJoined'
  <2>1. loose' = loose \ {t} /\ threads' = [threads EXCEPT ![s] = @ \ {t}]
    BY <1>4 DEF GiveUp, OpenRefused, LoopExit, Returns
  <2>2. threads'["in"] \subseteq threads["in"]
    BY <1>0, <2>1 DEF IInv, TypeOK
  <2> QED
    BY <2>1, <2>2 DEF CaptureJoined
<1>5. ASSUME NEW s \in Sides, NEW t \in threads[s],
             \/ Prepare(s, t) \/ Publish(s, t) \/ PureCall(s, t) \/ Open(s, t)
             \/ OpenFails(s, t) \/ LoopBody(s, t)
      PROVE  UNCHANGED <<threads, loose>>
  BY <1>5 DEF Prepare, Publish, PureCall, Open, OpenFails, LoopBody
<1>6. ASSUME NEW t \in Threads, CopyOne(t) \/ CopyNextList(t) \/ CopyThreadDone(t)
      PROVE  UNCHANGED <<threads, loose>>
  BY <1>6 DEF CopyOne, CopyNextList, CopyThreadDone
<1>7. ASSUME UNCHANGED <<threads, loose>> PROVE CaptureJoined'
  BY <1>7 DEF CaptureJoined
<1> QED
  BY <1>1, <1>2, <1>3, <1>4, <1>5, <1>6, <1>7
     DEF Next, Step, ThreadStep, UseInvalid, vars

----------------------------------------------------------------------------
(****************************************************************************)
(* The theorems about a careful user's session.                             *)
(****************************************************************************)
LEMMA CarefulInvInit == SInit => CarefulInv
<1> SUFFICES ASSUME SInit PROVE CarefulInv
  OBVIOUS
<1>1. SInv /\ NoPhantomStream /\ CopiersCapture
  BY InitSInv DEF SInit, Init, NoPhantomStream, CopiersCapture
<1>2. Careful
  BY EmptySeq DEF SInit, Careful, RecorderKnown, RecorderRuns, PlayerKnown, PlayerHasFiles
<1>3. Owned /\ CaptureJoined
  BY DEF SInit, Init, Owned, SinksExact, CaptureOwned, PlaybackOwned, CaptureServes,
         Listing, Recording, Unrecording, PlayingBack, CaptureJoined, Lists, Sides
<1> QED
  BY <1>1, <1>2, <1>3 DEF CarefulInv

LEMMA CarefulInvStep ==
  ASSUME CarefulUser, CarefulInv, [SNext]_allVars
  PROVE  CarefulInv'
<1> USE DEF CarefulInv
<1>1. SInv' /\ Careful'
  BY SInvStep, CarefulStep
<1>2. NoPhantomStream' /\ CopiersCapture' /\ CaptureJoined'
  BY SessionStepsBackend, PhantomStep, CopiersStep, JoinedStep DEF SInv
<1>3. CASE UNCHANGED allVars
  BY <1>1, <1>2, <1>3, OwnedKept
     DEF Listing, Recording, Unrecording, PlayingBack, allVars, vars
<1>4. CASE Alive /\ SessionStep
  BY <1>1, <1>2, <1>4, OwnedSession
<1>5. CASE Alive /\ InsideStep
  <2>1. ASSUME UNCHANGED <<cpc, sinks, threads, ended, svars>> PROVE Owned'
    BY <2>1, OwnedKept DEF Listing, Recording, Unrecording, PlayingBack
  <2>2. Owned'
    BY <1>5, <2>1, OwnedClient, OwnedThread DEF InsideStep, Inside, Engine, UseInvalid
  <2> QED
    BY <1>1, <1>2, <2>2
<1> QED
  BY <1>1, <1>2, <1>3, <1>4, <1>5, SessionCases

\* What holds throughout a careful user's session: who registered the buffer, who
\* plays, and that no stop has come too early to join the capture.
THEOREM CarefulInvariance == ASSUME CarefulUser PROVE SSpec => []CarefulInv
<1>1. SInit => CarefulInv
  BY CarefulInvInit
<1>2. CarefulInv /\ [SNext]_allVars => CarefulInv'
  BY CarefulInvStep
<1> QED
  BY <1>1, <1>2, PTL DEF SSpec

\* The capture thread and the player never copy into the recorder's ring buffer
\* at the same time.
THEOREM OneProducerAlways == ASSUME CarefulUser PROVE SSpec => []OneProducer
<1>1. CarefulInv => OneProducer
  <2> SUFFICES ASSUME CarefulInv, NEW p \in Procs, NEW q \in Procs, Copying(p), Copying(q)
               PROVE  p = q
    BY DEF OneProducer
  <2> USE SessionClients DEF CarefulInv, SInv
  <2>1. \A c \in Clients : Copying(c) => c = Player /\ playpc = "loop"
    BY WhoMoves DEF Copying, Within, LabelOf, DtorPCs
  <2>2. \A t \in Procs : Copying(t) /\ t \notin Clients => t \in threads["in"]
    BY DEF Copying, Procs, CopiersCapture
  <2>3. playpc = "loop" => threads["in"] = {}
    BY OneAtATime DEF Owned, CaptureOwned, Recording, Unrecording
  <2>4. \A t, u \in threads["in"] : t = u
    BY DEF CaptureJoined, IInv, Protocol, OneStream, Sides
  <2> QED
    BY <2>1, <2>2, <2>3, <2>4
<1> QED
  BY <1>1, CarefulInvariance, PTL

\* Once nothing is on its way in the backend, a session in the state RECORDING has
\* a capture stream, if the system lists an input device.
THEOREM RecordingAlwaysCaptures ==
  ASSUME CarefulUser, CanCapture
  PROVE  SSpec => []RecordingCaptures
<1>1. CarefulInv => RecordingCaptures
  <2> SUFFICES ASSUME CarefulInv, at = "ready", Quiet, state = "RECORDING"
               PROVE  ~ended["in"]
    BY DEF RecordingCaptures
  <2> USE DEF CarefulInv, SInv
  <2>1. Recording
    BY DEF Careful, RecorderRuns, Recording
  <2>2. PICK t \in threads["in"] : TRUE
    BY <2>1 DEF Owned, CaptureServes
  <2>3. Streaming(t)
    BY <2>2 DEF Quiet, IInv, TypeOK, Protocol, ThreadsKept, Streaming, ThreadPCs, Sides
  <2>4. ~destroyed /\ \A c \in Clients : cpc[c] # "endJoin"
    BY DEF Quiet
  <2> QED
    BY <2>2, <2>3, <2>4 DEF CaptureJoined, IInv, Protocol, StreamingFlagged, Sides
<1> QED
  BY <1>1, CarefulInvariance, PTL

----------------------------------------------------------------------------
(****************************************************************************)
(* Takes.                                                                   *)
(****************************************************************************)

\* The user exports to formats that are written.
Exportable == \A extension \in Formats : FormatValid(extension)

Fates == {"none", "open", "complete", "saved", "deleted"}

\* The open take is listed, and so is every complete one; between an export or a
\* discard and the clearing of the list no take is complete.
TakesHeld ==
  /\ takes \in 0 .. MaxTakes /\ fate \in [1 .. MaxTakes -> Fates]
  /\ recpc = "open" => takes < MaxTakes
  /\ recpc \in {"loop", "removing"} => takes >= 1 /\ takes \in Listed
  /\ TakesKept
  /\ at = "clear" =>
       recpc = "none" /\ \A k \in 1 .. takes : fate[k] # "complete"

LEMMA ListedGrows ==
  ASSUME exportPaths \in Seq(Nat), NEW k \in Nat, exportPaths' = Append(exportPaths, k)
  PROVE  Listed \subseteq Listed' /\ k \in Listed'
<1> DEFINE n == Len(exportPaths)
<1>1. /\ n \in Nat /\ Len(exportPaths') = n + 1
      /\ \A i \in 1 .. n : exportPaths'[i] = exportPaths[i]
      /\ exportPaths'[n + 1] = k
  BY LenProperties, AppendProperties
<1>2. Listed = {exportPaths[i] : i \in 1 .. n}
  BY DEF Listed
<1>3. Listed' = {exportPaths'[i] : i \in 1 .. (n + 1)}
  BY <1>1 DEF Listed
<1> HIDE DEF n
<1>4. \A i \in 1 .. n : i \in 1 .. (n + 1)
  BY <1>1
<1>5. n + 1 \in 1 .. (n + 1)
  BY <1>1
<1> QED
  BY <1>1, <1>2, <1>3, <1>4, <1>5

LEMMA TakesStep ==
  ASSUME CarefulUser, Exportable, Careful, TakesHeld, SessionStep
  PROVE  TakesHeld'
<1> USE TakesBounded DEF TakesHeld, TakesKept, Careful
<1>1. CASE RecordCall
  <2>1. recpc = "none" /\ recpc' = "open" /\ at' = "add"
    BY <1>1 DEF RecordCall, Offers, RecorderKnown, Joinable, Enter
  <2> QED
    BY <1>1, <2>1 DEF RecordCall, Listed
<1>2. CASE RecorderStop \/ PlayerStop \/ PlayCall
  BY <1>2 DEF RecorderStop, PlayerStop, PlayCall, Enter, Listed
<1>3. CASE ExportCall
  <2>1. state # "RECORDING" /\ at = "ready"
    BY <1>3, WhatIsOffered DEF ExportCall, CarefulUser
  <2>2. recpc = "none"
    BY <2>1 DEF RecorderKnown
  <2>3. PICK extension \in Formats :
          fate' = [k \in 1 .. MaxTakes |->
                     IF FormatValid(extension) /\ k \in Listed /\ fate[k] = "complete"
                     THEN "saved" ELSE fate[k]]
    BY <1>3 DEF ExportCall
  <2>4. FormatValid(extension)
    BY DEF Exportable
  <2>5. UNCHANGED <<takes, exportPaths, recpc>> /\ Listed' = Listed
    BY <1>3 DEF ExportCall, Listed
  <2>6. \A k \in 1 .. takes : k \in 1 .. MaxTakes
    OBVIOUS
  <2>7. \A k \in 1 .. takes : fate'[k] # "complete"
    BY <2>3, <2>4, <2>6
  <2>8. fate' \in [1 .. MaxTakes -> Fates]
    BY <2>3 DEF Fates
  <2> QED
    BY <2>2, <2>5, <2>7, <2>8
<1>4. CASE DiscardCall
  <2>1. state # "RECORDING" /\ at = "ready"
    BY <1>4, WhatIsOffered DEF DiscardCall, CarefulUser
  <2>2. recpc = "none"
    BY <2>1 DEF RecorderKnown
  <2>3. fate' = [k \in 1 .. MaxTakes |-> IF k \in Listed THEN "deleted" ELSE fate[k]]
    BY <1>4 DEF DiscardCall
  <2>4. UNCHANGED <<takes, exportPaths, recpc>> /\ Listed' = Listed
    BY <1>4 DEF DiscardCall, Listed
  <2>5. \A k \in 1 .. takes : k \in 1 .. MaxTakes
    OBVIOUS
  <2>6. \A k \in 1 .. takes : fate'[k] # "complete"
    BY <2>3, <2>5
  <2>7. fate' \in [1 .. MaxTakes -> Fates]
    BY <2>3 DEF Fates
  <2> QED
    BY <2>2, <2>4, <2>6, <2>7
<1>5. CASE ExportClear
  BY <1>5 DEF ExportClear, Finish, Listed
<1>6. CASE RecordAdd \/ RecordDone \/ PlayStart \/ DeleteAudio \/ DeleteDone
  BY <1>6 DEF RecordAdd, RecordDone, PlayStart, DeleteAudio, DeleteDone, Finish, Enter,
              Listed
<1>7. CASE RecorderJoin
  BY <1>7 DEF RecorderJoin, RecorderStopped, Finish, Enter, Listed
<1>8. CASE PlayerJoin
  BY <1>8 DEF PlayerJoin, PlayerStopped, Finish, Enter, Listed
<1>9. CASE RecOpen
  <2>1. /\ takes' = takes + 1 /\ takes < MaxTakes
        /\ fate' = [fate EXCEPT ![takes + 1] = "open"]
        /\ recpc' = "loop" /\ at # "clear" /\ UNCHANGED at
    BY <1>9 DEF RecOpen
  <2>2. Listed \subseteq Listed' /\ takes + 1 \in Listed'
    BY <1>9, ListedGrows DEF RecOpen, PlayerHasFiles
  <2>3. takes' \in 0 .. MaxTakes /\ takes' >= 1 /\ takes + 1 \in 1 .. MaxTakes
    BY <2>1
  <2>4. fate' \in [1 .. MaxTakes -> Fates] /\ fate'[takes + 1] = "open"
        /\ \A k \in 1 .. takes : fate'[k] = fate[k]
    BY <2>1, <2>3 DEF Fates
  <2>5. ASSUME NEW k \in 1 .. takes', fate'[k] = "complete" PROVE k \in Listed'
    <3>1. k # takes + 1
      BY <2>4, <2>5
    <3>2. k \in 1 .. takes
      BY <2>1, <3>1
    <3> QED
      BY <2>2, <2>4, <2>5, <3>2
  <2> QED
    BY <2>1, <2>2, <2>3, <2>4, <2>5
<1>10. CASE RecExit
  BY <1>10 DEF RecExit, Listed
<1>11. CASE RecClose
  <2>1. /\ UNCHANGED <<takes, at, exportPaths>> /\ recpc' = "done" /\ at # "clear"
        /\ takes \in Listed /\ takes \in 1 .. MaxTakes
        /\ fate' = [fate EXCEPT ![takes] =
                      IF fate[takes] = "open" THEN "complete" ELSE fate[takes]]
    BY <1>11 DEF RecClose
  <2>2. (IF fate[takes] = "open" THEN "complete" ELSE fate[takes]) \in Fates
    BY <2>1 DEF Fates
  <2>3. fate' \in [1 .. MaxTakes -> Fates]
    BY <2>1, <2>2
  <2>4. \A k \in 1 .. takes : k # takes => fate'[k] = fate[k]
    BY <2>1
  <2>5. Listed' = Listed
    BY <2>1 DEF Listed
  <2> QED
    BY <2>1, <2>3, <2>4, <2>5
<1>12. CASE PlayStep
  BY <1>12 DEF PlayStep, PlayOpen, PlayFiles, PlayWrite, PlayFileEnd, PlayExit, PlayReturn,
               Listed
<1> QED
  BY <1>1, <1>2, <1>3, <1>4, <1>5, <1>6, <1>7, <1>8, <1>9, <1>10, <1>11, <1>12
     DEF SessionStep, NewCommand, UiStep, RecStep

\* No take of a careful user is lost: what is complete is listed until it is
\* exported or discarded.
THEOREM TakesAlwaysKept == ASSUME CarefulUser, Exportable PROVE SSpec => []TakesKept
<1>1. SInit => TakesHeld
  BY TakesBounded DEF SInit, TakesHeld, TakesKept, Fates
<1>2. CarefulInv /\ TakesHeld /\ [SNext]_allVars => TakesHeld'
  <2>1. ASSUME TakesHeld, UNCHANGED svars PROVE TakesHeld'
    BY <2>1 DEF TakesHeld, TakesKept, Listed
  <2> QED
    BY <2>1, SessionCases, TakesStep DEF CarefulInv, allVars, InsideStep, Inside, Engine
<1>3. TakesHeld => TakesKept
  BY DEF TakesHeld
<1> QED
  BY <1>1, <1>2, <1>3, CarefulInvariance, PTL DEF SSpec
=============================================================================
