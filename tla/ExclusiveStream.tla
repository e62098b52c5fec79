--------------------------- MODULE ExclusiveStream ---------------------------
(****************************************************************************)
(* What the audio backend promises its callers, without threads, flags or   *)
(* semaphores: one device stream at a time, either capture ("in") or        *)
(* playback ("out"), and a stop that is a barrier.  While a stop is being   *)
(* served nothing opens, and it is confirmed only when the stream of its    *)
(* side is closed; except that a stop may overtake the call that started    *)
(* the stream, which then closes whenever it will.  OSAudio is shown to     *)
(* implement this specification.                                            *)
(****************************************************************************)
VARIABLES
  stream,    \* the side whose stream is open, or "none"
  stopping,  \* the side a stop is being served for: {} or {side}
  starting,  \* has the call that started the stream not returned yet?
  stray,     \* the sides with a stream open that a stop has overtaken
  over       \* the process has terminated

avars == <<stream, stopping, starting, stray, over>>
StreamSides == {"in", "out"}

StreamInit ==
  stream = "none" /\ stopping = {} /\ starting = FALSE /\ stray = {} /\ over = FALSE

OpenStream(s) ==
  /\ stream = "none" /\ stopping = {}
  /\ stream' = s /\ starting' \in BOOLEAN
  /\ UNCHANGED <<stopping, stray>>

StartReturns ==
  /\ starting /\ starting' = FALSE
  /\ UNCHANGED <<stream, stopping, stray>>

\* The stream closes because it was told to, or by itself.
CloseStream ==
  /\ stream # "none"
  /\ stream' = "none" /\ starting' = FALSE
  /\ UNCHANGED <<stopping, stray>>

RequestStop(s) ==
  /\ stopping = {}
  /\ stopping' = {s}
  /\ UNCHANGED <<stream, starting, stray>>

ConfirmStop(s) ==
  /\ stopping = {s} /\ stream # s
  /\ stopping' = {}
  /\ UNCHANGED <<stream, starting, stray>>

\* The stop is confirmed before the start has returned.
OvertakeStart(s) ==
  /\ stopping = {s} /\ stream = s /\ starting
  /\ stopping' = {}
  /\ stream' = "none" /\ starting' = FALSE /\ stray' = stray \cup {s}

StrayCloses(s) ==
  /\ s \in stray /\ stray' = stray \ {s}
  /\ UNCHANGED <<stream, stopping, starting>>

ProcessEnds == over' = TRUE /\ UNCHANGED <<stream, stopping, starting, stray>>

StreamStep ==
  \/ \E s \in StreamSides : \/ OpenStream(s) \/ RequestStop(s) \/ ConfirmStop(s)
                            \/ OvertakeStart(s) \/ StrayCloses(s)
  \/ CloseStream \/ StartReturns

StreamNext == ~over /\ (ProcessEnds \/ (StreamStep /\ UNCHANGED over))

StreamSpec == StreamInit /\ [][StreamNext]_avars

\* A stream that a stop is being served for does close, and the stop is confirmed.
StreamFairness ==
  /\ WF_avars(~over /\ stream \in stopping /\ CloseStream /\ UNCHANGED over)
  /\ WF_avars(~over /\ (\E s \in StreamSides : ConfirmStop(s)) /\ UNCHANGED over)

StreamFairSpec == StreamSpec /\ StreamFairness
=============================================================================
