----------------------------- MODULE MCTransport -----------------------------
(* Small instances of Transport for TLC: what the interface offers, and when. *)
EXTENDS Transport, TLC

CONSTANTS t1, t2, mic, out1

MCClients == {Ui, Rec, Player}
MCThreads == {t1, t2}
MCBuffers == {rb}
MCInputs == {mic}
MCOutputs == {out1}
Empty == {}

K(op, arg) == [op |-> op, arg |-> arg]
SessionCalls ==
  Ui :> {K("addBuffer", rb), K("endPlayback", NoArg), K("delete", NoArg)}
  @@ Rec :> {K("removeBuffer", rb)}
  @@ Player :> {K("startPlayback", NoArg), K("endPlayback", NoArg),
                K("playbackCopyToBuffers", NoArg)}

\* A user who pauses what plays before anything else, plays only what is there,
\* and exports and discards while nothing runs.
Careful ==
  ({"record", "pause"} \X TransportStates \X BOOLEAN)
  \cup ({"stop", "delete"} \X (TransportStates \ {"PLAYING"}) \X BOOLEAN)
  \cup ({"play"} \X TransportStates \X {TRUE})
  \cup ({"export", "discard"} \X {"READY", "STOPPED", "PAUSED"} \X BOOLEAN)

Wav == {"wav"}
=============================================================================
