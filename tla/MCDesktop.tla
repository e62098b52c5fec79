------------------------------ MODULE MCDesktop ------------------------------
(* A small instance of Desktop for TLC. *)
EXTENDS Desktop, TLC

CONSTANTS t1, t2, mic, out1, v1, v2

MCVisThreads == {v1, v2}
MCClients == {Ui, Rec, Player} \cup MCVisThreads
MCThreads == {t1, t2}
MCBuffers == {rb, visrb}
MCInputs == {mic}
MCOutputs == {out1}
Empty == {}

K(op, arg) == [op |-> op, arg |-> arg]
DesktopCalls ==
  Ui :> {K("addBuffer", rb), K("endPlayback", NoArg), K("delete", NoArg)}
  @@ Rec :> {K("removeBuffer", rb)}
  @@ Player :> {K("startPlayback", NoArg), K("endPlayback", NoArg),
                K("playbackCopyToBuffers", NoArg)}
  @@ [v \in MCVisThreads |-> {K("addBuffer", visrb), K("removeBuffer", visrb)}]

\* The panel alone decides what may be clicked.
Anything == Commands \X TransportStates \X BOOLEAN
ThreadSymmetry == Permutations({t1, t2})
Wav == {"wav"}
=============================================================================
