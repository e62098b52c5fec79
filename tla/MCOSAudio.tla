------------------------------ MODULE MCOSAudio ------------------------------
(* Small instances of OSAudio for TLC: who calls what. *)
EXTENDS OSAudio, TLC

CONSTANTS ui, vis, t1, t2, b1, b2, cb1, mic, out1

K(op, arg) == [op |-> op, arg |-> arg]
AddRemove(b) == {K("addBuffer", b), K("removeBuffer", b)}
CbAddRemove(f) == {K("addCallback", f), K("removeCallback", f)}
PlayCalls == {K("startPlayback", NoArg), K("endPlayback", NoArg)}
Devs == {K("setActiveInputDevice", mic), K("setActiveOutputDevice", out1)}

MCInputs == {mic}
MCOutputs == {out1}
Everything == FailureKinds
Nothing == {}
ThreadSymmetry == Permutations({t1, t2})

\* The recorder's and player's calls, the device switches and the destruction
\* from one thread, a callback's from another, and endPlayback from both: every
\* public method that starts or stops a thread at once.
AllCalls ==
  (ui :> AddRemove(b1) \cup PlayCalls \cup Devs \cup {K("delete", NoArg)})
  @@ (vis :> CbAddRemove(cb1) \cup {K("endPlayback", NoArg)})

\* One thread registers a second buffer while the first one is captured.
TwoBuffers == ui :> AddRemove(b1) \cup AddRemove(b2)
=============================================================================
