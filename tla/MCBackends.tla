----------------------------- MODULE MCBackends -----------------------------
(* A small instance of Backends for TLC: speakers, a microphone and a headset. *)
EXTENDS Backends

CONSTANTS speakers, mic, headset, hulaloop

MCGear == {speakers, mic, headset, hulaloop}
MCDoes == [g \in MCGear |-> IF g = speakers THEN {"out"}
                            ELSE IF g = mic THEN {"in"} ELSE {"in", "out"}]
MCOwn == {hulaloop}
MCMachines == {<<mic, speakers, hulaloop>>, <<headset>>, << >>}
AllPlatforms == {"Windows", "OSX", "Linux"}
WindowsOnly == {"Windows"}
Panel == {"gui"}
Both == {"gui", "cli"}
=============================================================================
