---------------------------- MODULE MCAudioDriver ----------------------------
(****************************************************************************)
(* Instances of AudioDriver for TLC.                                        *)
(****************************************************************************)
EXTENDS AudioDriver

\* A value behind the state lock.
Format == {[id |-> mInputStreamObjectID, sel |-> "VirtualFormat", scope |-> "Global"]}

\* A rate through the device, a stream switched off, and a property that may not
\* be set, of the object that stays when the device goes.
ThreeSettings ==
  {[id |-> mObjectID, sel |-> "NominalSampleRate", scope |-> "Global"],
   [id |-> mInputStreamObjectID, sel |-> "IsActive", scope |-> "Global"],
   [id |-> kAudioObjectPlugInObject, sel |-> "DeviceList", scope |-> "Global"]}

CONSTANTS io, ask

\* Two processes do IO; one of them changes settings, the other asks.
IOAndQuestions ==
  [c \in {io, ask} |->
     IF c = io THEN {"StartIO", "StopIO", "DoIOOperation", "SetPropertyData"}
     ELSE {"StartIO", "StopIO", "GetPropertyData"}]
=============================================================================
