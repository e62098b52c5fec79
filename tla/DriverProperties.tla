--------------------------- MODULE DriverProperties ---------------------------
(****************************************************************************)
(* The property tables of the macOS audio driver                            *)
(* (src/src/audio/OSXDriver/HulaLoop/Plug-In).  The system's audio server   *)
(* (the HAL) knows the driver only through four questions it asks of an     *)
(* object ID about a property address: does it have it, may it be set, how  *)
(* many bytes is it, what is it.  Each question is a table of its own in    *)
(* the code, one switch per class of object, and nothing but care keeps the *)
(* four in step.                                                            *)
(*                                                                          *)
(* Three C++ objects answer for five IDs: the plug-in for its own, and the  *)
(* device for itself and its three streams.  A property address is a        *)
(* selector and a scope.  A reply is the sequence of numbers written; words *)
(* and strings no property here looks at are the number 0, so that the      *)
(* length of a reply is still the number of items its size counts.          *)
(****************************************************************************)
EXTENDS Integers, Sequences, FiniteSets

kAudioObjectPlugInObject == 1
mObjectID == 32                 \* the device: the first ID of the object map
mInputStreamObjectID == 33
mOutputStreamObjectID == 34
mOutputStreamObjectID2 == 35

OutputStreams == {mOutputStreamObjectID, mOutputStreamObjectID2}
Streams == {mInputStreamObjectID} \cup OutputStreams
ObjectIDs == {kAudioObjectPlugInObject, mObjectID} \cup Streams

Scopes == {"Global", "Input", "Output"}
ChannelsPerStream == 2
SupportedRates == {44100, 48000}

----------------------------------------------------------------------------
(* Selectors, by the type of what they hold.                                *)

ObjectSelectors == {"BaseClass", "Class", "Owner", "OwnedObjects"}

PlugInSelectors ==
  {"Manufacturer", "DeviceList", "TranslateUIDToDevice", "ResourceBundle"}

StringSelectors == {"Name", "Manufacturer", "DeviceUID", "ModelUID",
                    "ResourceBundle"}

\* Selectors of the device that exist in every scope.
DeviceSelectors ==
  {"Name", "Manufacturer", "DeviceUID", "ModelUID", "TransportType",
   "RelatedDevices", "ClockDomain", "DeviceIsAlive", "DeviceIsRunning",
   "ControlList", "NominalSampleRate", "AvailableNominalSampleRates",
   "IsHidden", "ZeroTimeStampPeriod", "Streams"}

\* Selectors of one side of the device: absent from the global scope.
SideSelectors ==
  {"Latency", "SafetyOffset", "PreferredChannelsForStereo",
   "PreferredChannelLayout", "CanBeDefaultDevice",
   "CanBeDefaultSystemDevice"}

StreamSelectors ==
  {"IsActive", "Direction", "TerminalType", "StartingChannel", "Latency",
   "VirtualFormat", "PhysicalFormat", "AvailableVirtualFormats",
   "AvailablePhysicalFormats"}

FormatSelectors == {"VirtualFormat", "PhysicalFormat"}
RateLists == {"AvailableNominalSampleRates", "AvailableVirtualFormats",
              "AvailablePhysicalFormats"}
Selectors == ObjectSelectors \cup PlugInSelectors \cup DeviceSelectors
               \cup SideSelectors \cup StreamSelectors

\* The bytes of one item of a selector, sizeof of its C type.
ItemBytes(sel) ==
  CASE sel \in StringSelectors -> 8                  \* CFStringRef
    [] sel = "NominalSampleRate" -> 8                \* Float64
    [] sel = "AvailableNominalSampleRates" -> 16     \* AudioValueRange
    [] sel \in FormatSelectors -> 40                 \* AudioStreamBasicDescription
    [] sel \in {"AvailableVirtualFormats", "AvailablePhysicalFormats"} -> 56
    [] sel = "PreferredChannelsForStereo" -> 8       \* two UInt32
    [] sel = "PreferredChannelLayout" -> 52          \* a layout of two channels
    [] OTHER -> 4                                    \* UInt32 or an ID

----------------------------------------------------------------------------
(* Which properties an object has.                                          *)

SA_Object_HasProperty(sel) == sel \in ObjectSelectors

PlugIn_HasProperty(sel) ==
  sel \in PlugInSelectors \/ SA_Object_HasProperty(sel)

Device_HasProperty(sel, scope) ==
  \/ sel \in DeviceSelectors
  \/ sel \in SideSelectors /\ scope \in {"Input", "Output"}
  \/ SA_Object_HasProperty(sel)

Stream_HasProperty(sel) ==
  sel \in StreamSelectors \/ SA_Object_HasProperty(sel)

\* SA_Device answers for itself and for its streams, by the ID asked about.
HasProperty(id, sel, scope) ==
  \/ id = kAudioObjectPlugInObject /\ PlugIn_HasProperty(sel)
  \/ id = mObjectID /\ Device_HasProperty(sel, scope)
  \/ id \in Streams /\ Stream_HasProperty(sel)

----------------------------------------------------------------------------
(* Which may be set.  A selector outside a table is refused: "unknown".     *)

Settable(b) == IF b THEN "yes" ELSE "no"

SA_Object_IsPropertySettable(sel) ==
  IF sel \in ObjectSelectors THEN Settable(FALSE) ELSE "unknown"

PlugIn_IsPropertySettable(sel) ==
  IF sel \in PlugInSelectors THEN Settable(FALSE)
  ELSE SA_Object_IsPropertySettable(sel)

Device_IsPropertySettable(sel) ==
  IF sel \in DeviceSelectors \cup SideSelectors
  THEN Settable(sel = "NominalSampleRate")
  ELSE SA_Object_IsPropertySettable(sel)

Stream_IsPropertySettable(sel) ==
  IF sel \in StreamSelectors
  THEN Settable(sel \in FormatSelectors \cup {"IsActive"})
  ELSE SA_Object_IsPropertySettable(sel)

IsPropertySettable(id, sel) ==
  CASE id = kAudioObjectPlugInObject -> PlugIn_IsPropertySettable(sel)
    [] id = mObjectID -> Device_IsPropertySettable(sel)
    [] id \in Streams -> Stream_IsPropertySettable(sel)

----------------------------------------------------------------------------
(* How many bytes a property is said to be.                                 *)

\* As a bug would have it: the second output stream is not counted everywhere.
NumberOfStreamsOld(scope) ==
  CASE scope = "Global" -> 2 [] scope = "Input" -> 1 [] scope = "Output" -> 2

\* kNumberOfSubObjects and kNumberOfStreams by scope: the device owns its
\* streams and, kNumberOfControls being 0, nothing else.
NumberOfStreams(scope) ==
  CASE scope = "Global" -> 3 [] scope = "Input" -> 1 [] scope = "Output" -> 2

SA_Object_GetPropertyDataSize(sel) ==
  IF sel = "OwnedObjects" THEN 0 ELSE ItemBytes(sel)

\* deviceCount is the length of the plug-in's device list.
PlugIn_GetPropertyDataSize(sel, deviceCount) ==
  IF sel \in {"OwnedObjects", "DeviceList"} THEN deviceCount * ItemBytes(sel)
  ELSE IF sel \in PlugInSelectors THEN ItemBytes(sel)
  ELSE SA_Object_GetPropertyDataSize(sel)

Device_GetPropertyDataSize(sel, scope) ==
  CASE sel \in {"OwnedObjects", "Streams"} -> NumberOfStreams(scope) * ItemBytes(sel)
    [] sel = "ControlList" -> 0
    [] sel = "AvailableNominalSampleRates" -> 2 * ItemBytes(sel)
    [] OTHER -> ItemBytes(sel)

Stream_GetPropertyDataSize(sel) ==
  CASE sel \in {"AvailableVirtualFormats", "AvailablePhysicalFormats"} -> 2 * ItemBytes(sel)
    [] sel \in ObjectSelectors -> SA_Object_GetPropertyDataSize(sel)
    [] OTHER -> ItemBytes(sel)

GetPropertyDataSize(id, sel, scope, deviceCount) ==
  CASE id = kAudioObjectPlugInObject -> PlugIn_GetPropertyDataSize(sel, deviceCount)
    [] id = mObjectID -> Device_GetPropertyDataSize(sel, scope)
    [] id \in Streams -> Stream_GetPropertyDataSize(sel)

----------------------------------------------------------------------------
(* What a property is.  room is inDataSize, the bytes the caller has room   *)
(* for.  A list is cut to the items that fit; anything else is refused when *)
(* it does not fit, with kAudioHardwareBadPropertySizeError.  qualified     *)
(* tells whether a qualifier was passed along, of the size of a CFStringRef.*)

\* An item that is counted in the size and not written: what the caller had.
Unwritten == -1

Refused == [status |-> "BadPropertySize", data |-> <<>>]
Reply(data) == [status |-> "ok", data |-> data]

Fitting(sel, room, list) ==
  LET fit == room \div ItemBytes(sel) IN
  Reply(SubSeq(list, 1, IF fit < Len(list) THEN fit ELSE Len(list)))

Single(sel, room, value) ==
  IF room < ItemBytes(sel) THEN Refused ELSE Reply(<<value>>)

\* The strings are checked against the size of an AudioObjectID.
String(room) == IF room < 4 THEN Refused ELSE Reply(<<0>>)

StreamsOf(scope) ==
  CASE scope = "Global" -> <<mInputStreamObjectID, mOutputStreamObjectID,
                             mOutputStreamObjectID2>>
    [] scope = "Input" -> <<mInputStreamObjectID>>
    [] scope = "Output" -> <<mOutputStreamObjectID, mOutputStreamObjectID2>>

OwnerOf(id) ==
  CASE id = kAudioObjectPlugInObject -> 0
    [] id = mObjectID -> kAudioObjectPlugInObject
    [] id \in Streams -> mObjectID

SA_Object_GetPropertyData(id, sel, room) ==
  CASE sel = "OwnedObjects" -> Reply(<<>>)
    [] sel = "Owner" -> Single(sel, room, OwnerOf(id))
    [] OTHER -> Single(sel, room, 0)

\* TranslateUIDToDevice wants a qualifier, reports an ID, and writes none.
PlugIn_GetPropertyData(sel, room, qualified, devices) ==
  CASE sel \in {"OwnedObjects", "DeviceList"} -> Fitting(sel, room, devices)
    [] sel = "Manufacturer" -> Single(sel, room, 0)
    [] sel = "ResourceBundle" -> String(room)
    [] sel = "TranslateUIDToDevice" ->
         IF qualified THEN Single(sel, room, Unwritten) ELSE Refused
    [] OTHER -> SA_Object_GetPropertyData(kAudioObjectPlugInObject, sel, room)

\* st holds the state a reply may depend on: see AudioDriver.
DeviceLists(sel, scope, room) ==
  Fitting(sel, room,
    CASE sel \in {"OwnedObjects", "Streams"} -> StreamsOf(scope)
      [] sel = "RelatedDevices" -> <<mObjectID>>
      [] sel = "ControlList" -> <<>>)

DeviceWords(sel, room, st) ==
  Single(sel, room,
    CASE sel = "DeviceIsRunning" -> IF st.startCount > 0 THEN 1 ELSE 0
      [] sel \in {"DeviceIsAlive", "CanBeDefaultDevice",
                  "CanBeDefaultSystemDevice"} -> 1
      [] OTHER -> 0)

DeviceFormats(sel, room, st) ==
  CASE sel = "NominalSampleRate" -> Single(sel, room, st.rate)
    [] sel = "AvailableNominalSampleRates" -> Fitting(sel, room, <<44100, 48000>>)
    [] sel = "ZeroTimeStampPeriod" -> Single(sel, room, st.ringFrames)
    [] OTHER -> Single(sel, room, 0)

Device_GetPropertyData(sel, scope, room, st) ==
  CASE sel \in StringSelectors -> String(room)
    [] sel \in {"OwnedObjects", "Streams", "RelatedDevices", "ControlList"}
         -> DeviceLists(sel, scope, room)
    [] sel \in {"NominalSampleRate", "AvailableNominalSampleRates",
                "ZeroTimeStampPeriod", "PreferredChannelsForStereo",
                "PreferredChannelLayout"} -> DeviceFormats(sel, room, st)
    [] sel \in {"BaseClass", "Class", "Owner"}
         -> SA_Object_GetPropertyData(mObjectID, sel, room)
    [] OTHER -> DeviceWords(sel, room, st)

\* IsActive is looked up by the scope of the address, everything else by ID.
StreamWords(id, sel, scope, room, st) ==
  Single(sel, room,
    CASE sel = "IsActive" ->
           IF st.active[IF scope = "Input" THEN "Input" ELSE "Output"] THEN 1 ELSE 0
      [] sel = "Direction" -> IF id = mInputStreamObjectID THEN 1 ELSE 0
      [] sel = "StartingChannel" -> IF id = mOutputStreamObjectID2 THEN 3 ELSE 1
      [] sel = "Owner" -> mObjectID
      [] OTHER -> 0)

StreamFormats(sel, room, st) ==
  IF sel \in FormatSelectors THEN Single(sel, room, st.rate)
  ELSE Fitting(sel, room, <<44100, 48000>>)

Stream_GetPropertyData(id, sel, scope, room, st) ==
  CASE sel \in FormatSelectors \cup RateLists -> StreamFormats(sel, room, st)
    [] sel = "OwnedObjects" -> SA_Object_GetPropertyData(id, sel, room)
    [] OTHER -> StreamWords(id, sel, scope, room, st)

GetPropertyData(id, sel, scope, room, qualified, st) ==
  CASE id = kAudioObjectPlugInObject ->
         PlugIn_GetPropertyData(sel, room, qualified, st.devices)
    [] id = mObjectID -> Device_GetPropertyData(sel, scope, room, st)
    [] id \in Streams -> Stream_GetPropertyData(id, sel, scope, room, st)
=============================================================================
