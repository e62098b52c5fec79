------------------------------ MODULE Launcher ------------------------------
(****************************************************************************)
(* The updater and the launcher (src/src/launcher): asking the release      *)
(* server for the latest release, comparing its version with the installed  *)
(* one, downloading an asset of it, and starting the installer or HulaLoop. *)
(*                                                                          *)
(* A tag is the sequence of its segments between dots: Empty, or the number *)
(* that the segment's digits make when they are put together (NoDigits when *)
(* there is none): "3-rc1" is 31.  An asset has the name the release gives  *)
(* it, the name its URL ends in, its size as the release states it (NoSize  *)
(* when that is no number) and whether its name is that of a package.  A    *)
(* file is the number of its bytes.                                         *)
(****************************************************************************)
EXTENDS Integers, Sequences, SequencesExt

CONSTANTS
  Version,     \* HL_VERSION_MAJOR, HL_VERSION_MINOR, HL_VERSION_REV
  Releases,    \* what the server may answer: records of a tag and its assets
  Empty,       \* the segment between two dots in a row
  NoDigits,    \* what the digits of a segment without a digit make
  MaxInt,      \* the largest int
  NoSize,      \* a stated size that is no number
  NoAsset,     \* the updater knows of no asset
  Bytes        \* bound: the bytes a reply may bring

ASSUME VersionHasThreeParts == Version \in Nat \X Nat \X Nat
ASSUME AssetsHaveBytes == Bytes \in Nat \ {0}
ASSUME IntIsBounded == MaxInt \in Nat

VARIABLES
  phase,      \* where the launcher is
  silent,     \* whether it was started with "silent" and has no window yet
  reply,      \* the network request that is being waited for
  updater,    \* the fields of the Updater in use, and what its call returns
  files,      \* the temporary directory: bytes of each file
  answered,   \* history: the release this updater was told of
  diskFailed, \* history: a file could not be opened
  broken      \* history: the latest download met an error

vars == <<phase, silent, reply, updater, files, answered, diskFailed, broken>>

NoRelease == [tag |-> <<>>, assets |-> <<>>]
AllAssets == UNION {ToSet(r.assets) : r \in Releases}
Names == {a.name : a \in AllAssets} \cup {a.urlName : a \in AllAssets}

\* The name of a release's asset is what its URL ends in; the file is written
\* under the one and started under the other.
ASSUME UrlsEndInNames == \A a \in AllAssets : a.urlName = a.name
ASSUME NoAssetIsNone == NoAsset \notin AllAssets

\* A new Updater: no asset, no request.
NewUpdater == [asset |-> NoAsset, size |-> 0, got |-> 0, result |-> 0]

\* Files may be left of an earlier download that failed.
Init ==
  /\ phase = "main" /\ silent \in BOOLEAN
  /\ reply = "none"
  /\ updater = NewUpdater
  /\ files \in [Names -> {0, 1}]
  /\ answered = NoRelease
  /\ diskFailed = FALSE
  /\ broken = FALSE

----------------------------------------------------------------------------
(* Versions.                                                                *)

Segments(tag) == SelectSeq(tag, LAMBDA s : s # Empty)

\* QString::toInt of the digits: -1 where the conversion fails.
toInt(digits) == IF digits \in 0 .. MaxInt THEN digits ELSE -1

parseTagName(tag) ==
  IF Len(Segments(tag)) < 3 THEN <<-1, -1, -1>>
  ELSE [i \in DOMAIN Segments(tag) |-> toInt(Segments(tag)[i])]

\* Part by part, whatever the parts before say.
IsUpdate(parts) == \E i \in 1 .. 3 : parts[i] > Version[i]

\* The first asset that is a package for this system.
Suitable(release, i) ==
  /\ i \in DOMAIN release.assets /\ release.assets[i].package
  /\ \A j \in 1 .. i - 1 : ~release.assets[j].package

\* What the handler of the answer leaves in the updater: without a suitable
\* asset the fields stay as they were.
Told(release) ==
  LET found == IsUpdate(parseTagName(release.tag))
      suitable == {i \in DOMAIN release.assets : Suitable(release, i)} IN
  \/ ~found /\ updater' = [updater EXCEPT !.result = 0]
  \/ found /\ suitable = {} /\ updater' = [updater EXCEPT !.result = 1]
  \/ /\ found
     /\ \E i \in suitable :
          LET asset == release.assets[i] IN
          updater' = IF asset.size = NoSize
            THEN [updater EXCEPT !.result = -1, !.asset = NoAsset, !.size = 0]
            ELSE [updater EXCEPT !.result = 1, !.asset = asset, !.size = asset.size]

----------------------------------------------------------------------------
(* Network replies.  The handlers of an error, of the connection or of its   *)
(* certificate, ask for the deletion of the reply, which has not finished:   *)
(* it may finish before the event loop gets to the deletion, or not.         *)

Waits == UNCHANGED <<silent, files, diskFailed, broken>>

checkForUpdate ==
  /\ phase = "check" /\ reply = "none"
  /\ reply' = "checking"
  /\ updater' = [updater EXCEPT !.result = 0]
  /\ UNCHANGED <<phase, answered>> /\ Waits

\* finished, without an error; an answer that is no release has no tag.
CheckAnswered ==
  /\ reply = "checking"
  /\ \E release \in Releases \cup {NoRelease} :
       Told(release) /\ answered' = release
  /\ reply' = "none" /\ phase' = "checked"
  /\ Waits

CheckError ==
  /\ reply = "checking"
  /\ updater' = [updater EXCEPT !.result = -1]
  /\ reply' = "doomedCheck"
  /\ UNCHANGED <<phase, answered>> /\ Waits

\* finished with an error: the handler returns and the event loop is left.
ErrorFinished ==
  /\ reply \in {"doomedCheck", "doomedDownload"}
  /\ phase' = IF reply = "doomedCheck" THEN "checked" ELSE "downloaded"
  /\ reply' = "none"
  /\ UNCHANGED <<updater, answered>> /\ Waits

\* A deleted reply never finishes: the event loop is not left.
ReplyDeleted ==
  /\ reply \in {"doomedCheck", "doomedDownload"}
  /\ reply' = "deleted"
  /\ UNCHANGED <<phase, updater, answered>> /\ Waits

----------------------------------------------------------------------------
(* The download.                                                            *)

\* As a bug would have it: the file is opened to append.
DownloadAppending ==
  /\ phase = "download" /\ reply = "none"
  /\ reply' = "downloading" /\ broken' = FALSE
  /\ updater' = [updater EXCEPT !.result = 0, !.got = 0]
  /\ UNCHANGED <<phase, silent, answered, files, diskFailed>>

\* The file is named after the URL and truncated, if it can be opened.  The
\* result of opening it is not looked at.
downloadUpdate ==
  /\ phase = "download" /\ reply = "none"
  /\ reply' = "downloading" /\ broken' = FALSE
  /\ updater' = [updater EXCEPT !.result = 0, !.got = 0]
  /\ IF updater.asset = NoAsset THEN UNCHANGED <<files, diskFailed>>
     ELSE \/ files' = [files EXCEPT ![updater.asset.urlName] = 0] /\ UNCHANGED diskFailed
          \/ diskFailed' = TRUE /\ UNCHANGED files
  /\ UNCHANGED <<phase, silent, answered>>

\* readyRead: what has arrived is appended to the file.
readyRead ==
  /\ reply = "downloading" /\ updater.asset # NoAsset /\ updater.got < Bytes
  /\ updater' = [updater EXCEPT !.got = @ + 1]
  /\ IF diskFailed THEN UNCHANGED files
     ELSE files' = [files EXCEPT ![updater.asset.urlName] = @ + 1]
  /\ UNCHANGED <<phase, silent, reply, answered, diskFailed, broken>>

\* As a bug would have it: the end of the reply is taken for its success.
DownloadErrorDone ==
  /\ reply = "downloading"
  /\ updater' = [updater EXCEPT !.result = 1]
  /\ reply' = "doomedDownload" /\ broken' = TRUE
  /\ UNCHANGED <<phase, silent, answered, files, diskFailed>>

\* Also when there is no URL.  What was written stays.
DownloadError ==
  /\ reply = "downloading"
  /\ updater' = [updater EXCEPT !.result = -1]
  /\ reply' = "doomedDownload" /\ broken' = TRUE
  /\ UNCHANGED <<phase, silent, answered, files, diskFailed>>

\* finished without an error, with however many bytes: they are not compared
\* with the size the release states.
DownloadFinished ==
  /\ reply = "downloading" /\ updater.asset # NoAsset
  /\ updater' = [updater EXCEPT !.result = 1]
  /\ reply' = "none" /\ phase' = "downloaded"
  /\ UNCHANGED answered /\ Waits

----------------------------------------------------------------------------
(* main.cpp and main.qml.                                                   *)

Goes(p) == phase' = p /\ UNCHANGED <<silent, reply, updater, files, answered, diskFailed, broken>>

Silently == phase = "main" /\ silent /\ Goes("check")

\* As a bug would have it: the window goes on with the updater of the question.
ShowWindowKept ==
  /\ \/ phase = "main" /\ ~silent
     \/ phase = "asked"
  /\ phase' = "check" /\ silent' = FALSE
  /\ UNCHANGED <<reply, updater, files, answered, diskFailed, broken>>

\* The window has an updater of its own, which checks again.
ShowWindow ==
  /\ \/ phase = "main" /\ ~silent
     \/ phase = "asked"
  /\ phase' = "check" /\ silent' = FALSE
  /\ updater' = NewUpdater /\ answered' = NoRelease
  /\ UNCHANGED <<reply, files, diskFailed, broken>>

\* A newer version: the user is asked.  Otherwise a message, and the end.
AskUser == phase = "checked" /\ silent /\ updater.result = 1 /\ Goes("asked")
UserCancels == phase = "asked" /\ Goes("exited")
ShowMessage == phase = "checked" /\ silent /\ updater.result # 1 /\ Goes("exited")

\* In the window the result decides.
Found == phase = "checked" /\ ~silent /\ updater.result = 1 /\ Goes("download")
NotFound == phase = "checked" /\ ~silent /\ updater.result = 0 /\ Goes("startApp")

Failed ==
  /\ ~silent /\ updater.result # 1
  /\ \/ phase = "checked" /\ updater.result = -1
     \/ phase = "downloaded"
  /\ Goes("error")

Downloaded == phase = "downloaded" /\ updater.result = 1 /\ Goes("startInstaller")

\* As a bug would have it: the message of an error stays until it is dismissed.
ErrorEndsNever ==
  phase = "error" /\ updater.result = 1 /\ Goes("startApp")

\* The timer, or a click before it.
ErrorEnds == phase = "error" /\ Goes("startApp")

\* startDetached may fail; the window then stays as it is.
startHulaLoopInstaller ==
  /\ phase = "startInstaller"
  /\ \/ updater.asset # NoAsset /\ files[updater.asset.name] > 0 /\ Goes("installing")
     \/ Goes("stuck")

startHulaLoopApp ==
  /\ phase = "startApp"
  /\ \/ Goes("exited")
     \/ Goes("stuck")

----------------------------------------------------------------------------
Check == checkForUpdate \/ CheckAnswered \/ CheckError \/ ErrorFinished \/ ReplyDeleted
Download == downloadUpdate \/ readyRead \/ DownloadError \/ DownloadFinished
Window ==
  \/ Silently \/ ShowWindow \/ AskUser \/ UserCancels \/ ShowMessage
  \/ Found \/ NotFound \/ Failed \/ Downloaded \/ ErrorEnds
  \/ startHulaLoopInstaller \/ startHulaLoopApp

Next == Check \/ Download \/ Window

Spec == Init /\ [][Next]_vars

\* Replies end, the user answers and timers fire.
FairSpec == Spec /\ WF_vars(Next)

----------------------------------------------------------------------------
(* Properties.                                                              *)

Sizes == {a.size : a \in AllAssets} \cup {0}
Updaters ==
  [asset : AllAssets \cup {NoAsset}, size : Sizes, got : 0 .. Bytes, result : -1 .. 1]

\* The types of the launcher's phases, the updater's fields and the files.
TypeOK ==
  /\ phase \in {"main", "check", "checked", "asked", "download", "downloaded",
                "error", "startInstaller", "startApp", "installing", "exited", "stuck"}
  /\ reply \in {"none", "checking", "downloading", "doomedCheck", "doomedDownload", "deleted"}
  /\ updater \in Updaters
  /\ updater.asset # NoAsset => updater.size = updater.asset.size
  /\ answered \in Releases \cup {NoRelease}
  /\ files \in [Names -> 0 .. Bytes]
  /\ silent \in BOOLEAN /\ diskFailed \in BOOLEAN /\ broken \in BOOLEAN

\* What is downloaded is of the release the window was told of, not of the one
\* the user was asked about.
DownloadsWhatWasFound ==
  reply = "downloading" /\ updater.asset # NoAsset =>
    updater.asset \in ToSet(answered.assets)

\* An installer is started only after a download that met no error, and has in
\* its file every byte the download brought and no other, unless the disk failed:
\* neither an error, of whatever request, nor a file left of an earlier download
\* leaves a part of another to be run.
InstallerComplete ==
  phase = "installing" /\ ~diskFailed =>
    ~broken /\ files[updater.asset.name] = updater.got

\* The launcher gets to its end, unless a process does not start or an error
\* deletes the reply that is waited for.
LauncherEnds ==
  <>(phase \in {"installing", "exited", "stuck"} \/ reply = "deleted")
=============================================================================
