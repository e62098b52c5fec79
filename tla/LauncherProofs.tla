--------------------------- MODULE LauncherProofs ---------------------------
(****************************************************************************)
(* Proofs about Launcher, for any installed version, any releases of any    *)
(* assets, and files of any length.                                         *)
(****************************************************************************)
EXTENDS Launcher, TLAPS

(****************************************************************************)
(* The inductive invariant.                                                 *)
(****************************************************************************)

\* A reply is waited for in the phase that asked for it.
RepliesAwaited ==
  /\ reply \in {"checking", "doomedCheck"} => phase = "check"
  /\ reply \in {"downloading", "doomedDownload"} => phase = "download"
  /\ reply = "deleted" => phase \in {"check", "download"}

\* An error leaves its result, and a check begins with no asset.
ErrorsKept ==
  reply \in {"doomedCheck", "doomedDownload"} => updater.result = -1
NothingKnown == phase \in {"main", "check"} => updater.asset = NoAsset

\* Every asset an updater knows of is of the release it was told of.
AssetAnswered ==
  updater.asset # NoAsset => updater.asset \in ToSet(answered.assets)

\* The file grows with what was received, without an error, and is what was
\* received from the end of the download on.
FileGrows ==
  reply = "downloading" =>
    /\ ~broken
    /\ updater.asset # NoAsset /\ ~diskFailed => files[updater.asset.urlName] = updater.got
FileComplete ==
  \/ phase = "downloaded" /\ updater.result = 1
  \/ phase \in {"startInstaller", "installing"}
  => /\ updater.asset # NoAsset /\ ~broken
     /\ ~diskFailed => files[updater.asset.urlName] = updater.got

IInv ==
  /\ TypeOK /\ RepliesAwaited /\ ErrorsKept /\ NothingKnown /\ AssetAnswered
  /\ FileGrows /\ FileComplete

----------------------------------------------------------------------------
(* Facts about releases.                                                    *)

\* An answer without a release has no assets.
LEMMA AssetsListed ==
  ASSUME NEW release \in Releases \cup {NoRelease}, NEW i \in DOMAIN release.assets
  PROVE  release.assets[i] \in AllAssets /\ release.assets[i] \in ToSet(release.assets)
<1>1. release.assets[i] \in ToSet(release.assets)
  BY DEF ToSet
<1>2. release # NoRelease
  BY DEF NoRelease
<1> QED
  BY <1>1, <1>2 DEF AllAssets

LEMMA NamesKnown ==
  ASSUME NEW a \in AllAssets PROVE a.name \in Names /\ a.urlName \in Names
BY DEF Names

----------------------------------------------------------------------------
LEMMA InitIInv == Init => IInv
<1> SUFFICES ASSUME Init PROVE IInv
  OBVIOUS
<1>1. TypeOK
  <2>1. updater \in Updaters
    BY AssetsHaveBytes DEF Init, NewUpdater, Updaters, Sizes
  <2>2. files \in [Names -> 0 .. Bytes]
    BY AssetsHaveBytes DEF Init
  <2>3. updater.asset = NoAsset
    BY DEF Init, NewUpdater
  <2> QED
    BY <2>1, <2>2, <2>3 DEF Init, TypeOK
<1> QED
  BY <1>1 DEF Init, IInv, RepliesAwaited, ErrorsKept, NothingKnown, AssetAnswered, FileGrows,
              FileComplete, NewUpdater

\* What an answer writes keeps the updater's type.
LEMMA ResultWritten ==
  ASSUME TypeOK, NEW r \in -1 .. 1, updater' = [updater EXCEPT !.result = r]
  PROVE  /\ updater' \in Updaters
         /\ updater'.asset = updater.asset /\ updater'.result = r
BY DEF TypeOK, Updaters

\* What the handler of an answer leaves in an updater without an asset.
LEMMA ToldAnswer ==
  ASSUME TypeOK, updater.asset = NoAsset,
         NEW release \in Releases \cup {NoRelease}, Told(release)
  PROVE  /\ updater' \in Updaters
         /\ updater'.asset # NoAsset => /\ updater'.size = updater'.asset.size
                                        /\ updater'.asset \in ToSet(release.assets)
<1> DEFINE parts == parseTagName(release.tag)
<1>0. -1 \in -1 .. 1 /\ 0 \in -1 .. 1 /\ 1 \in -1 .. 1
  OBVIOUS
<1>1. CASE ~IsUpdate(parts) /\ updater' = [updater EXCEPT !.result = 0]
  BY <1>0, <1>1, ResultWritten
<1>2. CASE updater' = [updater EXCEPT !.result = 1]
  BY <1>0, <1>2, ResultWritten
<1>3. ASSUME NEW i \in DOMAIN release.assets,
             updater' = IF release.assets[i].size = NoSize
               THEN [updater EXCEPT !.result = -1, !.asset = NoAsset, !.size = 0]
               ELSE [updater EXCEPT !.result = 1, !.asset = release.assets[i],
                                    !.size = release.assets[i].size]
      PROVE  /\ updater' \in Updaters
             /\ updater'.asset # NoAsset => /\ updater'.size = updater'.asset.size
                                            /\ updater'.asset \in ToSet(release.assets)
  <2> DEFINE asset == release.assets[i]
  <2>1. asset \in AllAssets /\ asset \in ToSet(release.assets)
    BY AssetsListed
  <2>2. asset.size \in Sizes /\ 0 \in Sizes
    BY <2>1 DEF Sizes
  <2> HIDE DEF asset
  <2>3. CASE updater' = [updater EXCEPT !.result = -1, !.asset = NoAsset, !.size = 0]
    <3>1. updater' = [asset |-> NoAsset, size |-> 0, got |-> updater.got, result |-> -1]
      BY <2>3 DEF TypeOK, Updaters
    <3> QED
      BY <2>2, <3>1 DEF TypeOK, Updaters
  <2>4. CASE updater' = [updater EXCEPT !.result = 1, !.asset = asset, !.size = asset.size]
    <3>1. updater' = [asset |-> asset, size |-> asset.size, got |-> updater.got, result |-> 1]
      BY <2>4 DEF TypeOK, Updaters
    <3> QED
      BY <2>1, <2>2, <3>1 DEF TypeOK, Updaters
  <2> QED
    BY <1>3, <2>3, <2>4 DEF asset
<1> QED
  BY <1>1, <1>2, <1>3 DEF Told, Suitable

----------------------------------------------------------------------------
LEMMA NextIInv == IInv /\ [Next]_vars => IInv'
<1> SUFFICES ASSUME IInv, [Next]_vars PROVE IInv'
  OBVIOUS
<1> USE AssetsHaveBytes DEF IInv, Updaters
<1> DEFINE Rest == /\ RepliesAwaited' /\ ErrorsKept' /\ NothingKnown' /\ AssetAnswered'
                   /\ FileGrows' /\ FileComplete'
<1>1. CASE checkForUpdate
  <2>1. TypeOK'
    BY <1>1 DEF checkForUpdate, Waits, TypeOK
  <2>2. Rest
    BY <1>1 DEF checkForUpdate, Waits, TypeOK, RepliesAwaited, ErrorsKept, NothingKnown,
                AssetAnswered, FileGrows, FileComplete
  <2> QED
    BY <2>1, <2>2
<1>2. CASE CheckAnswered
  <2>1. PICK release \in Releases \cup {NoRelease} : Told(release) /\ answered' = release
    BY <1>2 DEF CheckAnswered
  <2>2. updater.asset = NoAsset
    BY <1>2 DEF CheckAnswered, RepliesAwaited, NothingKnown
  <2>3. TypeOK'
    BY <1>2, <2>1, <2>2, ToldAnswer DEF CheckAnswered, Waits, TypeOK
  <2>4. Rest
    BY <1>2, <2>1, <2>2, ToldAnswer
       DEF CheckAnswered, Waits, RepliesAwaited, ErrorsKept, NothingKnown, AssetAnswered,
           FileGrows, FileComplete
  <2> QED
    BY <2>3, <2>4
<1>3. CASE CheckError \/ ErrorFinished \/ ReplyDeleted \/ DownloadError \/ DownloadFinished
  <2>1. TypeOK'
    <3>1. CASE CheckError \/ DownloadError
      <4>1. updater' \in Updaters /\ updater'.asset = updater.asset /\ updater'.size = updater.size
        BY <3>1 DEF CheckError, DownloadError, TypeOK
      <4> QED
        BY <3>1, <4>1 DEF CheckError, DownloadError, Waits, TypeOK
    <3>2. CASE ErrorFinished \/ ReplyDeleted
      BY <3>2 DEF ErrorFinished, ReplyDeleted, Waits, TypeOK
    <3>3. CASE DownloadFinished
      BY <3>3 DEF DownloadFinished, Waits, TypeOK
    <3> QED
      BY <1>3, <3>1, <3>2, <3>3
  <2>2. Rest
    BY <1>3 DEF CheckError, ErrorFinished, ReplyDeleted, DownloadError, DownloadFinished,
                Waits, TypeOK, RepliesAwaited, ErrorsKept, NothingKnown, AssetAnswered, FileGrows,
                FileComplete
  <2> QED
    BY <2>1, <2>2
<1>4. CASE downloadUpdate
  <2>1. updater.asset # NoAsset => updater.asset.urlName \in Names
    BY NamesKnown DEF TypeOK
  <2>2. TypeOK'
    <3>1. updater' \in Updaters /\ updater'.asset = updater.asset /\ updater'.size = updater.size
      <4>1. updater' = [asset |-> updater.asset, size |-> updater.size, got |-> 0, result |-> 0]
        BY <1>4 DEF downloadUpdate, TypeOK
      <4> QED
        BY <4>1 DEF TypeOK
    <3>2. files' \in [Names -> 0 .. Bytes] /\ diskFailed' \in BOOLEAN
      <4>1. CASE files' = [files EXCEPT ![updater.asset.urlName] = 0] /\ UNCHANGED diskFailed
        <5>1. files \in [Names -> 0 .. Bytes] /\ diskFailed \in BOOLEAN
          BY DEF TypeOK
        <5>2. 0 \in 0 .. Bytes
          OBVIOUS
        <5>3. files' \in [Names -> 0 .. Bytes]
          BY <4>1, <5>1, <5>2
        <5> QED
          BY <4>1, <5>1, <5>3
      <4>2. CASE UNCHANGED files /\ diskFailed' \in BOOLEAN
        BY <4>2 DEF TypeOK
      <4> QED
        BY <1>4, <4>1, <4>2 DEF downloadUpdate, TypeOK
    <3> QED
      BY <1>4, <3>1, <3>2 DEF downloadUpdate, TypeOK
  <2>3. Rest
    BY <1>4, <2>1 DEF downloadUpdate, TypeOK, RepliesAwaited, ErrorsKept, NothingKnown,
                      AssetAnswered, FileGrows, FileComplete
  <2> QED
    BY <2>2, <2>3
<1>5. CASE readyRead
  <2>1. updater.asset.urlName \in Names
    BY <1>5, NamesKnown DEF readyRead, TypeOK
  <2>2. ~diskFailed => files[updater.asset.urlName] = updater.got
    BY <1>5 DEF readyRead, FileGrows
  <2>3. TypeOK'
    BY <1>5, <2>1, <2>2 DEF readyRead, TypeOK
  <2>4. Rest
    BY <1>5, <2>1, <2>2 DEF readyRead, TypeOK, RepliesAwaited, ErrorsKept, NothingKnown,
                            AssetAnswered, FileGrows, FileComplete
  <2> QED
    BY <2>3, <2>4
<1>6. CASE ShowWindow
  <2>1. updater' \in Updaters /\ updater'.asset = NoAsset
    BY <1>6 DEF ShowWindow, NewUpdater, Sizes
  <2>2. TypeOK'
    BY <1>6, <2>1 DEF ShowWindow, TypeOK
  <2>3. reply \notin {"checking", "downloading", "doomedCheck", "doomedDownload", "deleted"}
    BY <1>6 DEF ShowWindow, RepliesAwaited
  <2>4. Rest
    BY <1>6, <2>1, <2>3
       DEF ShowWindow, RepliesAwaited, ErrorsKept, NothingKnown, AssetAnswered, FileGrows,
           FileComplete
  <2> QED
    BY <2>2, <2>4
<1>7. CASE \/ Silently \/ AskUser \/ UserCancels \/ ShowMessage \/ Found \/ NotFound \/ Failed
           \/ Downloaded \/ ErrorEnds \/ startHulaLoopInstaller \/ startHulaLoopApp
  <2> USE DEF Goes, Silently, AskUser, UserCancels, ShowMessage, Found, NotFound, Failed,
              Downloaded, ErrorEnds, startHulaLoopInstaller, startHulaLoopApp
  <2>1. TypeOK'
    BY <1>7 DEF TypeOK
  <2>2. Rest
    BY <1>7 DEF RepliesAwaited, ErrorsKept, NothingKnown, AssetAnswered, FileGrows, FileComplete
  <2> QED
    BY <2>1, <2>2
<1>8. CASE UNCHANGED vars
  BY <1>8 DEF vars, TypeOK, RepliesAwaited, ErrorsKept, NothingKnown, AssetAnswered, FileGrows,
              FileComplete
<1> QED
  BY <1>1, <1>2, <1>3, <1>4, <1>5, <1>6, <1>7, <1>8 DEF Next, Check, Download, Window

\* The inductive invariant holds in every reachable state.
THEOREM Invariance == Spec => []IInv
<1> QED
  BY InitIInv, NextIInv, PTL DEF Spec

----------------------------------------------------------------------------
\* Every variable of the launcher stays in its range: a file is never longer
\* than what its download may bring (Updater::downloadUpdate, readyRead).
THEOREM TypeCorrect == Spec => []TypeOK
<1>1. IInv => TypeOK
  BY DEF IInv
<1> QED
  BY <1>1, Invariance, PTL

\* The window downloads an asset of the release it was told of itself, whatever
\* the first updater was told (main.cpp).
THEOREM DownloadIsOfAnswer == Spec => []DownloadsWhatWasFound
<1>1. IInv => DownloadsWhatWasFound
  BY DEF IInv, AssetAnswered, DownloadsWhatWasFound
<1> QED
  BY <1>1, Invariance, PTL

\* The installer that is started (Updater::startHulaLoopInstaller) is what one
\* download without an error brought, whatever was left in the temporary directory
\* and whatever request failed.
THEOREM InstallerAlwaysComplete == Spec => []InstallerComplete
<1>1. ASSUME IInv PROVE InstallerComplete
  <2> SUFFICES ASSUME phase = "installing", ~diskFailed
               PROVE  ~broken /\ files[updater.asset.name] = updater.got
    BY DEF InstallerComplete
  <2>1. /\ updater.asset # NoAsset /\ ~broken
       /\ files[updater.asset.urlName] = updater.got
    BY <1>1 DEF IInv, FileComplete
  <2>2. updater.asset \in AllAssets
    BY <1>1, <2>1 DEF IInv, TypeOK, Updaters
  <2> QED
    BY <2>1, <2>2, UrlsEndInNames
<1> QED
  BY <1>1, Invariance, PTL
=============================================================================
