SPECIFICATION FairSpec
CONSTANTS
  Version <- TheVersion
  Releases <- TheReleases
  Empty = Empty
  NoDigits = NoDigits
  MaxInt = 99
  NoSize = NoSize
  NoAsset = NoAsset
  Bytes = 2
INVARIANTS
  TypeOK
  DownloadsWhatWasFound
  InstallerComplete
PROPERTIES
  LauncherEnds
CHECK_DEADLOCK FALSE
