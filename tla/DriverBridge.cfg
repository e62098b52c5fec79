SPECIFICATION FairSpec
CONSTANTS
  FramesPerBuffer = 6
  NFrames = 2
  IOFrames = 3
  OutputTimes = {1, 4}
  Silence = Silence
  MaxFrame = 10
  MaxTime = 1
  MaxSeed = 2
  MaxOpens = 2
INVARIANTS
  PlaysItsTime
  ReadsItsTime
  StampOrder
PROPERTIES
  FramesInPlace
  GetsSynced
CHECK_DEADLOCK FALSE
