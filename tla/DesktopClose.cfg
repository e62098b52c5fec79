SPECIFICATION DSpec
CONSTANTS
  Ui = Ui
  Rec = Rec
  Player = Player
  rb = rb
  visrb = visrb
  t1 = t1
  t2 = t2
  mic = mic
  out1 = out1
  v1 = v1
  v2 = v2
  VisThreads <- MCVisThreads
  Clients <- MCClients
  Threads <- MCThreads
  Buffers <- MCBuffers
  Callbacks <- Empty
  Inputs <- MCInputs
  Outputs <- MCOutputs
  Calls <- DesktopCalls
  MayFail <- Empty
  Offered <- Anything
  Formats <- Wav
  MaxTakes = 1
SYMMETRY ThreadSymmetry
INVARIANTS
  ClosesCleanly
