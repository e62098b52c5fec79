SPECIFICATION SFairSpec
CONSTANTS
  Ui = Ui
  Rec = Rec
  Player = Player
  rb = rb
  t1 = t1
  t2 = t2
  mic = mic
  out1 = out1
  Clients <- MCClients
  Threads <- MCThreads
  Buffers <- MCBuffers
  Callbacks <- Empty
  Inputs <- MCInputs
  Outputs <- MCOutputs
  Calls <- SessionCalls
  MayFail <- Empty
  Offered <- Careful
  Formats <- Wav
  MaxTakes = 3
INVARIANTS
  RecordingCaptures
  NoIdleCapture
  OneProducer
  TakesKept
PROPERTIES
  ImplementsFairStream
  CommandReturns

