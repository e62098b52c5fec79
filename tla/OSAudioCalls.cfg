SPECIFICATION Spec
CONSTANTS
  ui = ui
  vis = vis
  t1 = t1
  t2 = t2
  b1 = b1
  b2 = b2
  cb1 = cb1
  mic = mic
  out1 = out1
  Clients = {ui, vis}
  Threads = {t1, t2}
  Buffers = {b1}
  Callbacks = {cb1}
  Inputs = {mic}
  Outputs = {out1}
  Calls <- AllCalls
  MayFail <- Everything
SYMMETRY ThreadSymmetry
INVARIANTS
  TypeOK
  SemaphoreOwned
  OneStream
  StopIsSeen
  NoPhantomStream
PROPERTIES
  ImplementsExclusiveStream
