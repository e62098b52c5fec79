SPECIFICATION Spec
CONSTANTS
  Size = 4
  MaxChunk = 3
  MaxSamples = 11
INVARIANTS
  ReadIntact
PROPERTIES
  ImplementsQueue
