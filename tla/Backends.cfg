SPECIFICATION Spec
CONSTANTS
  speakers = speakers
  mic = mic
  headset = headset
  hulaloop = hulaloop
  None = None
  Gear <- MCGear
  Does <- MCDoes
  Own <- MCOwn
  Machines <- MCMachines
  Platforms <- AllPlatforms
  Interfaces <- Both
  MaxPlugs = 1
INVARIANTS
  OwnedStreams
  NumbersAgree
PROPERTIES
  OpensTheSelected
CHECK_DEADLOCK FALSE
