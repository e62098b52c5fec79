SPECIFICATION Spec
CONSTANTS
  speakers = speakers
  mic = mic
  headset = headset
  hulaloop = hulaloop
  None = None
  Gear <- MCGear
  Does <- MCDoes
  Own <- MCOwn
  Machines <- MCMachines
  Platforms <- WindowsOnly
  Interfaces <- Panel
  MaxPlugs = 1
INVARIANTS
  SwitchSurvives
CHECK_DEADLOCK FALSE
