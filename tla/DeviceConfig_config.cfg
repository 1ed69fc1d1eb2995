CONSTANTS
  Null = Null
  w1 = w1  w2 = w2  b1 = b1
  WordLimit = 1000000
  ShortLimit = 8
  PortLimit = 4
  WideStems <- MCWideStems
  RawModels <- MCRawModels
  Patches <- MCPatches
  Termios <- MCTermios
  Workers = {w1, w2}
  Backends = {b1}
  MaxCalls = 3
  MaxEvents = 2
SPECIFICATION Spec
INVARIANTS AcceptedInstalls Reinstallable RestartKeepsConfig FaultCount SettingsAsAsked
SYMMETRY MCSymmetry
CHECK_DEADLOCK FALSE
