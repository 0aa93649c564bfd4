SPECIFICATION Spec
CONSTANTS
  Hold1 = 4
  Hold2 = 8
  Hold3 = 12
  RingWindow = 2
  RingLimit = 1
  MaxMessages = 2
  MaxRings = 1
  MaxBusy = 1
  CmdRetries = 1
  MaxTimeouts = 0
  MaxRegister = 1
  MaxPending = 1
  MaxCalls = 1
INVARIANTS
  OnePulseIsNoCall
  CoverageMeansConfigured
PROPERTIES
  PressesAreTold
  GestureWaits
  MessageIsTaken
  RegistrationNeverHangs
  DeadModemIsRestarted
