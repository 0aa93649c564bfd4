SPECIFICATION Spec
CONSTANTS
  RingSize = 4
  Byte = {b1, b2}
  Burst = 1
  Interval <- LoneWorker
  Countdown = 0
  FeatureSets <- SomeFeatures
  MaxEvents = 1
  Blank = Blank
  Torn = Torn
  MaxCuts = 2
  Image = {"a", "b"}
  Size <- TwoSizes
  PagePackets = 2
  LastPage = 1
  Start = Start
  Done = Done
  None = None
  MaxLosses = 1
  MaxBegins = 2
  LastVar = 1
  Slots = 3
  Value = {0, 1}
  RecordCells = 3
  SectorCells = 4
  AreaCells = 12
  RingSlots = 2
  MaxSaves = 5
  LastCell = 2
  PageCells = 2
  MaxChanges = 3
INVARIANTS
  RingTypeOK
  GetWindow
  PutRefusedOnlyWhenFull
  AlarmNotLate
  DoneMeansProgrammed
  SavedSurvives
  OverrunNeedsTornLast
  RingSurvives
  LogIsIntact
  ConfigSurvives
PROPERTIES
  ImplementsFifo
  AlarmNeedsSilence
  EmergencyStartsSos
  TransferEnds
CHECK_DEADLOCK FALSE
