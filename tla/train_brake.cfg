SPECIFICATION Spec
CONSTANTS
  FullEffort = 10
  TractionFactor = 1
  DecelFactor = 1
  GainUnit = 2
  DefaultGain = 1
  Deadband = 1
  Tolerance = 1
  Cabs = {1}
  Facing <- OneCab
  Boxes = {1}
  Solos = {}
  ActiveCab = 1
  KeyCabs = {}
  InitialSpeed = 5
  InitialPosition = 0
  InitialDoor = "closed"
  InitialHandles <- OneOff
  Controls <- BlockControls
  CutSets = {}
  Requests <- BrakeRequests
  MaxReceived = 0
  MaxPosition = 20
PROPERTIES AssertedBrakeSlows
