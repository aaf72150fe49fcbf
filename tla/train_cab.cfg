SPECIFICATION PlannedSpec
CONSTANTS
  FullEffort = 10
  TractionFactor = 1
  DecelFactor = 1
  GainUnit = 2
  DefaultGain = 1
  Deadband = 1
  Tolerance = 1
  Cabs = {1, 2}
  Facing <- TwoCabs
  Boxes = {1}
  Solos = {2}
  ActiveCab = 1
  KeyCabs = {}
  InitialSpeed = 0
  InitialPosition = 0
  InitialDoor = "closed"
  InitialHandles <- FirstBraked
  Controls <- AllControls
  CutSets <- AllCuts
  Requests <- AllRequests
  MaxReceived = 1
  MaxPosition = 14
INVARIANTS TypeOK ArmedLawHasTargets
PROPERTIES AppliesAtOnce StepKeepsSettled CutOffNeverAccelerates BlockedReadingHolds AssertionsHold ResetForgets NoUnaskedReversal EnvelopeNeverReverses
