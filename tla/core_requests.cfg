SPECIFICATION PlannedSpec
CONSTANTS
  Clients = {k1, k2}
  Subscribers = {}
  Commands <- McCommands
  Requests <- McRequests
  FixedStep = 3
  Epsilon = 1
  MinTickWait = 1
  SubscriberMaxsize = 1
  MaxCommands = 4
  MaxNow = 5
SYMMETRY Symmetry
CHECK_DEADLOCK FALSE
INVARIANTS TypeOK NoBorrowedTime NothingDueLeft PhysicsInLockstep
PROPERTIES TimeMovesOnlyWhenDriven
INVARIANTS AnswersAreFresh EncodedMeansDelivered FrameReadsBack FrameHoldsWhatFits
