SPECIFICATION FairSpec
CONSTANTS
  observer = s1
  Clients = {k1, k2}
  Subscribers = {s1}
  Commands <- FeedCommands
  FixedStep = 3
  Epsilon = 1
  MinTickWait = 1
  SubscriberMaxsize = 2
  MaxCommands = 3
  MaxNow = 2
INVARIANTS FuturesMatchQueue FeedKeepsNewest
PROPERTIES EveryCommandAnswered DueStepsRun FeedIsMailbox
CHECK_DEADLOCK FALSE
