SPECIFICATION FairSpec
CONSTANTS
  Peers = {p1, p2}
  Boxes = {1}
  Greetings = {1, 2}
  Updates <- SomeUpdates
  SubscriberMaxsize = 2
  MaxCommands = 1
INVARIANTS TypeOK SlotsMatchSessions NothingMissed
PROPERTIES ChangesReported
