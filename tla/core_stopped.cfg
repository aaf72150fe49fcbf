SPECIFICATION Spec
CONSTANTS
  Clients = {k1}
  Subscribers = {}
  Commands <- ClockCommands
  FixedStep = 3
  Epsilon = 1
  MinTickWait = 1
  SubscriberMaxsize = 1
  MaxCommands = 2
  MaxNow = 1
PROPERTIES TimeFrozenUnlessRunning
CHECK_DEADLOCK FALSE
