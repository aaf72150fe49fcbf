SPECIFICATION FairSpec
CONSTANTS
  Peers = {p1}
  Endpoints = {e1, e2}
  Cabs <- McCabs
  StcsCabs <- McStcsCabs
  Messages <- McBriefMessages
  MaxResets = 0
CHECK_DEADLOCK FALSE
PROPERTIES StopEnds LeftIsForgotten
