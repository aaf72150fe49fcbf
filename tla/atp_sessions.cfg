SPECIFICATION Spec
CONSTANTS
  Peers = {p1, p2}
  Endpoints = {e1}
  Cabs <- McCabs
  StcsCabs <- McStcsCabs
  Messages <- McMessages
  MaxResets = 1
SYMMETRY Symmetry
CHECK_DEADLOCK FALSE
INVARIANTS TypeOK BooksMatchSessions NothingLeftBehind MessagesCarriedOut DoorsAgree
