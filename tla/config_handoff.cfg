SPECIFICATION Spec
CONSTANTS
  Files <- McFiles
  Types <- McTypes
CHECK_DEADLOCK FALSE
INVARIANTS KeysAreDistinct HandoffFaithful AddressesUnique KeysNameTheirCab
