SPECIFICATION Spec
CONSTANTS
  HEAP = 1
  RAM_TOP = 15
  HDR = 2
  Requests = {0, 1, 3}
  Pointers <- EveryPointer
INVARIANTS TypeOK Tiled Coalesced NothingLost
PROPERTIES Promises
