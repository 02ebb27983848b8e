SPECIFICATION Spec
CONSTANTS
  FAT_ENTRIES = 5
  TRACK_SIZE = 2
  CLUSTERSIZE = 2
  NUM_JD_DIR_ENTRIES = 2
  FAT_SECTOR = 5
  DIR_SECTOR = 2
  Names = {n1, n2}
  Fds = {h1, h2}
  OpenFlags <- PlainFlags
  Requests = {7}
  SeekArgs <- NoSeeks
  Calls = {"open", "read", "write", "close", "remove", "rename", "remount"}
  MediaFails = FALSE
  MaxPos = 7
  MaxCluster = 4
  NULL = NULL
SYMMETRY Symmetric
INVARIANTS TypeOK NamesUnique LengthCovered LengthExact FilesHoldWhatWasWritten SavedAtRest BufferHoldsPosition
