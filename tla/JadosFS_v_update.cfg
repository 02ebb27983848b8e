SPECIFICATION Spec
CONSTANTS
  FAT_ENTRIES = 4
  TRACK_SIZE = 1
  CLUSTERSIZE = 2
  NUM_JD_DIR_ENTRIES = 2
  FAT_SECTOR = 4
  DIR_SECTOR = 2
  Names = {n1}
  Fds = {h1}
  OpenFlags <- UpdateFlags
  Requests = {5}
  SeekArgs <- NoSeeks
  Calls = {"open", "write", "close"}
  MediaFails = FALSE
  MaxPos = 5
  MaxCluster = 3
  NULL = NULL
PROPERTIES CloseWritesBack
