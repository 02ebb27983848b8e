SPECIFICATION FairSpec
CONSTANTS
  FAT_ENTRIES = 2
  TRACK_SIZE = 2
  CLUSTERSIZE = 2
  NUM_JD_DIR_ENTRIES = 2
  FAT_SECTOR = 2
  DIR_SECTOR = 2
  Names = {n1, n2}
  Fds = {h1}
  OpenFlags <- PlainFlags
  Requests = {5}
  SeekArgs <- NoSeeks
  Calls = {"open", "write", "close"}
  MediaFails = FALSE
  MaxPos = 10
  MaxCluster = 5
  NULL = NULL
PROPERTIES WritesReturn
