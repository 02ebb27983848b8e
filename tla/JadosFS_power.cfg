SPECIFICATION Spec
CONSTANTS
  FAT_ENTRIES = 5
  TRACK_SIZE = 1
  CLUSTERSIZE = 1
  NUM_JD_DIR_ENTRIES = 2
  FAT_SECTOR = 5
  DIR_SECTOR = 1
  Names = {n1, n2}
  Fds = {h1, h2}
  OpenFlags <- CreateFlags
  Requests = {2}
  SeekArgs <- OneSeek
  Calls = {"open", "write", "close", "seek", "remount", "powerfail"}
  MediaFails = FALSE
  MaxPos = 4
  MaxCluster = 4
  NULL = NULL
SYMMETRY Symmetric
INVARIANTS MediumConsistent
PROPERTIES SavedChainsSurvive
