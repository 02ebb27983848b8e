SPECIFICATION Spec
CONSTANTS
  FAT_ENTRIES = 4
  TRACK_SIZE = 1
  CLUSTERSIZE = 1
  NUM_JD_DIR_ENTRIES = 2
  FAT_SECTOR = 4
  DIR_SECTOR = 2
  Names = {n1, n2}
  Fds = {h1, h2}
  OpenFlags <- UpdateFlags
  Requests = {3}
  SeekArgs <- NoSeeks
  Calls = {"open", "read", "write", "close", "remove", "rename", "getfree"}
  MediaFails = TRUE
  MaxPos = 3
  MaxCluster = 3
  NULL = NULL
SYMMETRY Symmetric
VIEW VolumeView
INVARIANTS VolumeConsistent ChainsDisjoint NoLostTracks HandlesAnchored
PROPERTIES ChainsOnlyGrow
