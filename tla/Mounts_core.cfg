SPECIFICATION Spec
CONSTANTS
  hda0 = hda0
  sda0 = sda0
  hdx = hdx
  hd = hd
  sd = sd
  Devices = {hda0, sda0, hdx}
  NoDrive = {hdx}
  BlkName <- SomeNames
  FAT = FAT
  JDFS = JDFS
  DriverBlocks = {d1, d2, d3}
  BlkBlocks = {b1, b2}
  EntryBlocks = {e1, e2}
  VolumeBlocks = {v1, v2}
  Fds = {h1, h2}
  NULL = NULL
  MAX_LIST = 3
  CARELESS = FALSE
SYMMETRY Symmetric
INVARIANTS TypeOK NothingDangles
PROPERTIES IsMountMap
