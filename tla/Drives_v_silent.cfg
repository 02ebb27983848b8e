SPECIFICATION FairSpec
CONSTANTS
  TRIES = 3
  SECTORS = 2
  MAX_COUNT = 2
  Versions = {v1, v2}
  BAD = BAD
  IDLE_WAIT_MAX = 3
  BLOCK = 2
  Cards <- ThreeCards
  NOCARD = NOCARD
  COUNT = 2
  SdVersions = {v1, v2}
  BYTE_RANGE = 2
  CMD_TIMEOUT = 3
PROPERTIES CallsReturn
