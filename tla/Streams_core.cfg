SPECIFICATION Spec
CONSTANTS
  NFILE = 4
  STDFILES = 1
  Handles = {10, 11, 12, 13}
  Objects = {s1, s2, s3, s4}
  Drives = {A}
  Paths = {root}
  Bases = {b1, b2}
  Spellings = {plain}
  PLAIN = plain
  Codes = {0}
  NULL = NULL
SYMMETRY Symmetric
INVARIANTS TypeOK HandlesMatch StreamsOwnHandles TableExact OneWriter OpenFilesExist
