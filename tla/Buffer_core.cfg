SPECIFICATION Spec
CONSTANTS
  BUFSIZ = 2
  Letters <- Numbers
  BinFiles <- SomeBinFiles
  TextFiles <- SomeTextFiles
  MAX_LEN = 3
INVARIANTS TypeOK BufferIsWindow LinesAreWritten
PROPERTIES IsByteStream
