SPECIFICATION FairSpec
CONSTANTS
  BufferSize = 2
  SocketRoom = 2
  MaxBytes = 3
  WriteSizes = {1, 3}
  ReadSizes = {1, 3}
PROPERTY
  CutEndsRead
