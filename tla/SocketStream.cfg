SPECIFICATION FairSpec
CONSTANTS
  BufferSize = 2
  SocketRoom = 2
  MaxBytes = 5
  WriteSizes = {1, 2, 3, 5}
  ReadSizes = {1, 2, 3}
INVARIANTS
  TypeOK
  DeliveredInOrder
  BuffersHoldTheRest
  LoopAtMostTwice
PROPERTIES
  ImplementsPipe
  WriteEnds
  FlushedIsRead
  CutEndsSmallRead
