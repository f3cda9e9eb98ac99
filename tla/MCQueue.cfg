SPECIFICATION QueueSpec
CONSTANTS
  FILEHEIGHT = 2
  InitChainHeight = 3
  NumEvents = 1
  MaxBlocks = 7
  MaxCrashes = 2
  MaxOpenFailures = 1
  MaxWriteFailures = 1
CHECK_DEADLOCK FALSE
INVARIANTS KeptUntilDone ToldInOrder HeightReadable
PROPERTY BlockSent
