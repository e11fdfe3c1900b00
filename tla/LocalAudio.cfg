SPECIFICATION Spec
CONSTANTS
  WindowFrames = 2
  WindowBytes = 3
  BatchFrames = 2
  AckEvery = 2
  ChunkSizes = {1, 2}
  MaxInput = 4
  MaxOutput = 3
INVARIANT InputInSequence
INVARIANT OutputWindowExact
PROPERTY ProducerUnblocks
CHECK_DEADLOCK FALSE
