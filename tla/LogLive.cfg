SPECIFICATION FairSpec
CONSTANTS
  AddNum = 3
  ThreadNum = 2
  RingBufSize = 1
  batchSizePop = 2
  CacheBufQueueSize = 1
  FlushAfter = 1
  MaxBuffers = 6
  SinkBufferSize = 48
  ArgNum = 4
PROPERTIES
  Termination
  HandedIsWritten
