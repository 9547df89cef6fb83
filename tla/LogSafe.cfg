SPECIFICATION Spec
CONSTANTS
  AddNum = 4
  ThreadNum = 2
  RingBufSize = 2
  batchSizePop = 2
  CacheBufQueueSize = 2
  FlushAfter = 1
  MaxBuffers = 6
  SinkBufferSize = 48
  ArgNum = 4
INVARIANTS
  TypeOK
  OneOwner
  FrontExists
  CacheBounded
  NoOverrun
  EmptyWhereDue
  Conservation
  DrainedAtExit
PROPERTY
  LogSpec
