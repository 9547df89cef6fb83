SPECIFICATION FairSpec
CONSTANTS
  Capacity = 2
  Modulus = 8
  MaxBatch = 2
  Values = {v1, v2}
  Moved = Moved
  Calls = {"pop", "pop_n", "peek"}
  NonTemporal = TRUE
  MayHoist = {"pop_n"}
INVARIANTS
  OldIsSafe
  CopiesPublished
  NoClobber
PROPERTIES
  FifoSpec
  WaitEnds
