SPECIFICATION FairSpec
CONSTANTS
  TicksPerMicro = 6
  MicrosPerSec = 4
  Threshold = 2
  Tolerance = 4
  Modulus = 64
  LoopTicks = {1, 2}
  Delays = {3}
  MaxDelays = 2
  ClockSteps <- BackAndForth
  MaxClockSteps = 1
  MaxCalls = 2
INVARIANTS
  TypeOK
  OneGoodIsEnough
PROPERTIES
  FrequencySettled
  CalibrationEnds
