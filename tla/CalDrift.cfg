SPECIFICATION Spec
CONSTANTS
  TicksPerMicro = 6
  MicrosPerSec = 4
  Threshold = 2
  Tolerance = 6
  Modulus = 64
  LoopTicks = {1}
  Delays = {1, 2, 3, 4}
  MaxDelays = 2
  ClockSteps <- BackAndForth
  MaxClockSteps = 0
  MaxCalls = 2
INVARIANT
  DriftWithinTolerance
