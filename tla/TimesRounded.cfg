SPECIFICATION TimesSpec
CONSTANTS
  NanosPerSec = 12
  NanosPerMicro = 3
  MaxCycles = 25
  MaxFrequency = 20
INVARIANT
  MicrosRounded
