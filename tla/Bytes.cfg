SPECIFICATION Spec
CONSTANTS
  SinkBufferSize = 39
  ArgNum = 1
  Lines = {a, b}
  Blank = blank
  Junk = junk
  Nul = nul
INVARIANTS
  BytesAreLines
  NothingBehind
