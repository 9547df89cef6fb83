\* Four slots: batches split at the end of the array as 1+3, 2+2 and 3+1, and
\* a batch may ask for more than there is.  The indices wrap at 8, so "in" is
\* often below "out".
SPECIFICATION Spec
CONSTANTS
  Capacity = 4
  Modulus = 8
  MaxBatch = 5
  Values = {v1, v2}
  Moved = Moved
  Torn = Torn
SYMMETRY Symmetry
INVARIANTS
  TypeOK
  IndexExact
  ChecksStayValid
  SlotsDisjoint
  WindowIsQueue
  CopiesAreFifo
PROPERTIES
  FifoSpec
