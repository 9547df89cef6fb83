SPECIFICATION Spec
CONSTANTS
  Threads = {t1, t2, t3, t4}
  Items = {x, y}
  None = None
  MaxLen = 4
SYMMETRY Symmetry
INVARIANTS
  QueueTypeOK
  NoLostWakeup
