SPECIFICATION SpecThreads
CONSTANTS
  Blocking = {b1, b2, b3}
  Nonblocking = {n1}
  NTICKETS = 2
  NULL = NULL
  MaxLines = 5
  size = 2
  N = 4
INVARIANTS
  TypeOK
  FreeListSound
  NoLostWakeup
  OrderKept
  FreedOnce
  NoUseAfterFree
  ActiveCounts
PROPERTIES
  ShutdownCompletes
  ImplementsPool
  AllPrinted
  AllCancelledAndFreed
