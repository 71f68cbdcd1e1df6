CONSTANTS
  Byte <- MCByte
  ZeroByte = 0
  AllocSize = 4
  CounterMod = 8
  MaxTransfer = 3
SPECIFICATION Spec
INVARIANTS TypeOK OccupancyWithinSize
PROPERTY ImplementsFifo
