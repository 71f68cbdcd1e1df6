CONSTANTS
  MAXULONG = 3
  r1 = r1  r2 = r2  w1 = w1  w2 = w2  x1 = x1  x2 = x2
  d1 = d1  d2 = d2  s1 = s1  p1 = p1  m1 = m1
  NULL = NULL
  Reads = {r1, r2}
  Waits = {}
  RxThreads = {x1}
  TimerDpcs = {d1}
  MaskSetters = {}
  ModemThreads = {}
  ModemEvents = {}
  PowerThreads = {}
  Lengths <- OneLength
  TimeoutPool <- OnlyShortWait
  Masks <- OnlyRx
  RingSize = 2
  MaxTransfer = 2
  MaxPackets = 2
SPECIFICATION Spec
INVARIANT TimedReadKeepsItsTimer
CHECK_DEADLOCK FALSE
