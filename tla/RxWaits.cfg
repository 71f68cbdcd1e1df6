CONSTANTS
  MAXULONG = 3
  r1 = r1  r2 = r2  w1 = w1  w2 = w2  x1 = x1  x2 = x2
  d1 = d1  d2 = d2  s1 = s1  p1 = p1  m1 = m1
  NULL = NULL
  Reads = {}
  Waits = {w1, w2}
  RxThreads = {x1, x2}
  TimerDpcs = {}
  MaskSetters = {s1}
  ModemThreads = {m1}
  ModemEvents <- OnlyCts
  PowerThreads = {p1}
  Lengths <- OneLength
  TimeoutPool = {}
  Masks <- RxCtsOrBoth
  RingSize = 2
  MaxTransfer = 1
  MaxPackets = 3
SPECIFICATION Spec
INVARIANT OneOwner
PROPERTY ImplementsService
SYMMETRY WaitSymmetry
CHECK_DEADLOCK FALSE
