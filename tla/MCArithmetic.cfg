CONSTANTS
  MAXULONG = 12
  SlowRates = 3000
SPECIFICATION Spec
INVARIANTS MatchesContract NearestBitTime StoredRateIsAccepted
CHECK_DEADLOCK FALSE
