SPECIFICATION LimiterSpec
CONSTANTS
  k1 = k1
  k2 = k2
  Keys <- MCKeys
  NoKey = NoKey
  Burst = 2
  Refill = 2
  IdleTTL = 4
  MaxTime = 8
INVARIANTS LimiterTypeOK WindowBound
PROPERTIES ImplementsTokenBucket IdleBucketsGo
SYMMETRY KeySymmetry
