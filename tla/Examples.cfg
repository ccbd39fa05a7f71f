SPECIFICATION FairSpec
CONSTANTS
  Networks <- MCNetworks
  IntMod = 3
INVARIANTS
  TypeOK
  NoErrorExit
  TokensKept
  TokenSum
PROPERTIES
  Consecutive
  RingEnds
  ConsumeGoesOn
CHECK_DEADLOCK FALSE
