SPECIFICATION FairSpec
CONSTANTS
  Readers = {}
  Writers = {w1, w2}
  Sectors = {s1, s2}
  NVOUCHERS = 2
  BBSIZE = 1
  NULL = NULL
PROPERTY
  RedeemReturns
