SPECIFICATION FairSpec
CONSTANTS
  Readers = {r1}
  Writers = {w1, w2}
  Sectors = {s1, s2}
  NVOUCHERS = 2
  BBSIZE = 1
  NULL = NULL
INVARIANTS
  TypeOK
  VoucherConservation
  DeviceServesOwner
  LockExclusion
  DescriptorExclusive
PROPERTIES
  EveryRequestServed
  NonblockingReturns
