SPECIFICATION FairSpec
CONSTANTS
  Key = {dc2}
  Conn = {c1, c2, c3, c4, c5}
  PoolSize = 2
  MaxLent = 1
  MaxClosing = 2
INVARIANTS TypeOK RefillExclusive PoolBound OneOwner
PROPERTIES LedgerSpec RefillEnds
