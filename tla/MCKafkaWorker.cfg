SPECIFICATION FairSpec
CONSTANTS
  p1 = p1
  p2 = p2
  r1 = r1
  r2 = r2
  r3 = r3
  r4 = r4
  ka = ka
  kb = kb
  kc = kc
  Partitions = {p1, p2}
  Log <- MCLog
  Key <- MCKey
  Poison = {r3, r4}
  MaxPollRecords = 2
  MaxRetryAttempts = 2
  MaxCrashes = 1
INVARIANTS NothingLost KeyBarrier NoRollback
PROPERTY Delivered
