SPECIFICATION FairSpec
CONSTANTS
  h1 = h1
  h2 = h2
  r1 = r1
  r2 = r2
  w = w
  x = x
  y = y
  a = a
  b = b
  Nil = Nil
  Hosts = {h1, h2}
  Procs = {r1, w}
  HostOf <- TwoApps
  Keys = {x, y}
  KeyRange = {x}
  Items = {a}
  Workload <- LiveWork
  Mode = "Normal"
  LeaseSeconds = 1
  LeaseGuardSeconds = 0
  QueryCacheSeconds = 1
  QueryCacheThresh = 1
  MaxLate = 0
  MaxCrashes = 1
INVARIANTS LeaseOnlyOnStoredKey IndInv
PROPERTY EveryCallAnswered
