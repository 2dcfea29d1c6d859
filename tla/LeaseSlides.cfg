SPECIFICATION Spec
CONSTANTS
  h1 = h1
  h2 = h2
  r1 = r1
  r2 = r2
  w = w
  x = x
  y = y
  a = a
  b = b
  Nil = Nil
  Hosts = {h1, h2}
  Procs = {r1, w}
  HostOf <- TwoApps
  Keys = {x}
  KeyRange = {x}
  Items = {a, b}
  Workload <- ScalarWork
  Mode = "Normal"
  LeaseSeconds = 1
  LeaseGuardSeconds = 1
  QueryCacheSeconds = 1
  QueryCacheThresh = 1
  MaxLate = 1
  MaxCrashes = 0
INVARIANT ExpiredLeaseNotServed
