SPECIFICATION FairSpec
CONSTANTS
  browser1 = browser1
  browser2 = browser2
  script = script
  b1 = b1
  b2 = b2
  Clients = {browser1, browser2, script}
  Jar = {browser1, browser2}
  BitOf <- SharedBits
  Threshold = 2
  Slow = 20
  MaxSlow = 2
INVARIANT TypeOK
PROPERTY LoadEnds
