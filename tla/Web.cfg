SPECIFICATION Spec
CONSTANTS
  u1 = u1
  u2 = u2
  a1 = a1
  a2 = a2
  g1 = g1
  g2 = g2
  Users = {u1, u2}
  Handlers = {g1, g2}
  Requests <- Work
  Apps = {a1, a2}
  AppOf <- Route2
  NoKey = NoKey
  MaxTime = 2
  Limit = 1
  MaxFaults = 1
  MaxTrouble = 1
INVARIANTS TypeOK TimelinesMissNothing PagesSignUp
PROPERTIES ListedPostStored NoStrayPosts IsFeed
CHECK_DEADLOCK FALSE
