SPECIFICATION FairSpec
CONSTANTS
  Slaves = {1, 2}
  Master = 3
  Asked = 3
  MaxDials = 1
  MaxAsks = 2
  MaxCrashes = 1
INVARIANT TypeOK
PROPERTIES WholeUnlessMixed FormsUnlessMixed
CHECK_DEADLOCK FALSE
