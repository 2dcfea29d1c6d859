SPECIFICATION FairSpec
CONSTANTS
  Slaves = {1, 2}
  Master = 3
  Asked = 3
  MaxDials = 0
  MaxAsks = 0
  MaxCrashes = 0
PROPERTY ClusterForms
CHECK_DEADLOCK FALSE
CONSTRAINT AllAlive
