SPECIFICATION FairSpec
CONSTANTS
  Servers <- ThreeNodes
  Master = 4
  Keys <- KeyHashes
  Clients = {c1}
  Nil = Nil
  MaxDials = 2
  MaxAsks = 2
  MaxCrashes = 1
INVARIANTS TypeOK ReadyServersPartitionKeys
PROPERTIES StoredAtOwner RingForms
CHECK_DEADLOCK FALSE
