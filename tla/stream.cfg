SPECIFICATION ProcessFairSpec
CONSTANTS
  k1 = k1
  k2 = k2
  Conns = {k1}
  MaxEvents = 2
  MaxDials = 2
  Batch = 2
  BufSize = 1
  FillFaults = 1
  Stoppers = {"signal", "restart"}
  MaxBoots = 2
  MaxRpcs = 1
INVARIANTS
  FanOutSafe
  InOrder
  DrainedInOrder
PROPERTIES
  KeepsFeed
  FeedCatchesUp
  EverythingStops
CHECK_DEADLOCK FALSE
