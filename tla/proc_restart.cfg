SPECIFICATION ProcessSpec
CONSTANTS
  k1 = k1
  k2 = k2
  Conns = {k1}
  MaxEvents = 0
  MaxDials = 1
  Batch = 1
  BufSize = 1
  FillFaults = 0
  Stoppers = {"signal", "restart"}
  MaxBoots = 2
  MaxRpcs = 1
PROPERTIES
  RestartReexecs
CHECK_DEADLOCK FALSE
