SPECIFICATION ControlFairSpec
CONSTANTS
  a1 = a1
  a2 = a2
  t1 = t1
  t2 = t2
  c1 = c1
  c2 = c2
  o1 = o1
  o2 = o2
  Agents = {a1}
  Tasks = {t1}
  Prios = {1}
  Prio <- SamePrio
  Callers = {c1}
  Assigner = Assigner
  Monitor = Monitor
  NoTask = NoTask
  None = None
  CrashThreshold = 0
  HasBackoff = FALSE
  HasSubstrate = FALSE
  MayStop = FALSE
  MaxFaults = 0
  Operators = {o1}
  CtlOps = {"Cancel"}
  HasReaper = FALSE
  MaxRequests = 1
PROPERTIES
  RaceSelfHeals
