SPECIFICATION ControlSpec
CONSTANTS
  a1 = a1
  a2 = a2
  t1 = t1
  t2 = t2
  c1 = c1
  c2 = c2
  o1 = o1
  o2 = o2
  Agents = {a1}
  Tasks = {t1, t2}
  Prios = {1}
  Prio <- SamePrio
  Callers = {c1}
  Assigner = Assigner
  Monitor = Monitor
  NoTask = NoTask
  None = None
  CrashThreshold = 1
  HasBackoff = TRUE
  HasSubstrate = FALSE
  MayStop = FALSE
  MaxFaults = 0
  Operators = {o1}
  CtlOps = {"Reassign"}
  HasReaper = FALSE
  MaxRequests = 2
INVARIANTS
  ReassignNeverLoses
