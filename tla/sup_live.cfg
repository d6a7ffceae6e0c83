SPECIFICATION FairSpec
CONSTANTS
  a1 = a1
  a2 = a2
  t1 = t1
  t2 = t2
  c1 = c1
  c2 = c2
  Agents = {a1}
  Tasks = {t1}
  Prios = {1}
  Prio <- SamePrio
  Callers = {c1}
  Assigner = Assigner
  Monitor = Monitor
  NoTask = NoTask
  None = None
  CrashThreshold = 1
  HasBackoff = TRUE
  HasSubstrate = FALSE
  MayStop = FALSE
  MaxFaults = 1
PROPERTIES
  EveryoneReturns
  SilentAgentRecovered
INVARIANTS
  SentinelIsTransient
  CrashesBounded
