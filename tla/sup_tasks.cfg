SPECIFICATION Spec
CONSTANTS
  a1 = a1
  a2 = a2
  t1 = t1
  t2 = t2
  c1 = c1
  c2 = c2
  Agents = {a1}
  Tasks = {t1, t2}
  Prios = {1, 2}
  Prio <- MixPrio
  Callers = {c1}
  Assigner = Assigner
  Monitor = Monitor
  NoTask = NoTask
  None = None
  CrashThreshold = 1
  HasBackoff = TRUE
  HasSubstrate = TRUE
  MayStop = TRUE
  MaxFaults = 0
INVARIANTS
  TypeOK
  TaskHasOnePlace
PROPERTY BenchRespected
SYMMETRY Sym
