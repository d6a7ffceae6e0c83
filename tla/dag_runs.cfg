SPECIFICATION DagFairSpec
CONSTANTS
  n1 = n1
  n2 = n2
  n3 = n3
  t1 = t1
  t2 = t2
  t3 = t3
  e1 = e1
  e2 = e2
  Execs = {e1}
  Nodes = {n1, n2, n3}
  Tasks = {t1, t2, t3}
  Submitters <- MCSubmitters
  TaskOf <- OwnTask
  Specs <- MCSpecs
  Chans = {c1, c2, c3}
  NoChan = NoChan
  StoreMayFail = TRUE
  MayShutdown = TRUE
INVARIANTS
  NoStrandedWaiter
  NilMeansDone
  SortIsTight
  WorkInOrder
PROPERTIES
  KeepsContract
  ExecutionEnds
  ShutdownReturns
  RegistryDrains
