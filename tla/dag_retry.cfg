SPECIFICATION DagSpec
CONSTANTS
  n1 = n1
  n2 = n2
  n3 = n3
  t1 = t1
  t2 = t2
  t3 = t3
  e1 = e1
  e2 = e2
  Execs = {e1, e2}
  Nodes = {n1}
  Tasks = {t1}
  Submitters <- MCSubmitters
  TaskOf <- SameTask
  Specs <- OneNode
  Chans = {c1, c2, c3}
  NoChan = NoChan
  StoreMayFail = FALSE
  MayShutdown = FALSE
INVARIANTS
  CompletedMeansUnblocked
