SPECIFICATION ServicesSpec
CONSTANTS
  s1 = s1
  s2 = s2
  s3 = s3
  d1 = d1
  u = u
  p = p
  t1 = t1
  t2 = t2
  w1 = w1
  w2 = w2
  a1 = a1
  a2 = a2
  a3 = a3
  c1 = c1
  c2 = c2
  m1 = m1
  m2 = m2
  l1 = l1
  l2 = l2
  g1 = g1
  Spawns = {s1, s2, s3}
  Despawns = {d1}
  Capacity = 2
  MaxAsk = 1
  MaxStale = 1
  MaxAgents = 2
  Updater = u
  Probes = {p}
  MinAgents = 2
  MaxOutages = 1
  Tasks = {t1, t2}
  Prios = {1, 2}
  Writers = {w1, w2}
  IDs = {a1, a2, a3}
  Consumers = {c1, c2}
  NoTask = NoTask
  MaxEnqueues = 3
  MaxLog = 3
  Models = {m1, m2}
  Providers = {l1, l2}
  Tiers = {g1}
  Calls = {c1}
  MaxFallbacks = 2
  MaxTime = 1
  MaxRecords = 2
  MaxTokens = 2
  Shown = {a1}
  MaxChanges = 3
  MaxCuts = 1
  MaxDrops = 1
  MaxCommands = 2
  Doublings = 1
INVARIANTS
  FloorCapacity
  NoLeakedToken
  Placed
  ReadyIsHonest
  MetaSurvives
  SweepComplete
  ErrorsTellAll
  ReportAdds
PROPERTIES
  KeepsStoreContract
  HealthSettles
  CacheSettles
  CommandsReturn
CHECK_DEADLOCK FALSE
