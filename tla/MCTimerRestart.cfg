SPECIFICATION MCSpec
CONSTANTS
  a = a
  b = b
  c = c
  a1 = a1
  a2 = a2
  a3 = a3
  z1 = z1
  z2 = z2
  m1 = m1
  m2 = m2
  g1 = g1
  g2 = g2
  j1 = j1
  j2 = j2
  w1 = w1
  w2 = w2
  h1 = h1
  c1 = c1
  Zero = Zero
  Nil = Nil
  Items <- MCItems
  Requests <- MCRequests
  DefaultSize = 3
  Starters <- MCStarters
  Stoppers <- MCStoppers
  Names <- MCNames
  Shard <- MCShard
  Callers <- MCCallers
  Values <- MCValues
  Deltas <- MCDeltas
  MaxOps = 4
  InitVal = 0
  Step = 1
  MinVal = 0
  MaxVal = 2
  Jobs <- MCJobs
  Batch <- MCBatch
  WorkerIds <- MCWorkerIds
  HealthCheckers <- MCHealthCheckers
  Closers <- MCClosers
  Targets <- MCTargets
  InitWorkers = 2
  QueueSize = 1
  Parts = {"timer"}
PROPERTY
  EveryStopEnds
CHECK_DEADLOCK FALSE
