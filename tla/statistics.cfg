\* An HTTP connection whose handlers may be dropped, a checkpoint, and somebody who reads the statistics.
CONSTANTS
  Write = {"http"}
  Single = {"http"}
  Ask = {"admin"}
  Shutdown = "shutdown"
  Batching = FALSE
  MaxBatch = 0
  Capacity = 1
  Overflow <- MCOverflow
  SingleThreaded = FALSE
  Uds = {}
  Http = {"http", "admin"}
  Observed = TRUE
  MaxCalls = 0
  Forms = {"execute"}
  MaxRequests = 2
SPECIFICATION ServeSpec
INVARIANTS
  CountersTrue
  SnapshotBounds
