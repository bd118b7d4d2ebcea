\* SQLite rolls back the transaction of a batch in the middle: a later item is committed and answered as failed.
CONSTANTS
  Req = {"plain", "other", "first"}
  Ask = {}
  Shutdown = "shutdown"
  Key = {"k"}
  NoKey = "none"
  Body = {"a", "b", "ab", "drop"}
  Rejected = {"drop"}
  KeyOf <- MCKeyOf
  BodyOf <- MCBodyOf
  OpCount <- MCOpCount
  TrackCommits = TRUE
  Idempotency = TRUE
  Capacity = 2
  Batching = TRUE
  MaxBatch = 3
  LatencyCap = 1
  Faults = {"abort"}
  MaxCrashes = 0
SPECIFICATION Spec
INVARIANTS
  FailedMeansRolledBack
