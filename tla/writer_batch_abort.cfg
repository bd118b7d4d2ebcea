\* Batches whose transaction SQLite may roll back under them: what holds nevertheless.
CONSTANTS
  Req = {"first", "retry", "conflict", "other"}
  Ask = {}
  Shutdown = "shutdown"
  Key = {"k"}
  NoKey = "none"
  Body = {"a", "b", "ab", "drop"}
  Rejected = {"drop"}
  KeyOf <- MCKeyOf
  BodyOf <- MCBodyOf
  OpCount <- MCOpCount
  TrackCommits = TRUE
  Idempotency = TRUE
  Capacity = 3
  Batching = TRUE
  MaxBatch = 3
  LatencyCap = 1
  Faults = {"error", "abort", "commit"}
  MaxCrashes = 1
SPECIFICATION Spec
INVARIANTS
  CommittedIsDurable
  SerialHistory
  AtMostOncePerKey
