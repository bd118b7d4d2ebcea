\* One item of a batch leaves a deferred constraint violated: every item fails.
CONSTANTS
  Req = {"plain", "other", "first"}
  Ask = {}
  Shutdown = "shutdown"
  Key = {"k"}
  NoKey = "none"
  Body = {"a", "b", "ab", "drop"}
  Rejected = {"drop"}
  KeyOf <- MCKeyOf
  BodyOf <- MCBodyOf
  OpCount <- MCOpCount
  TrackCommits = TRUE
  Idempotency = TRUE
  Capacity = 2
  Batching = TRUE
  MaxBatch = 3
  LatencyCap = 1
  Faults = {"deferred"}
  MaxCrashes = 0
SPECIFICATION Spec
INVARIANTS
  BatchIsolation
