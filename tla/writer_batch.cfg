\* Batches of up to three, with a multi-operation request, a checkpoint and Shutdown found while draining.
CONSTANTS
  Req = {"first", "retry", "multi", "refused"}
  Ask = {"checkpoint"}
  Shutdown = "shutdown"
  Key = {"k"}
  NoKey = "none"
  Body = {"a", "b", "ab", "drop"}
  Rejected = {"drop"}
  KeyOf <- MCKeyOf
  BodyOf <- MCBodyOf
  OpCount <- MCOpCount
  TrackCommits = TRUE
  Idempotency = TRUE
  Capacity = 3
  Batching = TRUE
  MaxBatch = 3
  LatencyCap = 1
  Faults = {"error", "deferred", "begin"}
  MaxCrashes = 0
SPECIFICATION Spec
INVARIANTS
  FailedMeansRolledBack
  ClosedNeverRan
  ArrivalOrder
  AnsweredInOrder
PROPERTIES
  AnsweredOnce
  ImplementsLoop
