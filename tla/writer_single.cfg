\* One request, one transaction: every fault, a retry, a conflict, a crash.
CONSTANTS
  Req = {"first", "retry", "conflict", "plain"}
  Ask = {}
  Shutdown = "shutdown"
  Key = {"k"}
  NoKey = "none"
  Body = {"a", "b", "ab", "drop"}
  Rejected = {"drop"}
  KeyOf <- MCKeyOf
  BodyOf <- MCBodyOf
  OpCount <- MCTwoOps
  TrackCommits = TRUE
  Idempotency = TRUE
  Capacity = 2
  Batching = FALSE
  MaxBatch = 0
  LatencyCap = 1
  Faults = {"error", "abort", "deferred", "begin", "commit"}
  MaxCrashes = 1
SPECIFICATION Spec
INVARIANTS
  TypeOK
  SequenceGapless
  SerialHistory
  DedupRecordAtomic
  CommittedIsDurable
  FailedMeansRolledBack
  ConflictIsReal
