\* Everything queued is answered, Shutdown ends the thread, and the verdicts are those of the abstract log.
CONSTANTS
  Req = {"first", "retry", "multi"}
  Ask = {"checkpoint"}
  Shutdown = "shutdown"
  Key = {"k"}
  NoKey = "none"
  Body = {"a", "b", "ab", "drop"}
  Rejected = {"drop"}
  KeyOf <- MCKeyOf
  BodyOf <- MCBodyOf
  OpCount <- MCOpCount
  TrackCommits = TRUE
  Idempotency = TRUE
  Capacity = 2
  Batching = TRUE
  MaxBatch = 2
  LatencyCap = 1
  Faults = {"error", "commit"}
  MaxCrashes = 1
SPECIFICATION FairSpec
PROPERTIES
  EveryCallAnswered
  ShutdownCompletes
  ImplementsLog
