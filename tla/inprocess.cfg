\* A caller under each overflow policy, cancelled calls, a shutdown or a drop, on a runtime with one thread.
CONSTANTS
  Write = {"single", "other", "multi"}
  Single = {"single", "other"}
  Ask = {"checkpoint"}
  Shutdown = "shutdown"
  Batching = TRUE
  MaxBatch = 2
  Capacity = 2
  Overflow <- MCOverflow
  SingleThreaded = TRUE
SPECIFICATION FairSpec
INVARIANTS
  TypeOK
  InOnePlace
  SlotsConserved
  ReturnedLeavesNothing
  ClosedOnlyByShutdown
  DownMeansStopped
PROPERTIES
  EveryCallReturns
  ShutdownReturns
  LastSenderEndsThread
