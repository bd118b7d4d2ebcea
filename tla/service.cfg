\* A client of the socket and an HTTP connection, with cancelled calls, a Ctrl-C and servers that fail.
CONSTANTS
  Write = {"client", "http"}
  Single = {"client", "http"}
  Ask = {}
  Shutdown = "shutdown"
  Batching = FALSE
  MaxBatch = 0
  Capacity = 1
  Overflow <- MCOverflow
  SingleThreaded = FALSE
  Uds = {"client"}
  Http = {"http"}
  Observed = FALSE
  MaxCalls = 2
  Forms = {"execute", "long"}
  MaxRequests = 1
SPECIFICATION FairServe
INVARIANTS
  RepliesInOrder
  RepliesTrue
  HttpNeverClosed
PROPERTIES
  EveryClientCallEnds
  CtrlCStops
