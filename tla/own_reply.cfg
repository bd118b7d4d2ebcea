\* What the client's documentation says of its requests.
CONSTANTS
  Write = {"client"}
  Single = {"client"}
  Ask = {}
  Shutdown = "shutdown"
  Batching = FALSE
  MaxBatch = 0
  Capacity = 1
  Overflow <- MCOverflow
  SingleThreaded = FALSE
  Uds = {"client"}
  Http = {}
  Observed = FALSE
  MaxCalls = 2
  Forms = {"execute"}
  MaxRequests = 0
SPECIFICATION ServeSpec
INVARIANT
  OwnReply
