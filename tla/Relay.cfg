\* One request, streamed or whole, a cancellation, and a client that leaves.
SPECIFICATION Spec
CONSTANTS
  Writer = {r1}
  Canceller = {c1}
  Nobody = Nobody
  Reason <- MCReason
  Success = {"stop"}
  Finish = {"stop", "failed"}
  MemoryLimit = 1
  MaxLog = 1
  MaxChunk = 2
  Keep = 2
  Limit = 4
  MaxBody = 8
  r1 = r1
  c1 = c1
CHECK_DEADLOCK FALSE
INVARIANTS
  RelayTypeOK
  ClientSeesOneAnswer
  CancelledStopsForwarding
  ActiveWhileOpen
  SuccessWasEarned
  OrdinaryFramesRead
