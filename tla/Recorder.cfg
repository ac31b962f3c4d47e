\* Five entries, logs of two, failures of the disk and deaths of the core.
SPECIFICATION RecorderSpec
CONSTANTS
  Writer = {w1, w2, w3, w4, w5}
  Nobody = Nobody
  Reason = {"none", "stop"}
  Success = {"stop"}
  MemoryLimit = 2
  MaxLog = 2
SYMMETRY MCSymmetry
CHECK_DEADLOCK FALSE
INVARIANTS
  LogKeepsLatest
PROPERTIES
  AggregateAddsLogged
