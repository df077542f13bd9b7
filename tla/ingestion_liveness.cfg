\* Signals, restarts and a database that stalls: what must eventually happen.
SPECIFICATION FairSpec
CONSTANTS
  NoTask = NoTask
  Requests = {r1, r2, bad}
  Invalid = {}
  Unusable = {bad}
  Workers = {w1}
  BufferSize = 2
  Faults = {"signal", "client", "stall"}
PROPERTIES
  QueuedSettles
  ShutdownCompletes
CHECK_DEADLOCK TRUE
