\* Two workers, a buffer of two, five requests: saturation, unusable tasks,
\* database errors, signals, kills and restarts.
SPECIFICATION Spec
CONSTANTS
  NoTask = NoTask
  Requests = {r1, r2, r3, bad, nohdr}
  Invalid = {nohdr}
  Unusable = {bad}
  Workers = {w1, w2}
  BufferSize = 2
  Faults = {"signal", "client", "crash", "db", "norepo"}
SYMMETRY FullSymmetry
INVARIANTS
  NoSendOnClosed
  TaskInOnePlace
  ServiceInv
PROPERTIES
  FateFinal
  KeepsIntake
CHECK_DEADLOCK TRUE
