\* Every mode and every fault at once, over restarts on the same table: main,
\* the flusher and the handlers of two browsers.
SPECIFICATION Spec
CONSTANTS
  MaxScans = 3
  Payloads = {1, 2, 3}
  Main = main
  Flusher = flusher
  Handlers = {h1, h2}
  Modes = {"daemon", "oneshot", "ui"}
  Faults = {"crash", "signal", "disconnect", "late", "busy", "enqueue", "query",
            "delete", "noclient", "noqueue"}
  Poison = {2}
SYMMETRY HandlerSymmetry
INVARIANTS
  NoSilentLoss
  AgentInv
  FlushOldestFirst
  RepeatsOnlyInDoubt
PROPERTIES
  RowsLeaveAccepted
  KeepsPromise
CHECK_DEADLOCK TRUE
