\* Scans of a daemon, or of several browsers, into a service with two workers and
\* a buffer of two; agent and service may be killed, the backend may be away.
SPECIFICATION PipelineSpec
CONSTANTS
  MaxScans = 2
  Payloads = {1, 2}
  Main = main
  Flusher = flusher
  Handlers = {h1, h2}
  Modes = {"daemon", "ui"}
  Faults = {"late", "busy", "crash"}
  Poison = {}
  Workers = {w1, w2}
  BufferSize = 2
SYMMETRY Alike
INVARIANTS
  PipelineInv
  EndToEnd
  SavedTwiceOnlyInDoubt
PROPERTIES
  RowGoesBackOnly
CHECK_DEADLOCK TRUE
