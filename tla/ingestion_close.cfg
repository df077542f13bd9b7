\* A signal while tasks are queued.
SPECIFICATION Spec
CONSTANTS
  NoTask = NoTask
  Requests = {r1, r2}
  Invalid = {}
  Unusable = {}
  Workers = {w1}
  BufferSize = 2
  Faults = {"signal"}
INVARIANT CloseIsGraceful
