\* A signal during a flush pass.
SPECIFICATION Spec
CONSTANTS
  MaxScans = 2
  Payloads = {1, 2}
  Main = main
  Flusher = flusher
  Handlers = {}
  Modes = {"daemon"}
  Faults = {"signal"}
  Poison = {}
PROPERTY FlushDeletesDelivered
