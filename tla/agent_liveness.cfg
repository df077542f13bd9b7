\* No crash and no I/O error: what the goroutines must eventually do.
SPECIFICATION FairSpec
CONSTANTS
  MaxScans = 3
  Payloads = {1, 2, 3}
  Main = main
  Flusher = flusher
  Handlers = {h1}
  Modes = {"daemon", "ui"}
  Faults = {"signal", "disconnect"}
  Poison = {2}
PROPERTIES
  BacklogDrains
  SignalledEnds
CHECK_DEADLOCK TRUE
