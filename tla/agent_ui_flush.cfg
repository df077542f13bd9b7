\* The -ui mode after an outage.
SPECIFICATION FairSpec
CONSTANTS
  MaxScans = 1
  Payloads = {1}
  Main = main
  Flusher = flusher
  Handlers = {h1}
  Modes = {"ui"}
  Faults = {}
  Poison = {}
PROPERTY CachedIsFlushed
