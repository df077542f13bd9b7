\* One scan, two pool workers, every point of cancellation.
SPECIFICATION Spec
CONSTANTS
  f1 = f1
  f2 = f2
  f3 = f3
  f4 = f4
  broken = broken
  keyless = keyless
  app1 = app1
  app2 = app2
  k1 = k1
  k2 = k2
  k3 = k3
  k4 = k4
  p1 = p1
  p2 = p2
  p3 = p3
  NoKey = NoKey
  Procs <- MCProcs
  PoolWorkers = {w1, w2}
  Files <- MCFiles
  Keys <- MCKeys
  KeyOf <- MCKeyOf
  Malformed = {broken}
  Roots <- MCRoots
  Missing = {1}
  Apps <- MCApps
  Runs <- MCRuns
  Faults = {"cancel", "hardware", "list"}
INVARIANTS
  OnlyLastRootCut
  SendNeverBlocks
  ScanInv
  CompleteUnlessCancelled
PROPERTIES
  CollectReturns
\* Collect returns.
CHECK_DEADLOCK FALSE
