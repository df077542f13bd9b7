\* The agent's schedule, a page of the dashboard, a call with backoff, three
\* overlapping calls of the envelope manager, two of the cloud scanner.
SPECIFICATION PartSpec
CONSTANTS
  Missing = Missing
  Empty = Empty
  Malformed = Malformed
  Intervals <- MCIntervals
  Jitters <- MCJitters
  DefaultInterval = 4
  DefaultJitter = 2
  AgeCap = 6
  Period = 3
  Latency = 4
  MaxCalls = 3
  Base = 2
  MaxRetries = 5
  Calls = {1, 2, 3, 4}
  Kms = {TRUE, FALSE}
  Scans = {s1, s2, s3}
  Roles = {r1, r2}
  NoRole = NoRole
  Own = Own
INVARIANTS
  PartInv
  SilenceBounded
  RunsUntilSignalled
  ShownIsFresh
  WaitsDouble
  CancelIsPrompt
  EnvelopeStaysReadable
  NoKeyOutlivesCall
  InventoryIsRoles
PROPERTIES
  NoBurst
\* Calls return, and processes end.
CHECK_DEADLOCK FALSE
