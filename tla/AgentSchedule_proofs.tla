------------------------ MODULE AgentSchedule_proofs ------------------------
(***************************************************************************)
(* The agent scans neither too seldom nor too often, and stops for no      *)
(* other reason than it should, for every configuration file.              *)
(***************************************************************************)
EXTENDS AgentSchedule, TLAPS

-----------------------------------------------------------------------------
(* The configuration.                                                      *)

\* LoadConfig parses what the file means.
LEMMA Parsed ==
  ASSUME file \in File
  PROVE  /\ Loads(file) =>
              /\ Interval = WantedInterval /\ Interval \in Int /\ Interval < AgeCap
              /\ MaxJitter(file) = WantedJitter /\ WantedJitter \in Int
              /\ WorstJitter \in Nat /\ JitterRange \subseteq 0 .. WorstJitter
              /\ Least \in Int /\ Least <= Interval
<1> SUFFICES ASSUME Loads(file)
             PROVE  /\ Interval = WantedInterval /\ Interval \in Int /\ Interval < AgeCap
                    /\ MaxJitter(file) = WantedJitter /\ WantedJitter \in Int
                    /\ WorstJitter \in Nat /\ JitterRange \subseteq 0 .. WorstJitter
                    /\ Least \in Int /\ Least <= Interval
  OBVIOUS
<1>1. /\ file.interval \in Intervals /\ file.jitter \in Jitters
      /\ file.interval # Malformed /\ file.jitter # Malformed
  BY DEF File, Loads
<1>2. /\ file.interval \in Int \union {Missing, Empty}
      /\ file.jitter \in Int \union {Missing, Empty}
  BY <1>1, ScheduleAssumption DEF Texts
<1>3. DefaultInterval \in Int /\ DefaultJitter \in Int /\ Missing \notin Int /\ Empty \notin Int
  BY ScheduleAssumption
<1>4. Interval = WantedInterval /\ Interval \in Int
  BY <1>2, <1>3 DEF Interval, ScanInterval, Unmarshal, ParseDuration, WantedInterval, Means
<1>5. MaxJitter(file) = WantedJitter /\ WantedJitter \in Int
  BY <1>2, <1>3 DEF MaxJitter, Unmarshal, ParseDuration, WantedJitter, Means
<1>6. WantedInterval < AgeCap
  BY <1>1, <1>2, ScheduleAssumption DEF WantedInterval, Means
<1>7. WorstJitter \in Nat
  BY <1>5 DEF WorstJitter
<1>8. JitterRange \subseteq 0 .. WorstJitter
  BY <1>5 DEF JitterRange, WorstJitter
<1> QED
  BY <1>4, <1>5, <1>6, <1>7, <1>8 DEF Least

\* file is not read again.
LEMMA SameConfig ==
  ASSUME file' = file
  PROVE  /\ Interval' = Interval /\ WorstJitter' = WorstJitter /\ Least' = Least
         /\ Loads(file)' = Loads(file)
         /\ WantedInterval' = WantedInterval
BY DEF Interval, ScanInterval, WorstJitter, WantedJitter, WantedInterval, Least, Loads

LEMMA ScheduleInvInit == ScheduleInit => ScheduleInv
<1> SUFFICES ASSUME ScheduleInit PROVE ScheduleInv
  OBVIOUS
<1>1. ages \in [1 .. 2 -> 0 .. AgeCap] /\ ages[1] = AgeCap /\ ages[2] = AgeCap
  BY ScheduleAssumption DEF ScheduleInit
<1>2. ScheduleTypeOK
  BY <1>1 DEF ScheduleInit, ScheduleTypeOK
<1>3. phase = "main" /\ status = "running" /\ ~scanned /\ ~ticked
  BY DEF ScheduleInit
<1>4. Outcome /\ Waiting /\ Spacing
  BY <1>3 DEF Outcome, Alive, Waiting, Spacing
<1>5. Ticking
  BY <1>1, <1>3 DEF Ticking, Alive
<1> QED
  BY <1>2, <1>4, <1>5 DEF ScheduleInv

-----------------------------------------------------------------------------
(* Steps.                                                                  *)

\* main and Start's returns.
LEMMA EndStep ==
  ASSUME ScheduleInv, ConfigFails \/ VerifyCert \/ Stopped
  PROVE  ScheduleInv'
<1>1. /\ phase' = "ended" /\ status' \in {"ok", "failed"}
      /\ UNCHANGED <<file, verify, signalled, ticker, jitterLeft, past>>
  BY DEF ConfigFails, VerifyCert, Stopped, End
<1>2. ASSUME ConfigFails \/ VerifyCert PROVE Outcome'
  <2>1. /\ ~scanned /\ ages[1] = AgeCap
        /\ status' = "failed" => ~Loads(file) \/ verify
        /\ status' = "ok" => verify
    BY <1>2 DEF ConfigFails, VerifyCert, End, ScheduleInv, Ticking
  <2> QED
    BY <1>1, <2>1, SameConfig DEF Outcome, Alive, past
<1>3. ScheduleTypeOK'
  BY <1>1 DEF ScheduleInv, ScheduleTypeOK, ticker, past
<1>4. ASSUME Stopped PROVE Outcome'
  <2>1. /\ status' = "ok" /\ signalled /\ Loads(file)
        /\ phase \in {"wait", "jitter"}
    BY <1>4 DEF Stopped, End, ScheduleInv, Outcome, Alive
  <2>2. Interval > 0
    BY <2>1 DEF ScheduleInv, Ticking, Alive
  <2> QED
    BY <1>1, <2>1, <2>2, SameConfig DEF Outcome, Alive
<1>5. Ticking'
  BY <1>1 DEF ScheduleInv, Ticking, Alive, ticker, past
<1>6. Waiting' /\ Spacing'
  BY <1>1 DEF Waiting, Spacing
<1> QED
  BY <1>2, <1>3, <1>4, <1>5, <1>6 DEF ScheduleInv

LEMMA SignalStep == ASSUME ScheduleInv, Signal PROVE ScheduleInv'
<1>1. /\ signalled' = TRUE
      /\ UNCHANGED <<file, verify, phase, status, tickIn, ticked, jitterLeft, scanned, quiet, ages>>
  BY DEF Signal, ticker, past
<1>2. ScheduleTypeOK'
  BY <1>1 DEF ScheduleInv, ScheduleTypeOK
<1> QED
  BY <1>1, <1>2, SameConfig DEF ScheduleInv, Outcome, Alive, Ticking, Waiting, Spacing

LEMMA FirstScanStep == ASSUME ScheduleInv, FirstScan PROVE ScheduleInv'
<1>1. /\ phase = "main" /\ Loads(file) /\ phase' = "scan" /\ ages' = <<0, ages[1]>>
      /\ UNCHANGED <<file, verify, status, signalled, tickIn, ticked, jitterLeft, scanned, quiet>>
  BY DEF FirstScan, StartScan, ticker
<1>2. ages[1] = AgeCap
  BY <1>1 DEF ScheduleInv, Ticking
<1>3. ScheduleTypeOK'
  <2>1. ages' \in [1 .. 2 -> 0 .. AgeCap]
    BY <1>1, <1>2, ScheduleAssumption
  <2> QED
    BY <1>1, <2>1 DEF ScheduleInv, ScheduleTypeOK
<1>4. ~scanned /\ status = "running"
  BY <1>1 DEF ScheduleInv, Ticking, Outcome
<1> QED
  BY <1>1, <1>2, <1>3, <1>4, SameConfig
  DEF ScheduleInv, Outcome, Alive, Ticking, Waiting, Spacing

LEMMA FirstScanEndsStep == ASSUME ScheduleInv, FirstScanEnds PROVE ScheduleInv'
<1>1. /\ phase = "scan" /\ ~scanned /\ scanned' /\ quiet' = 0
      /\ UNCHANGED <<file, verify, signalled, jitterLeft, ages, ticked>>
  BY DEF FirstScanEnds, EndScan, ticker
<1>2. /\ Loads(file) /\ ~ticked /\ ages[2] = AgeCap /\ status = "running"
      /\ file \in File /\ AgeCap \in Nat
  BY <1>1, ScheduleAssumption DEF ScheduleInv, ScheduleTypeOK, Outcome, Alive, Ticking
<1>3. Interval \in Int /\ Interval < AgeCap /\ WorstJitter \in Nat
  BY <1>2, Parsed
<1>4. CASE Interval > 0 /\ phase' = "wait" /\ tickIn' = Interval /\ UNCHANGED status
  <2>1. ScheduleTypeOK'
    BY <1>1, <1>3, <1>4 DEF ScheduleInv, ScheduleTypeOK
  <2>2. Outcome'
    BY <1>1, <1>2, <1>4, SameConfig DEF Outcome, Alive
  <2>3. Ticking'
    BY <1>1, <1>3, <1>4, SameConfig DEF Ticking, Alive
  <2>4. Waiting'
    BY <1>1, <1>3, <1>4, SameConfig DEF Waiting
  <2>5. Spacing'
    BY <1>1, <1>2, <1>3, <1>4, SameConfig DEF Spacing, Least
  <2> QED
    BY <2>1, <2>2, <2>3, <2>4, <2>5 DEF ScheduleInv
<1>5. CASE Interval <= 0 /\ End("panicked") /\ UNCHANGED tickIn
  <2>1. ScheduleTypeOK'
    BY <1>1, <1>5 DEF ScheduleInv, ScheduleTypeOK, End
  <2>2. Outcome' /\ Ticking' /\ Waiting' /\ Spacing'
    BY <1>1, <1>2, <1>5, SameConfig DEF End, Outcome, Alive, Ticking, Waiting, Spacing
  <2> QED
    BY <2>1, <2>2 DEF ScheduleInv
<1> QED
  BY <1>4, <1>5 DEF FirstScanEnds, ticker

LEMMA ScanEndsStep == ASSUME ScheduleInv, ScanEnds PROVE ScheduleInv'
<1>1. /\ phase = "scan" /\ scanned /\ scanned' /\ quiet' = 0 /\ phase' = "wait"
      /\ UNCHANGED <<file, verify, status, signalled, jitterLeft, ages, tickIn, ticked>>
  BY DEF ScanEnds, EndScan, ticker
<1>2. /\ Loads(file) /\ file \in File /\ Interval \in Int
      /\ Interval > 0 /\ tickIn \in 1 .. Interval
  BY <1>1, Parsed DEF ScheduleInv, ScheduleTypeOK, Outcome, Alive, Ticking
<1>3. ScheduleTypeOK'
  BY <1>1 DEF ScheduleInv, ScheduleTypeOK
<1>4. Outcome' /\ Ticking'
  BY <1>1, SameConfig DEF ScheduleInv, Outcome, Alive, Ticking
<1>5. Waiting'
  BY <1>1, <1>2, SameConfig DEF Waiting
<1>6. Spacing'
  BY <1>1, SameConfig DEF ScheduleInv, Spacing
<1> QED
  BY <1>3, <1>4, <1>5, <1>6 DEF ScheduleInv

LEMMA TakeTickStep == ASSUME ScheduleInv, TakeTick PROVE ScheduleInv'
<1>1. /\ phase = "wait" /\ ticked /\ phase' = "jitter" /\ ~ticked'
      /\ ticked' \in BOOLEAN /\ jitterLeft' \in JitterRange
      /\ UNCHANGED <<file, verify, status, signalled, tickIn, scanned, quiet, ages>>
  BY DEF TakeTick, past
<1>2. /\ Loads(file) /\ file \in File /\ scanned /\ quiet \in Nat
  BY <1>1 DEF ScheduleInv, ScheduleTypeOK, Outcome, Alive, Ticking
<1>3. Interval \in Int /\ WorstJitter \in Nat /\ jitterLeft' \in 0 .. WorstJitter
  BY <1>1, <1>2, Parsed
<1>4. ScheduleTypeOK'
  BY <1>1, <1>3 DEF ScheduleInv, ScheduleTypeOK
<1>5. Outcome' /\ Ticking'
  BY <1>1, SameConfig DEF ScheduleInv, Outcome, Alive, Ticking
<1>6. Waiting'
  <2>1. quiet <= Interval
    BY <1>1 DEF ScheduleInv, Waiting
  <2>2. PICK n \in 0 .. WorstJitter : jitterLeft' = n
    BY <1>3
  <2>3. n <= WorstJitter /\ quiet + n <= Interval + WorstJitter
    BY <1>2, <1>3, <2>1
  <2> QED
    BY <1>1, <2>2, <2>3, SameConfig DEF Waiting
<1>7. Spacing'
  BY <1>1, SameConfig DEF ScheduleInv, Spacing
<1> QED
  BY <1>4, <1>5, <1>6, <1>7 DEF ScheduleInv

LEMMA JitterOverStep == ASSUME ScheduleInv, JitterOver PROVE ScheduleInv'
<1>1. /\ phase = "jitter" /\ jitterLeft = 0 /\ phase' = "scan" /\ ages' = <<0, ages[1]>>
      /\ UNCHANGED <<file, verify, status, signalled, tickIn, ticked, jitterLeft, scanned, quiet>>
  BY DEF JitterOver, StartScan, ticker
<1>2. /\ Loads(file) /\ file \in File /\ scanned /\ tickIn \in Nat
      /\ ages[1] \in 0 .. AgeCap /\ AgeCap \in Nat
  BY <1>1, ScheduleAssumption DEF ScheduleInv, ScheduleTypeOK, Outcome, Alive, Ticking
<1>3. Interval \in Int /\ WorstJitter \in Nat /\ Least \in Int /\ Least = Interval - WorstJitter
  BY <1>2, Parsed DEF Least
<1>4. ScheduleTypeOK'
  BY <1>1, <1>2 DEF ScheduleInv, ScheduleTypeOK
<1>5. Outcome' /\ Ticking' /\ Waiting'
  BY <1>1, <1>2, SameConfig DEF ScheduleInv, Outcome, Alive, Ticking, Waiting
<1>6. Spacing'
  <2>1. IF ticked THEN ages[1] > Least /\ Interval - tickIn < WorstJitter
        ELSE ages[1] + tickIn > Least
    BY <1>1, <1>2, <1>3 DEF ScheduleInv, Spacing
  <2>2. ages'[1] = 0 /\ ages'[2] = ages[1]
    BY <1>1
  <2>3. IF ticked' THEN ages'[2] > Least' /\ ages'[1] + tickIn' > Least'
        ELSE ages'[2] + tickIn' > Least'
    BY <1>1, <1>2, <1>3, <2>1, <2>2, SameConfig
  <2> QED
    BY <1>1, <2>3 DEF Spacing
<1> QED
  BY <1>4, <1>5, <1>6 DEF ScheduleInv

\* A unit of time.
LEMMA ElapseStep == ASSUME ScheduleInv, Elapse PROVE ScheduleInv'
<1>1. /\ Alive /\ UNCHANGED <<file, verify, phase, status, signalled, scanned>>
      /\ phase = "wait" => ~ticked
      /\ phase = "jitter" => jitterLeft > 0
      /\ jitterLeft' = IF phase = "jitter" THEN jitterLeft - 1 ELSE jitterLeft
      /\ quiet' = IF phase = "scan" THEN quiet ELSE quiet + 1
  BY DEF Elapse, Alive
<1>2. /\ Loads(file) /\ file \in File /\ tickIn \in Nat /\ jitterLeft \in Nat /\ quiet \in Nat
      /\ ages[1] \in 0 .. AgeCap /\ ages[2] \in 0 .. AgeCap /\ AgeCap \in Nat
      /\ scanned \in BOOLEAN /\ ticked \in BOOLEAN
  BY <1>1, ScheduleAssumption DEF ScheduleInv, ScheduleTypeOK, Outcome
<1>3. /\ Interval \in Int /\ Interval < AgeCap /\ WorstJitter \in Nat
      /\ Least \in Int /\ Least = Interval - WorstJitter /\ Least < AgeCap
  BY <1>2, Parsed DEF Least
<1>4. /\ ages'[1] = Older(ages[1]) /\ ages'[2] = Older(ages[2])
      /\ ages' \in [1 .. 2 -> 0 .. AgeCap]
  BY <1>2 DEF Elapse, Older
<1>5. \A i \in 1 .. 2 :
        /\ ages'[i] \in 0 .. AgeCap
        /\ ages'[i] = AgeCap \/ ages'[i] = ages[i] + 1
        /\ ages'[i] >= ages[i]
  BY <1>2, <1>4 DEF Older
<1>6. CASE ~scanned
  <2>1. phase = "scan" /\ UNCHANGED <<tickIn, ticked, jitterLeft, quiet>> /\ ages'[2] = AgeCap
    BY <1>1, <1>2, <1>4, <1>6 DEF Elapse, Tick, ticker, ScheduleInv, Ticking, Alive, Older
  <2>2. ScheduleTypeOK'
    BY <1>1, <1>4, <2>1 DEF ScheduleInv, ScheduleTypeOK
  <2> QED
    BY <1>1, <1>6, <2>1, <2>2, SameConfig
    DEF ScheduleInv, Outcome, Alive, Ticking, Waiting, Spacing
<1>7. CASE scanned
  <2>1. /\ tickIn \in 1 .. Interval
        /\ tickIn' = IF tickIn = 1 THEN Interval ELSE tickIn - 1
        /\ ticked' = (ticked \/ tickIn = 1)
    BY <1>1, <1>7 DEF Elapse, Tick, ScheduleInv, Ticking
  <2>2. tickIn' \in 1 .. Interval
    BY <1>3, <2>1
  <2>3. ScheduleTypeOK'
    <3>1. tickIn' \in Nat /\ quiet' \in Nat /\ jitterLeft' \in Nat
      BY <1>1, <1>2, <1>3, <2>2
    <3>2. ticked' \in BOOLEAN
      BY <2>1
    <3> QED
      BY <1>1, <1>4, <3>1, <3>2 DEF ScheduleInv, ScheduleTypeOK
  <2>4. Outcome'
    BY <1>1, SameConfig DEF ScheduleInv, Outcome, Alive
  <2>5. Ticking'
    BY <1>1, <1>3, <1>7, <2>2, SameConfig DEF Ticking, Alive
  <2>6. Waiting'
    <3>1. CASE phase = "wait"
      <4>1. quiet' = quiet + 1 /\ quiet + tickIn <= Interval
        BY <1>1, <3>1 DEF ScheduleInv, Waiting
      <4>2. quiet' <= Interval /\ (tickIn # 1 => quiet' + tickIn' <= Interval)
        BY <1>2, <1>3, <2>1, <4>1
      <4> QED
        BY <1>1, <2>1, <3>1, <4>2, SameConfig DEF Waiting
    <3>2. CASE phase = "jitter"
      <4>1. jitterLeft' <= WorstJitter /\ quiet' + jitterLeft' <= Interval + WorstJitter
        BY <1>1, <1>2, <1>3, <3>2 DEF ScheduleInv, Waiting
      <4> QED
        BY <1>1, <3>2, <4>1, SameConfig DEF Waiting
    <3>3. CASE phase = "scan"
      BY <1>1, <3>3 DEF Waiting
    <3> QED
      BY <1>1, <3>1, <3>2, <3>3 DEF Alive
  <2>7. Spacing'
    <3>1. CASE phase \in {"scan", "wait"}
      <4>1. IF ticked THEN ages[2] > Least /\ ages[1] + tickIn > Least
            ELSE ages[2] + tickIn > Least
        BY <1>7, <3>1 DEF ScheduleInv, Spacing
      <4>2. CASE tickIn = 1
        <5>1. ages'[2] > Least /\ ages'[1] + Interval > Least
          BY <1>2, <1>3, <1>5, <2>1, <4>1, <4>2
        <5> QED
          BY <1>1, <2>1, <3>1, <4>2, <5>1, SameConfig DEF Spacing
      <4>3. CASE tickIn # 1
        <5>1. /\ ticked' = ticked /\ tickIn' = tickIn - 1
          BY <1>2, <2>1, <4>3
        <5>2. IF ticked THEN ages'[2] > Least /\ ages'[1] + (tickIn - 1) > Least
              ELSE ages'[2] + (tickIn - 1) > Least
          BY <1>2, <1>3, <1>5, <2>1, <4>1, <4>3
        <5> QED
          BY <1>1, <3>1, <5>1, <5>2, SameConfig DEF Spacing
      <4> QED
        BY <4>2, <4>3
    <3>2. CASE phase = "jitter"
      <4>1. /\ ages[2] > Least
            /\ IF ticked THEN ages[1] > Least /\ Interval - tickIn + jitterLeft < WorstJitter
               ELSE ages[1] + tickIn > Least
        BY <1>7, <3>2 DEF ScheduleInv, Spacing
      <4>2. jitterLeft' = jitterLeft - 1 /\ jitterLeft <= WorstJitter
        BY <1>1, <3>2 DEF ScheduleInv, Waiting
      <4>3. ages'[2] > Least
        BY <1>2, <1>3, <1>5, <4>1
      <4>4. CASE tickIn = 1
        <5>1. ages'[1] > Least /\ Interval - Interval + jitterLeft' < WorstJitter
          BY <1>2, <1>3, <1>5, <4>1, <4>2, <4>4
        <5> QED
          BY <1>1, <2>1, <3>2, <4>3, <4>4, <5>1, SameConfig DEF Spacing
      <4>5. CASE tickIn # 1
        <5>1. /\ ticked' = ticked /\ tickIn' = tickIn - 1
          BY <1>2, <2>1, <4>5
        <5>2. IF ticked THEN ages'[1] > Least /\ Interval - (tickIn - 1) + jitterLeft' < WorstJitter
              ELSE ages'[1] + (tickIn - 1) > Least
          BY <1>2, <1>3, <1>5, <2>1, <4>1, <4>2, <4>5
        <5> QED
          BY <1>1, <3>2, <4>3, <5>1, <5>2, SameConfig DEF Spacing
      <4> QED
        BY <4>4, <4>5
    <3> QED
      BY <1>1, <3>1, <3>2 DEF Alive
  <2> QED
    BY <2>3, <2>4, <2>5, <2>6, <2>7 DEF ScheduleInv
<1> QED
  BY <1>6, <1>7

LEMMA ScheduleInvStep == ScheduleInv /\ [ScheduleNext]_scheduleVars => ScheduleInv'
<1> SUFFICES ASSUME ScheduleInv, [ScheduleNext]_scheduleVars PROVE ScheduleInv'
  OBVIOUS
<1>1. CASE ScheduleNext
  BY <1>1, EndStep, SignalStep, FirstScanStep, FirstScanEndsStep, ScanEndsStep,
     TakeTickStep, JitterOverStep, ElapseStep DEF ScheduleNext
<1>2. CASE UNCHANGED scheduleVars
  <2>1. UNCHANGED <<file, verify, phase, status, signalled, tickIn, ticked, jitterLeft,
                    scanned, quiet, ages>>
    BY <1>2 DEF scheduleVars, ticker, past
  <2>2. ScheduleTypeOK'
    BY <2>1 DEF ScheduleInv, ScheduleTypeOK
  <2> QED
    BY <2>1, <2>2, SameConfig DEF ScheduleInv, Outcome, Alive, Ticking, Waiting, Spacing
<1> QED
  BY <1>1, <1>2

-----------------------------------------------------------------------------
\* The invariant of ticker, jitter and scan holds for every configuration file.
THEOREM ScheduleInvHolds == ScheduleSpec => []ScheduleInv
BY ScheduleInvInit, ScheduleInvStep, PTL DEF ScheduleSpec

\* Between two scans of Agent.Start less than the interval and the jitter of the
\* file passes, however long the scans take.
THEOREM ScheduleSilenceBounded == ScheduleSpec => []SilenceBounded
<1>1. ScheduleInv => SilenceBounded
  <2> SUFFICES ASSUME ScheduleInv, phase \in {"wait", "jitter"}
               PROVE  quiet <= WantedInterval + WorstJitter
    BY DEF SilenceBounded
  <2>1. /\ file \in File /\ Loads(file) /\ quiet \in Nat /\ jitterLeft \in Nat
    BY DEF ScheduleInv, ScheduleTypeOK, Outcome, Alive
  <2>2. Interval = WantedInterval /\ Interval \in Int /\ WorstJitter \in Nat
    BY <2>1, Parsed
  <2>3. quiet <= Interval \/ quiet + jitterLeft <= Interval + WorstJitter
    BY DEF ScheduleInv, Waiting
  <2> QED
    BY <2>1, <2>2, <2>3
<1> QED
  BY <1>1, ScheduleInvHolds, PTL

\* Any three starts of a scan in a row span more than the interval less the
\* jitter: the ticker's channel holds one tick.
THEOREM ScheduleNoBurst == ScheduleSpec => NoBurst
<1>1. ScheduleInv /\ [ScheduleNext]_scheduleVars =>
        [phase # "scan" /\ phase' = "scan" => ages[2] > WantedInterval - WorstJitter]_scheduleVars
  <2> SUFFICES ASSUME ScheduleInv, ScheduleNext, phase # "scan", phase' = "scan"
               PROVE  ages[2] > WantedInterval - WorstJitter
    OBVIOUS
  <2>1. FirstScan \/ JitterOver
    BY DEF ScheduleNext, ConfigFails, VerifyCert, FirstScanEnds, ScanEnds, EndScan,
           TakeTick, Stopped, Signal, Elapse, End
  <2>2. file \in File /\ Loads(file) /\ AgeCap \in Nat
    BY <2>1, ScheduleAssumption
    DEF FirstScan, JitterOver, ScheduleInv, ScheduleTypeOK, Outcome, Alive
  <2>3. /\ Interval = WantedInterval /\ Interval < AgeCap /\ Interval \in Int
        /\ WorstJitter \in Nat
    BY <2>2, Parsed
  <2>4. CASE FirstScan
    <3>1. ages[2] = AgeCap
      BY <2>4 DEF FirstScan, ScheduleInv, Ticking
    <3> QED
      BY <2>2, <2>3, <3>1
  <2>5. CASE JitterOver
    <3>1. phase = "jitter" /\ scanned
      BY <2>5 DEF JitterOver, ScheduleInv, Ticking
    <3> QED
      BY <2>3, <3>1 DEF ScheduleInv, Spacing, Least
  <2> QED
    BY <2>1, <2>4, <2>5
<1> QED
  BY <1>1, ScheduleInvHolds, PTL DEF ScheduleSpec, NoBurst

\* Without -verify-cert, and whatever the file says: main refuses a file that is not
\* valid before any scan; with a valid one, and an interval that is positive, it
\* returns only after a signal, and then with status 0; an interval that is not
\* positive ends it after the first scan.
THEOREM ScheduleRunsUntilSignalled == ScheduleSpec => []RunsUntilSignalled
<1>1. ScheduleInv => RunsUntilSignalled
  <2> SUFFICES ASSUME ScheduleInv, status # "running", ~verify
               PROVE  /\ ~FileIsValid => status = "failed" /\ ages[1] = AgeCap /\ ~scanned
                      /\ FileIsValid /\ WantedInterval <= 0 => status = "panicked" /\ scanned
                      /\ FileIsValid /\ WantedInterval > 0 => status = "ok" /\ signalled
    BY DEF RunsUntilSignalled
  <2>1. FileIsValid <=> Loads(file)
    BY DEF FileIsValid, Loads
  <2>2. Loads(file) => Interval = WantedInterval /\ Interval \in Int
    BY Parsed DEF ScheduleInv, ScheduleTypeOK
  <2>3. /\ status \in {"ok", "failed", "panicked"}
        /\ status = "failed" => ~Loads(file) /\ ~scanned /\ ages[1] = AgeCap
        /\ status = "ok" => signalled /\ Loads(file) /\ Interval > 0
        /\ status = "panicked" => Loads(file) /\ Interval <= 0 /\ scanned
    BY DEF ScheduleInv, ScheduleTypeOK, Outcome
  <2> QED
    BY <2>1, <2>2, <2>3
<1> QED
  BY <1>1, ScheduleInvHolds, PTL
=============================================================================
