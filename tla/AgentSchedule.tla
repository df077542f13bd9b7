--------------------------- MODULE AgentSchedule ---------------------------
(***************************************************************************)
(* When the agent scans: pkg/config (LoadConfig, ParseDurations, Validate),*)
(* cmd/agent's main from its flags to its exit status, and the loop of     *)
(* Agent.Start with its ticker and its jitter.  Time passes in units, and  *)
(* only when no goroutine is ready to run; a scan may take any time.  What *)
(* a scan does is in AgentDelivery.                                        *)
(***************************************************************************)
EXTENDS Integers

CONSTANTS
  Intervals, Jitters,  \* texts of scan_interval and max_jitter, parsed if they parse
  Missing, Empty, Malformed,
  DefaultInterval, DefaultJitter,
  AgeCap               \* bound: ages are counted no further

Texts == Int \union {Missing, Empty, Malformed}

ASSUME ScheduleAssumption ==
  /\ {Missing, Empty, Malformed} \intersect Int = {}
  /\ Intervals \subseteq Texts /\ Jitters \subseteq Texts
  /\ DefaultInterval \in Nat \ {0} /\ DefaultJitter \in Nat \ {0}
  /\ AgeCap \in Nat
  /\ AgeCap > DefaultInterval /\ \A i \in Intervals \intersect Int : AgeCap > i

VARIABLES
  file, verify,        \* the configuration file, and the -verify-cert flag
  phase,               \* where main is
  status,              \* its exit status, or "running"
  signalled,
  tickIn, ticked,      \* time to the next tick; the tick in the ticker's channel
  jitterLeft,
  scanned,             \* has a scan ended
  quiet,               \* time since the last scan ended
  ages                 \* how long ago the last two scans started

ticker == <<tickIn, ticked>>
past   == <<scanned, quiet, ages>>
scheduleVars == <<file, verify, phase, status, signalled, ticker, jitterLeft, past>>

\* software_scan_paths and the wording of the four required texts are left out.
File == [readable : BOOLEAN, complete : BOOLEAN, interval : Intervals, jitter : Jitters]

ScheduleTypeOK ==
  /\ file \in File /\ verify \in BOOLEAN
  /\ phase \in {"main", "scan", "wait", "jitter", "ended"}
  /\ status \in {"running", "ok", "failed", "panicked"}
  /\ signalled \in BOOLEAN /\ ticked \in BOOLEAN /\ scanned \in BOOLEAN
  /\ tickIn \in Nat /\ jitterLeft \in Nat /\ quiet \in Nat
  /\ ages \in [1 .. 2 -> 0 .. AgeCap]

-----------------------------------------------------------------------------
(* pkg/config.                                                             *)

\* json.Unmarshal overwrites the default text only where the file has the key.
Unmarshal(text, default) == IF text = Missing THEN default ELSE text

ParseDuration(text, default) == IF text = Empty THEN default ELSE text

\* Mutant: LoadConfig leaves the durations DefaultConfig has parsed.
ScanIntervalUnparsed(f) == DefaultInterval

ScanInterval(f) == ParseDuration(Unmarshal(f.interval, DefaultInterval), DefaultInterval)

MaxJitter(f) == ParseDuration(Unmarshal(f.jitter, DefaultJitter), DefaultJitter)

\* Mutant: LoadConfig starts from an empty Config.
LoadsWithoutDefaults(f) ==
  /\ f.readable
  /\ {f.interval, f.jitter} \intersect {Missing, Malformed} = {}
  /\ f.complete

Loads(f) ==
  /\ f.readable
  /\ f.interval # Malformed /\ f.jitter # Malformed
  /\ f.complete

-----------------------------------------------------------------------------
ScheduleInit ==
  /\ file \in File /\ verify \in BOOLEAN
  /\ phase = "main" /\ status = "running"
  /\ signalled = FALSE
  /\ tickIn = 0 /\ ticked = FALSE
  /\ jitterLeft = 0
  /\ scanned = FALSE /\ quiet = 0
  /\ ages = <<AgeCap, AgeCap>>

End(s) == phase' = "ended" /\ status' = s

Interval == ScanInterval(file)

ConfigFails ==
  /\ phase = "main" /\ ~Loads(file)
  /\ End("failed")
  /\ UNCHANGED <<file, verify, signalled, ticker, jitterLeft, past>>

\* LoadTLSKeyPair succeeds or fails, and main goes no further.
VerifyCert ==
  /\ phase = "main" /\ Loads(file) /\ verify
  /\ End("ok") \/ End("failed")
  /\ UNCHANGED <<file, verify, signalled, ticker, jitterLeft, past>>

StartScan ==
  /\ phase' = "scan"
  /\ ages' = <<0, ages[1]>>
  /\ UNCHANGED <<scanned, quiet>>

\* Start's initial run.
FirstScan ==
  /\ phase = "main" /\ Loads(file) /\ ~verify
  /\ StartScan
  /\ UNCHANGED <<file, verify, status, signalled, ticker, jitterLeft>>

EndScan ==
  /\ phase = "scan"
  /\ scanned' = TRUE /\ quiet' = 0
  /\ UNCHANGED <<file, verify, signalled, jitterLeft, ages>>

\* time.NewTicker, after the initial run, panics unless its argument is positive.
FirstScanEnds ==
  /\ EndScan /\ ~scanned
  /\ \/ /\ Interval > 0
        /\ phase' = "wait" /\ tickIn' = Interval
        /\ UNCHANGED <<status, ticked>>
     \/ /\ Interval <= 0
        /\ End("panicked")
        /\ UNCHANGED ticker

ScanEnds ==
  /\ EndScan /\ scanned
  /\ phase' = "wait"
  /\ UNCHANGED <<status, ticker>>

\* Mutant: the jitter includes max_jitter itself.
JitterRangeInclusive == IF MaxJitter(file) <= 0 THEN {0} ELSE 0 .. MaxJitter(file)

\* CalculateJitter
JitterRange == IF MaxJitter(file) <= 0 THEN {0} ELSE 0 .. MaxJitter(file) - 1

TakeTick ==
  /\ phase = "wait" /\ ticked
  /\ phase' = "jitter" /\ ticked' = FALSE
  /\ jitterLeft' \in JitterRange
  /\ UNCHANGED <<file, verify, status, signalled, tickIn, past>>

JitterOver ==
  /\ phase = "jitter" /\ jitterLeft = 0
  /\ StartScan
  /\ UNCHANGED <<file, verify, status, signalled, ticker, jitterLeft>>

\* Both selects look at the context, and prefer no case that is ready.
Stopped ==
  /\ phase \in {"wait", "jitter"} /\ signalled
  /\ End("ok")
  /\ UNCHANGED <<file, verify, signalled, ticker, jitterLeft, past>>

Signal ==
  /\ phase \in {"scan", "wait", "jitter"} /\ ~signalled
  /\ signalled' = TRUE
  /\ UNCHANGED <<file, verify, phase, status, ticker, jitterLeft, past>>

-----------------------------------------------------------------------------
(* Time.                                                                   *)

Older(age) == IF age < AgeCap THEN age + 1 ELSE age

\* The channel of the ticker holds one tick; what comes on top is dropped.
\* Before Start has made the ticker none runs.
Tick ==
  IF ~scanned THEN UNCHANGED ticker
  ELSE /\ tickIn' = IF tickIn = 1 THEN Interval ELSE tickIn - 1
       /\ ticked' = (ticked \/ tickIn = 1)

\* One unit passes: nobody is ready to run, or a scan is running.
Elapse ==
  /\ \/ phase = "scan"
     \/ phase = "wait" /\ ~ticked /\ ~signalled
     \/ phase = "jitter" /\ jitterLeft > 0 /\ ~signalled
  /\ Tick
  /\ jitterLeft' = IF phase = "jitter" THEN jitterLeft - 1 ELSE jitterLeft
  /\ quiet' = IF phase = "scan" THEN quiet ELSE quiet + 1
  /\ ages' = [i \in 1 .. 2 |-> Older(ages[i])]
  /\ UNCHANGED <<file, verify, phase, status, signalled, scanned>>

-----------------------------------------------------------------------------
ScheduleNext ==
  \/ ConfigFails \/ VerifyCert
  \/ FirstScan \/ FirstScanEnds \/ ScanEnds
  \/ TakeTick \/ JitterOver \/ Stopped
  \/ Signal \/ Elapse

ScheduleSpec == ScheduleInit /\ [][ScheduleNext]_scheduleVars

-----------------------------------------------------------------------------
(* Properties.                                                             *)

\* What the texts of a file mean, whatever LoadConfig makes of them.
Means(text, default) == IF text \in {Missing, Empty} THEN default ELSE text
WantedInterval == Means(file.interval, DefaultInterval)
WantedJitter   == Means(file.jitter, DefaultJitter)
WorstJitter    == IF WantedJitter > 0 THEN WantedJitter - 1 ELSE 0

\* However long scans take and wherever in its period the ticker is when they
\* end, the agent starts the next one before the interval and the jitter of its
\* configuration file have passed: no tick is lost that a scan still waits for.
SilenceBounded ==
  phase \in {"wait", "jitter"} => quiet <= WantedInterval + WorstJitter

\* Scans do not pile up behind a slow one: any three starts in a row span
\* more than the interval less the jitter, because the ticker drops the ticks that
\* find its channel full.
NoBurst ==
  [][phase # "scan" /\ phase' = "scan" => ages[2] > WantedInterval - WorstJitter]_scheduleVars

\* What the file says, whatever LoadConfig makes of it, is usable.
FileIsValid ==
  /\ file.readable /\ file.complete
  /\ Malformed \notin {file.interval, file.jitter}

\* A daemon with a valid file runs until it is signalled, and then ends well; with
\* a file that is not it never gets to scan.  The one exception is an interval that
\* is not positive, which LoadConfig lets pass and which kills the agent after its
\* first scan, signalled or not.
RunsUntilSignalled ==
  status # "running" /\ ~verify =>
    /\ ~FileIsValid => status = "failed" /\ ages[1] = AgeCap /\ ~scanned
    /\ FileIsValid /\ WantedInterval <= 0 => status = "panicked" /\ scanned
    /\ FileIsValid /\ WantedInterval > 0 => status = "ok" /\ signalled

-----------------------------------------------------------------------------
(* An inductive invariant.                                                 *)

Alive == phase \in {"scan", "wait", "jitter"}

Outcome ==
  /\ phase = "ended" <=> status # "running"
  /\ status = "failed" => (~Loads(file) \/ verify) /\ ~scanned /\ ages[1] = AgeCap
  /\ status = "ok" => verify \/ (signalled /\ Loads(file) /\ Interval > 0)
  /\ status = "panicked" => Loads(file) /\ Interval <= 0 /\ scanned
  /\ Alive => Loads(file)

\* The ticker runs from the end of the first scan on.
Ticking ==
  /\ ~scanned => ~ticked /\ ages[2] = AgeCap /\ phase \in {"main", "scan", "ended"}
  /\ phase = "main" => ~scanned /\ ages[1] = AgeCap
  /\ scanned /\ Alive => Interval > 0 /\ tickIn \in 1 .. Interval

\* In the select, the tick that will end the wait is not far.
Waiting ==
  /\ phase = "wait" => quiet <= Interval /\ (~ticked => quiet + tickIn <= Interval)
  /\ phase = "jitter" => jitterLeft <= WorstJitter /\ quiet + jitterLeft <= Interval + WorstJitter

\* The tick in the channel, or the one to come, entered an empty channel: later
\* than the tick before it was taken out, and hence, but for the jitter, later
\* than the scan that tick started.
Least == Interval - WorstJitter

Spacing ==
  scanned =>
    /\ phase \in {"scan", "wait"} =>
         IF ticked THEN ages[2] > Least /\ ages[1] + tickIn > Least
         ELSE ages[2] + tickIn > Least
    /\ phase = "jitter" =>
         /\ ages[2] > Least
         /\ IF ticked THEN ages[1] > Least /\ Interval - tickIn + jitterLeft < WorstJitter
            ELSE ages[1] + tickIn > Least

ScheduleInv == ScheduleTypeOK /\ Outcome /\ Ticking /\ Waiting /\ Spacing
=============================================================================
