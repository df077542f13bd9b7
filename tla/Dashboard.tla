----------------------------- MODULE Dashboard -----------------------------
(***************************************************************************)
(* web/index.html: the scans a page of the -ui mode asks for, by its       *)
(* button or every few seconds, and what it shows of their answers.  The   *)
(* page's script is one thread, but triggerScan lets go of it at each      *)
(* await, so calls overlap and end in any order.  Time passes in units.    *)
(***************************************************************************)
EXTENDS Integers, Sequences

CONSTANTS
  Period,              \* of setInterval
  Latency,             \* bound: a call of triggerScan takes no longer
  MaxCalls             \* bound: the user starts no call beyond so many

ASSUME DashboardAssumption ==
  Period \in Nat \ {0} /\ Latency \in Nat \ {0} /\ MaxCalls \in Nat

VARIABLES
  checked,             \* the auto-refresh checkbox
  timerIn,             \* time until the interval fires
  calls,               \* the running calls of triggerScan, oldest first
  loading,             \* does the button show the spinner
  shownAge,            \* time since the request whose answer is shown, or NoAnswer
  steady               \* how long auto refresh has been on without a failed call

dashboardVars == <<checked, timerIn, calls, loading, shownAge, steady>>

NoAnswer == -1

\* Longer than a call and a wait for the next one can take.
Calm == Latency + Period + 1

\* From this age on a shown answer is no longer told apart from an older one.
Old == 2 * Latency + Period + 1

DashboardTypeOK ==
  /\ checked \in BOOLEAN /\ loading \in BOOLEAN
  /\ timerIn \in 0 .. Period
  /\ calls \in Seq([await : {"fetch", "json"}, age : 0 .. Latency])
  /\ shownAge \in NoAnswer .. Old
  /\ steady \in 0 .. Calm

\* DOMContentLoaded: the page has started its first scan.
DashboardInit ==
  /\ checked = FALSE /\ timerIn = 0
  /\ calls = <<[await |-> "fetch", age |-> 0]>>
  /\ loading = TRUE
  /\ shownAge = NoAnswer
  /\ steady = 0

Without(i) == SubSeq(calls, 1, i - 1) \o SubSeq(calls, i + 1, Len(calls))

\* triggerScan up to its first await.
TriggerScan ==
  /\ calls' = Append(calls, [await |-> "fetch", age |-> 0])
  /\ loading' = TRUE

Click ==
  /\ Len(calls) < MaxCalls
  /\ TriggerScan
  /\ UNCHANGED <<checked, timerIn, shownAge, steady>>

ToggleOn ==
  /\ ~checked /\ Len(calls) < MaxCalls
  /\ checked' = TRUE /\ timerIn' = Period
  /\ TriggerScan
  /\ UNCHANGED <<shownAge, steady>>

ToggleOff ==
  /\ checked
  /\ checked' = FALSE /\ timerIn' = 0
  /\ steady' = 0
  /\ UNCHANGED <<calls, loading, shownAge>>

\* Mutant: setTimeout, which does not fire again within any time that counts.
TimerFiresOnce ==
  /\ checked /\ timerIn = 0
  /\ TriggerScan
  /\ timerIn' = 2 * Old
  /\ UNCHANGED <<checked, shownAge, steady>>

\* Whether the calls before have ended or not.
TimerFires ==
  /\ checked /\ timerIn = 0
  /\ TriggerScan
  /\ timerIn' = Period
  /\ UNCHANGED <<checked, shownAge, steady>>

Answered(i) ==
  /\ i \in DOMAIN calls /\ calls[i].await = "fetch"
  /\ calls' = [calls EXCEPT ![i].await = "json"]
  /\ UNCHANGED <<checked, timerIn, loading, shownAge, steady>>

\* The answer is kept and rendered; finally takes the spinner away, although
\* other calls may be running.
Rendered(i) ==
  /\ i \in DOMAIN calls /\ calls[i].await = "json"
  /\ shownAge' = calls[i].age
  /\ calls' = Without(i)
  /\ loading' = FALSE
  /\ UNCHANGED <<checked, timerIn, steady>>

\* Mutant: the spinner is taken away after a success only.
CaughtStillLoading(i) ==
  /\ i \in DOMAIN calls
  /\ calls' = Without(i)
  /\ steady' = 0
  /\ UNCHANGED <<checked, timerIn, loading, shownAge>>

\* fetch or json throws, or the status is an error: what is shown stays.
Caught(i) ==
  /\ i \in DOMAIN calls
  /\ calls' = Without(i)
  /\ loading' = FALSE
  /\ steady' = 0
  /\ UNCHANGED <<checked, timerIn, shownAge>>

Upto(n, bound) == IF n < bound THEN n + 1 ELSE bound

UnitElapses ==
  /\ checked => timerIn > 0
  /\ \A i \in DOMAIN calls : calls[i].age < Latency
  /\ timerIn' = IF checked THEN timerIn - 1 ELSE timerIn
  /\ calls' = [i \in DOMAIN calls |-> [calls[i] EXCEPT !.age = @ + 1]]
  /\ shownAge' = IF shownAge = NoAnswer THEN NoAnswer ELSE Upto(shownAge, Old)
  /\ steady' = IF checked THEN Upto(steady, Calm) ELSE 0
  /\ UNCHANGED <<checked, loading>>

DashboardNext ==
  \/ Click \/ ToggleOn \/ ToggleOff \/ TimerFires
  \/ \E i \in DOMAIN calls : Answered(i) \/ Rendered(i) \/ Caught(i)
  \/ UnitElapses

DashboardSpec == DashboardInit /\ [][DashboardNext]_dashboardVars

-----------------------------------------------------------------------------
(* Properties.                                                             *)

\* An older answer may be rendered over a newer one, but what is shown never
\* gets older than two calls and a period: once auto refresh has been on for a
\* call and a period without a failure, a slow answer cannot hold the page back
\* for longer than it was late itself.
ShownIsFresh ==
  steady = Calm => shownAge \in 0 .. 2 * Latency + Period

\* However calls overlap and fail, the spinner is gone when the last has ended.
SpinnerEnds == calls = <<>> => ~loading

-----------------------------------------------------------------------------
(* An inductive invariant.                                                 *)

Fetch == [await : {"fetch", "json"}, age : 0 .. Latency]

Running(lo, hi) == \E i \in DOMAIN calls : calls[i].age \in lo .. hi
ShownWithin(age) == shownAge \in 0 .. Latency + age

\* Time since the interval, or the checkbox, started a call.
SinceFired == Period - timerIn

LastCall ==
  checked =>
    Running(SinceFired, SinceFired) \/ ShownWithin(SinceFired) \/ steady <= SinceFired

\* The same of the calls of an earlier period.
EarlierCalls ==
  \A a \in 0 .. Latency : steady > a + Period =>
    Running(a + 1, a + Period) \/ ShownWithin(a + Period)

PageInv ==
  /\ DashboardTypeOK
  /\ ~checked => steady = 0
  /\ LastCall /\ EarlierCalls
  /\ SpinnerEnds
=============================================================================
