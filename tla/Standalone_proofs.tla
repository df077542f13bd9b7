------------------------- MODULE Standalone_proofs -------------------------
(***************************************************************************)
(* The parts that ask another program for something: the cloud connector   *)
(* keeps overlapping scans apart, the SaaS connector's loop doubles its    *)
(* waits and ends when it is told to, and the page shows recent answers;   *)
(* for any number of calls, any waits and any latencies.  At the end, the  *)
(* five parts that share nothing, side by side.                            *)
(***************************************************************************)
EXTENDS MCStandalone, AgentSchedule_proofs, EnvelopeCrypto_proofs,
        FiniteSetTheorems, FunctionTheorems

-----------------------------------------------------------------------------
(* CloudScan: a configuration belongs to one call.                         *)

LEMMA CloudInvInit == CloudInit => CloudInv
BY CloudAssumption
DEF CloudInit, CloudInv, CloudTypeOK, Accounts, Sound, Under, Found, Lists

LEMMA OthersStay ==
  ASSUME NEW c \in Scans, Sound(c),
         UNCHANGED <<stage[c], role[c], temp[c], instances[c], buckets[c], broken[c], result[c]>>
  PROVE  Sound(c)'
BY DEF Sound, Under, Found, Lists, Half

\* A call is the only one to change what it has.
LEMMA CloudInvStep == CloudInv /\ [CloudNext]_cloudVars => CloudInv'
<1> SUFFICES ASSUME CloudInv, [CloudNext]_cloudVars PROVE CloudInv'
  OBVIOUS
<1> USE CloudAssumption DEF CloudInv, CloudTypeOK, Accounts, inventory
<1>1. ASSUME NEW c \in Scans, NEW r \in Roles \union {NoRole}, Call(c, r) PROVE CloudInv'
  <2>1. CloudTypeOK'
    BY <1>1 DEF Call, To, Returns
  <2>2. Sound(c)'
    BY <1>1 DEF Call, To, Returns, Sound, Under, Found, Lists, Half
  <2>3. ASSUME NEW d \in Scans, d # c PROVE Sound(d)'
    BY <1>1, <2>3, OthersStay DEF Call, To, Returns
  <2> QED
    BY <2>1, <2>2, <2>3
<1>2. ASSUME NEW c \in Scans, AssumeRole(c) PROVE CloudInv'
  <2>1. CloudTypeOK'
    BY <1>2 DEF AssumeRole, To, Sound, Under
  <2>2. Sound(c)'
    BY <1>2 DEF AssumeRole, To, Sound, Under, Found, Lists, Half
  <2>3. ASSUME NEW d \in Scans, d # c PROVE Sound(d)'
    BY <1>2, <2>3, OthersStay DEF AssumeRole, To
  <2> QED
    BY <2>1, <2>2, <2>3
<1>3. ASSUME NEW c \in Scans, AssumeRoleFails(c) PROVE CloudInv'
  <2>1. CloudTypeOK'
    BY <1>3 DEF AssumeRoleFails, To, Returns
  <2>2. Sound(c)'
    BY <1>3 DEF AssumeRoleFails, To, Returns, Sound, Under, Found, Lists, Half
  <2>3. ASSUME NEW d \in Scans, d # c PROVE Sound(d)'
    BY <1>3, <2>3, OthersStay DEF AssumeRoleFails, To, Returns
  <2> QED
    BY <2>1, <2>2, <2>3
<1>4. ASSUME NEW c \in Scans, DescribeInstances(c) PROVE CloudInv'
  <2>1. CloudTypeOK'
    BY <1>4 DEF DescribeInstances, Breaks, To
  <2>2. Sound(c)'
    <3>1. stage[c] = "ec2" /\ stage'[c] = "s3" /\ UNCHANGED <<role[c], temp[c], buckets[c], result[c]>>
      BY <1>4 DEF DescribeInstances, To
    <3>2. CASE instances'[c] = instances[c] \union {temp[c]} /\ UNCHANGED broken
      BY <3>1, <3>2 DEF Sound, Under, Found, Lists, Half
    <3>3. CASE broken'[c] = broken[c] \union {"ec2"} /\ UNCHANGED instances
      BY <3>1, <3>3 DEF Sound, Under, Found, Lists, Half
    <3> QED
      BY <1>4, <3>2, <3>3 DEF DescribeInstances, Breaks
  <2>3. ASSUME NEW d \in Scans, d # c PROVE Sound(d)'
    BY <1>4, <2>3, OthersStay DEF DescribeInstances, Breaks, To
  <2> QED
    BY <2>1, <2>2, <2>3
<1>5. ASSUME NEW c \in Scans, ListBuckets(c) PROVE CloudInv'
  <2>1. CloudTypeOK'
    BY <1>5 DEF ListBuckets, Breaks, To, Returns
  <2>2. Sound(c)'
    <3>1. stage[c] = "s3" /\ stage'[c] = "done" /\ UNCHANGED <<role[c], temp[c], instances[c]>>
      BY <1>5 DEF ListBuckets, To, Returns
    <3>2. CASE buckets'[c] = buckets[c] \union {temp[c]} /\ UNCHANGED broken
      BY <3>1, <3>2 DEF Sound, Under, Found, Lists, Half
    <3>3. CASE broken'[c] = broken[c] \union {"s3"} /\ UNCHANGED buckets
      BY <3>1, <3>3 DEF Sound, Under, Found, Lists, Half
    <3> QED
      BY <1>5, <3>2, <3>3 DEF ListBuckets, Breaks
  <2>3. ASSUME NEW d \in Scans, d # c PROVE Sound(d)'
    BY <1>5, <2>3, OthersStay DEF ListBuckets, Breaks, To, Returns
  <2> QED
    BY <2>1, <2>2, <2>3
<1>6. CASE UNCHANGED cloudVars
  BY <1>6, OthersStay DEF cloudVars
<1> QED
  BY <1>1, <1>2, <1>3, <1>4, <1>5, <1>6 DEF CloudNext

\* Calls that overlap on one scanner never list each other's accounts or the
\* platform's own: AssumeRoleAndScan, pkg/cloud/aws.go.
THEOREM CloudInventoryIsRoles == CloudSpec => []InventoryIsRoles
<1>1. CloudInv => InventoryIsRoles
  BY DEF CloudInv, Sound, Lists, InventoryIsRoles
<1> QED
  BY <1>1, CloudInvInit, CloudInvStep, PTL DEF CloudSpec

-----------------------------------------------------------------------------
(* GraphBackoff: waits that double, and no wait for whom has cancelled.    *)

\* The provers know of powers only how many subsets a set has: a set with one
\* more element has those it had before, and each of them with the new one.
LEMMA Doubling ==
  ASSUME NEW n \in Nat
  PROVE  2 ^ (n + 1) = 2 * 2 ^ n
<1> DEFINE S == 1 .. n
           T == 1 .. n + 1
           Two == 0 .. 1
           Join(X) == IF n + 1 \in X THEN <<X \ {n + 1}, 1>> ELSE <<X, 0>>
           f == [X \in SUBSET T |-> Join(X)]
<1>1. IsFiniteSet(S) /\ Cardinality(S) = n /\ IsFiniteSet(T) /\ Cardinality(T) = n + 1
      /\ IsFiniteSet(Two) /\ Cardinality(Two) = 2
  <2>1. /\ IsFiniteSet(S) /\ Cardinality(S) = IF 1 > n THEN 0 ELSE n - 1 + 1
        /\ IsFiniteSet(T) /\ Cardinality(T) = IF 1 > n + 1 THEN 0 ELSE (n + 1) - 1 + 1
        /\ IsFiniteSet(Two) /\ Cardinality(Two) = IF 0 > 1 THEN 0 ELSE 1 - 0 + 1
    <3> n + 1 \in Int /\ 0 \in Int /\ 1 \in Int /\ n \in Int
      OBVIOUS
    <3> QED
      BY FS_Interval
  <2> QED
    BY <2>1
<1>2. IsFiniteSet(SUBSET S) /\ Cardinality(SUBSET S) = 2 ^ n
      /\ IsFiniteSet(SUBSET T) /\ Cardinality(SUBSET T) = 2 ^ (n + 1)
  BY <1>1, FS_SUBSET
<1>3. T = S \union {n + 1} /\ n + 1 \notin S
  OBVIOUS
<1> HIDE DEF S, T, Two
<1>4. f \in Bijection(SUBSET T, (SUBSET S) \X Two)
  <2>1. \A X \in SUBSET T : Join(X) \in (SUBSET S) \X Two
    BY <1>3 DEF Two
  <2>2. \A X, Y \in SUBSET T : f[X] = f[Y] => X = Y
    BY <1>3
  <2>3. ASSUME NEW y \in (SUBSET S) \X Two PROVE \E X \in SUBSET T : f[X] = y
    <3>1. PICK X \in SUBSET S, b \in Two : y = <<X, b>>
      OBVIOUS
    <3>2. b = 0 \/ b = 1
      BY DEF Two
    <3>3. CASE b = 0
      <4>1. X \in SUBSET T /\ n + 1 \notin X
        BY <1>3
      <4> QED
        BY <3>1, <3>3, <4>1
    <3>4. CASE b = 1
      <4>1. X \union {n + 1} \in SUBSET T /\ (X \union {n + 1}) \ {n + 1} = X
        BY <1>3
      <4> QED
        BY <3>1, <3>4, <4>1
    <3> QED
      BY <3>2, <3>3, <3>4
  <2>4. f \in [SUBSET T -> (SUBSET S) \X Two]
    BY <2>1
  <2> QED
    BY <2>2, <2>3, <2>4, Fun_IsBij
<1>5. Cardinality((SUBSET S) \X Two) = 2 ^ n * 2
  <2>1. Cardinality((SUBSET S) \X Two) = Cardinality(SUBSET S) * Cardinality(Two)
    BY <1>1, <1>2, FS_Product
  <2> QED
    BY <1>1, <1>2, <2>1
<1>6. ExistsBijection(SUBSET T, (SUBSET S) \X Two)
  BY <1>4 DEF ExistsBijection
<1>7. Cardinality((SUBSET S) \X Two) = Cardinality(SUBSET T)
  BY <1>2, <1>6, FS_Bijection
<1> HIDE DEF f
<1>8. 2 ^ n \in Int
  OBVIOUS
<1>9. 2 ^ (n + 1) = 2 ^ n * 2
  BY <1>2, <1>5, <1>7
<1> QED
  BY <1>8, <1>9

LEMMA BackoffInvInit == BackoffInit => BackoffInv
<1> SUFFICES ASSUME BackoffInit PROVE BackoffInv
  OBVIOUS
<1>1. 2 ^ 0 = 1
  OBVIOUS
<1>2. BackoffTypeOK /\ Promptness
  BY BackoffAssumption DEF BackoffInit, BackoffTypeOK, Promptness
<1>3. Doubled
  <2>1. backoff = 2 ^ attempt * Base
    BY <1>1, BackoffAssumption DEF BackoffInit
  <2> QED
    BY <2>1, BackoffAssumption DEF BackoffInit, Doubled
<1> QED
  BY <1>2, <1>3 DEF BackoffInv

\* Only the request whose check came before the cancellation is still sent.
LEMMA PromptnessStep == Promptness /\ [BackoffNext]_backoffVars => Promptness'
<1> SUFFICES ASSUME Promptness, [BackoffNext]_backoffVars PROVE Promptness'
  OBVIOUS
<1>1. CASE Exhausted \/ CtxSeen
  BY <1>1 DEF Exhausted, CtxSeen, Ends, tally, Promptness
<1>2. CASE Checked \/ CancelCtx
  BY <1>2 DEF Checked, CancelCtx, loop, tally, Promptness
<1>3. CASE DoReturns
  BY <1>3 DEF DoReturns, Send, Promptness
<1>4. CASE Sleep \/ UnitPasses \/ Awake
  BY <1>4 DEF Sleep, UnitPasses, Awake, tally, Promptness
<1>5. CASE UNCHANGED backoffVars
  BY <1>5 DEF backoffVars, loop, tally, Promptness
<1> QED
  BY <1>1, <1>2, <1>3, <1>4, <1>5 DEF BackoffNext

LEMMA BackoffInvStep == BackoffInv /\ [BackoffNext]_backoffVars => BackoffInv'
<1> SUFFICES ASSUME BackoffInv, [BackoffNext]_backoffVars PROVE BackoffInv'
  OBVIOUS
<1> USE BackoffAssumption
<1>1. BackoffTypeOK /\ Promptness /\ Doubled
  BY DEF BackoffInv
<1>2. Promptness'
  BY <1>1, PromptnessStep
<1>3. CASE Exhausted \/ CtxSeen \/ Checked \/ CancelCtx \/ UNCHANGED backoffVars
  BY <1>1, <1>2, <1>3
  DEF Exhausted, CtxSeen, Checked, CancelCtx, Ends, BackoffInv, BackoffTypeOK, Doubled,
      backoffVars, loop, tally
<1>4. CASE DoReturns
  BY <1>1, <1>2, <1>4 DEF DoReturns, Send, BackoffInv, BackoffTypeOK, Doubled
<1>5. CASE UnitPasses
  BY <1>1, <1>2, <1>5 DEF UnitPasses, BackoffInv, BackoffTypeOK, Doubled
<1>6. CASE Sleep
  <2>1. PICK jitter \in 0 .. Base - 1 : sleepLeft' = backoff + jitter /\ stretched' = stretched + jitter
    BY <1>6 DEF Sleep
  <2>2. /\ step = "limited" /\ step' = "sleep"
        /\ UNCHANGED <<attempt, backoff, ctxDone, outcome, requests, slept, afterDone>>
    BY <1>6 DEF Sleep
  <2>3. BackoffTypeOK'
    BY <1>1, <2>1, <2>2 DEF BackoffTypeOK
  <2>4. (attempt + 1) * (Base - 1) = attempt * (Base - 1) + (Base - 1)
    BY <1>1 DEF BackoffTypeOK
  <2>5. slept' + sleepLeft' - stretched' = 2 * backoff' - Base
    BY <1>1, <2>1, <2>2 DEF BackoffTypeOK, Doubled
  <2>6. stretched' <= (attempt' + 1) * (Base - 1)
    <3> DEFINE range == attempt * (Base - 1)
    <3>1. range \in Int /\ stretched <= range
      BY <1>1, <2>2 DEF BackoffTypeOK, Doubled
    <3> HIDE DEF range
    <3>2. stretched + jitter <= range + (Base - 1)
      BY <1>1, <3>1 DEF BackoffTypeOK
    <3> QED
      BY <2>1, <2>2, <2>4, <3>2 DEF range
  <2> QED
    BY <1>1, <1>2, <2>2, <2>3, <2>5, <2>6 DEF BackoffInv, Doubled
<1>7. CASE Awake
  <2>1. /\ step = "sleep" /\ sleepLeft = 0 /\ step' = "top"
        /\ attempt' = attempt + 1 /\ backoff' = 2 * backoff
        /\ UNCHANGED <<sleepLeft, ctxDone, outcome, requests, slept, stretched, afterDone>>
    BY <1>7 DEF Awake, tally
  <2>2. BackoffTypeOK'
    BY <1>1, <2>1 DEF BackoffTypeOK
  <2>3. backoff' = 2 ^ attempt' * Base
    <3> DEFINE p == 2 ^ attempt
    <3>1. attempt \in Nat /\ backoff = p * Base
      BY <1>1 DEF BackoffTypeOK, Doubled
    <3>2. p \in Int /\ 2 ^ (attempt + 1) = 2 * p
      BY <3>1, Doubling
    <3> HIDE DEF p
    <3>3. 2 * (p * Base) = (2 * p) * Base
      BY <3>2
    <3> QED
      BY <2>1, <3>1, <3>2, <3>3
  <2> QED
    BY <1>1, <1>2, <2>1, <2>2, <2>3 DEF BackoffInv, BackoffTypeOK, Doubled
<1> QED
  BY <1>3, <1>4, <1>5, <1>6, <1>7 DEF BackoffNext

LEMMA BackoffInvHolds == BackoffSpec => []BackoffInv
BY BackoffInvInit, BackoffInvStep, PTL DEF BackoffSpec

\* Before its n-th repetition a request of ExecuteWithBackoff, pkg/saas/graph.go,
\* has waited the sum of n doubled waits, for any first backoff and any n.
THEOREM BackoffWaitsDouble == BackoffSpec => []WaitsDouble
<1>1. BackoffInv => WaitsDouble
  <2> SUFFICES ASSUME BackoffInv, step = "do"
               PROVE  /\ slept - stretched = (2 ^ requests - 1) * Base
                      /\ stretched <= requests * (Base - 1)
    BY DEF WaitsDouble
  <2> DEFINE p == 2 ^ attempt
  <2>1. /\ requests = attempt /\ slept - stretched = backoff - Base
        /\ backoff = p * Base /\ stretched <= attempt * (Base - 1)
        /\ attempt \in Nat
    BY DEF BackoffInv, BackoffTypeOK, Doubled
  <2>2. p \in Int
    BY <2>1
  <2> HIDE DEF p
  <2>3. p * Base - Base = (p - 1) * Base
    BY <2>2, BackoffAssumption
  <2> QED
    BY <2>1, <2>3 DEF p
<1> QED
  BY <1>1, BackoffInvHolds, PTL

\* A cancelled call of ExecuteWithBackoff, pkg/saas/graph.go, sleeps no longer
\* and sends at most one more request, for any backoff and number of retries.
THEOREM BackoffCancelIsPrompt == BackoffSpec => []CancelIsPrompt
<1>1. BackoffInv => CancelIsPrompt
  BY DEF BackoffInv, Promptness, CancelIsPrompt
<1> QED
  BY <1>1, BackoffInvHolds, PTL

-----------------------------------------------------------------------------
(* Dashboard: the interval started a call in every period, and a call that *)
(* is neither running nor caught has been rendered since it started.       *)

LEMMA PageInvInit == DashboardInit => PageInv
<1> SUFFICES ASSUME DashboardInit PROVE PageInv
  OBVIOUS
<1> USE DashboardAssumption
<1>1. calls \in Seq(Fetch) /\ Len(calls) = 1
  BY DEF DashboardInit, Fetch
<1>2. DashboardTypeOK
  <2>1. 0 \in 0 .. Period /\ 0 \in 0 .. Calm /\ -1 \in -1 .. Old
    BY DEF Calm, Old
  <2> QED
    BY <1>1, <2>1 DEF DashboardInit, DashboardTypeOK, Fetch, NoAnswer
<1>3. LastCall /\ EarlierCalls
  BY DEF DashboardInit, LastCall, EarlierCalls
<1>4. SpinnerEnds
  BY <1>1 DEF SpinnerEnds
<1> QED
  BY <1>2, <1>3, <1>4 DEF PageInv, DashboardInit

LEMMA CallTypes ==
  ASSUME calls \in Seq(Fetch)
  PROVE  /\ DOMAIN calls = 1 .. Len(calls) /\ Len(calls) \in Nat
         /\ \A i \in DOMAIN calls : calls[i] \in Fetch /\ calls[i].age \in 0 .. Latency
<1>1. \A i \in 1 .. Len(calls) : calls[i] \in Fetch
  OBVIOUS
<1>2. \A c \in Fetch : c.age \in 0 .. Latency
  BY DEF Fetch
<1> QED
  BY <1>1, <1>2

LEMMA WithoutType ==
  ASSUME calls \in Seq(Fetch), NEW i \in DOMAIN calls
  PROVE  Without(i) \in Seq(Fetch)
<1>1. i \in 1 .. Len(calls)
  OBVIOUS
<1>2. SubSeq(calls, 1, i - 1) \in Seq(Fetch) /\ SubSeq(calls, i + 1, Len(calls)) \in Seq(Fetch)
  BY <1>1
<1> QED
  BY <1>2 DEF Without

\* triggerScan: the new call is the newest, the others stay.
LEMMA Starting ==
  ASSUME DashboardTypeOK, TriggerScan
  PROVE  /\ calls' \in Seq(Fetch) /\ calls' # <<>>
         /\ \A lo, hi \in Nat : Running(lo, hi) => Running(lo, hi)'
         /\ Running(0, 0)'
<1> DEFINE new == [await |-> "fetch", age |-> 0]
<1>1. calls \in Seq(Fetch) /\ new \in Fetch
  BY DashboardAssumption DEF DashboardTypeOK, Fetch
<1>2. /\ calls' \in Seq(Fetch) /\ Len(calls') = Len(calls) + 1
      /\ \A j \in 1 .. Len(calls) : calls'[j] = calls[j]
      /\ calls'[Len(calls) + 1] = new
  BY <1>1 DEF TriggerScan
<1>3. DOMAIN calls = 1 .. Len(calls) /\ DOMAIN calls' = 1 .. Len(calls) + 1 /\ Len(calls) \in Nat
  BY <1>1, <1>2
<1>4. \A lo, hi \in Nat : Running(lo, hi) => Running(lo, hi)'
  BY <1>2, <1>3 DEF Running
<1>5. Running(0, 0)'
  BY <1>2, <1>3 DEF Running
<1> QED
  BY <1>2, <1>4, <1>5

LEMMA StartStep ==
  ASSUME PageInv, Click \/ ToggleOn \/ TimerFires
  PROVE  PageInv'
<1> USE DashboardAssumption
<1>1. TriggerScan /\ loading' = TRUE /\ UNCHANGED <<shownAge, steady>>
  BY DEF Click, ToggleOn, TimerFires, TriggerScan
<1>2. /\ calls' \in Seq(Fetch) /\ calls' # <<>>
      /\ \A lo, hi \in Nat : Running(lo, hi) => Running(lo, hi)'
      /\ Running(0, 0)'
  BY <1>1, Starting DEF PageInv
<1>3. timerIn \in 0 .. Period /\ timerIn' \in 0 .. Period /\ checked' \in BOOLEAN
      /\ steady \in Nat /\ Period \in Nat
  <2>1. timerIn \in 0 .. Period /\ checked \in BOOLEAN /\ steady \in 0 .. Calm
    BY DEF PageInv, DashboardTypeOK
  <2>2. timerIn' \in {timerIn, Period} /\ checked' \in {checked, TRUE}
    BY DEF Click, ToggleOn, TimerFires
  <2>3. Period \in 0 .. Period /\ Period \in Nat
    OBVIOUS
  <2>4. timerIn' \in 0 .. Period /\ checked' \in BOOLEAN
    BY <2>1, <2>2, <2>3
  <2> QED
    BY <2>1, <2>3, <2>4 DEF Calm
<1>4. DashboardTypeOK'
  BY <1>1, <1>2, <1>3 DEF PageInv, DashboardTypeOK, Fetch, Old, Calm
<1>5. ~checked' => steady' = 0
  BY <1>1 DEF Click, ToggleOn, TimerFires, PageInv
<1>6. LastCall'
  <2>1. CASE Click
    <3>1. SinceFired' = SinceFired /\ SinceFired \in Nat
      BY <1>3, <2>1 DEF Click, SinceFired
    <3> QED
      BY <1>1, <1>2, <2>1, <3>1 DEF Click, PageInv, LastCall, ShownWithin
  <2>2. CASE ToggleOn \/ TimerFires
    <3>1. SinceFired' = 0
      BY <2>2 DEF ToggleOn, TimerFires, SinceFired
    <3> QED
      BY <1>2, <3>1 DEF LastCall
  <2> QED
    BY <2>1, <2>2
<1>7. EarlierCalls'
  BY <1>1, <1>2, <1>3 DEF PageInv, EarlierCalls, ShownWithin
<1>8. SpinnerEnds'
  BY <1>2 DEF SpinnerEnds
<1> QED
  BY <1>4, <1>5, <1>6, <1>7, <1>8 DEF PageInv

LEMMA ToggleOffStep == ASSUME PageInv, ToggleOff PROVE PageInv'
<1>1. /\ checked' = FALSE /\ timerIn' = 0 /\ steady' = 0
      /\ UNCHANGED <<calls, loading, shownAge>>
  BY DEF ToggleOff
<1>2. 0 \in 0 .. Period /\ 0 \in 0 .. Calm
  BY DashboardAssumption DEF Calm
<1>3. DashboardTypeOK'
  BY <1>1, <1>2 DEF PageInv, DashboardTypeOK, Old, Calm
<1>4. LastCall' /\ EarlierCalls'
  BY <1>1, DashboardAssumption DEF LastCall, EarlierCalls
<1> QED
  BY <1>1, <1>3, <1>4 DEF PageInv, SpinnerEnds

LEMMA AnsweredStep ==
  ASSUME PageInv, NEW i \in DOMAIN calls, Answered(i)
  PROVE  PageInv'
<1>1. /\ calls \in Seq(Fetch) /\ calls' = [calls EXCEPT ![i].await = "json"]
      /\ UNCHANGED <<checked, timerIn, loading, shownAge, steady>>
  BY DEF Answered, PageInv, DashboardTypeOK, Fetch
<1>2. /\ DOMAIN calls' = DOMAIN calls /\ calls' \in Seq(Fetch)
      /\ \A j \in DOMAIN calls : calls'[j].age = calls[j].age
  <2> DEFINE answered == [calls[i] EXCEPT !.await = "json"]
  <2>1. calls[i] \in Fetch
    BY <1>1, CallTypes
  <2>2. answered \in Fetch /\ answered.age = calls[i].age
    BY <2>1 DEF Fetch
  <2>3. calls' = [calls EXCEPT ![i] = answered]
    BY <1>1
  <2> HIDE DEF answered
  <2> QED
    BY <1>1, <2>2, <2>3
<1>3. DashboardTypeOK'
  BY <1>1, <1>2 DEF PageInv, DashboardTypeOK, Fetch, Old, Calm
<1>4. \A lo, hi : Running(lo, hi) <=> Running(lo, hi)'
  BY <1>2 DEF Running
<1>5. LastCall'
  BY <1>1, <1>4 DEF PageInv, LastCall, SinceFired, ShownWithin
<1>6. EarlierCalls'
  BY <1>1, <1>4 DEF PageInv, EarlierCalls, ShownWithin
<1>7. calls' # <<>>
  BY <1>1, <1>2
<1> QED
  BY <1>1, <1>3, <1>5, <1>6, <1>7 DEF PageInv, SpinnerEnds

\* Whichever answer is rendered, its request is not older than Latency.
LEMMA RenderedStep ==
  ASSUME PageInv, NEW i \in DOMAIN calls, Rendered(i)
  PROVE  PageInv'
<1> USE DashboardAssumption
<1>1. /\ calls \in Seq(Fetch) /\ shownAge' = calls[i].age /\ calls' = Without(i)
      /\ loading' = FALSE /\ UNCHANGED <<checked, timerIn, steady>>
  BY DEF Rendered, PageInv, DashboardTypeOK, Fetch
<1>2. calls' \in Seq(Fetch)
  BY <1>1, WithoutType
<1>3. shownAge' \in 0 .. Latency
  BY <1>1, CallTypes
<1>4. \A age \in Nat : ShownWithin(age)'
  BY <1>3 DEF ShownWithin
<1>5. SinceFired' \in Nat
  BY <1>1 DEF PageInv, DashboardTypeOK, SinceFired
<1>6. shownAge' \in NoAnswer .. Old
  BY <1>3 DEF NoAnswer, Old
<1>7. DashboardTypeOK'
  BY <1>1, <1>2, <1>6 DEF PageInv, DashboardTypeOK, Fetch, Old, Calm, NoAnswer
<1>8. LastCall' /\ EarlierCalls'
  BY <1>4, <1>5 DEF LastCall, EarlierCalls
<1> QED
  BY <1>1, <1>7, <1>8 DEF PageInv, SpinnerEnds

LEMMA CaughtStep ==
  ASSUME PageInv, NEW i \in DOMAIN calls, Caught(i)
  PROVE  PageInv'
<1> USE DashboardAssumption
<1>1. /\ calls \in Seq(Fetch) /\ calls' = Without(i) /\ steady' = 0
      /\ loading' = FALSE /\ UNCHANGED <<checked, timerIn, shownAge>>
  BY DEF Caught, PageInv, DashboardTypeOK, Fetch
<1>2. calls' \in Seq(Fetch)
  BY <1>1, WithoutType
<1>3. SinceFired' \in Nat /\ 0 \in 0 .. Calm
  BY <1>1 DEF PageInv, DashboardTypeOK, SinceFired, Calm
<1>4. DashboardTypeOK'
  BY <1>1, <1>2, <1>3 DEF PageInv, DashboardTypeOK, Fetch, Old, Calm
<1>5. LastCall' /\ EarlierCalls'
  BY <1>1, <1>3 DEF LastCall, EarlierCalls
<1> QED
  BY <1>1, <1>4, <1>5 DEF PageInv, SpinnerEnds

\* Everybody gets older by one.
LEMMA UnitElapsesStep == ASSUME PageInv, UnitElapses PROVE PageInv'
<1> USE DashboardAssumption
<1>1. /\ calls \in Seq(Fetch) /\ timerIn \in 0 .. Period /\ steady \in 0 .. Calm
      /\ shownAge \in -1 .. Old /\ checked \in BOOLEAN /\ Calm \in Nat /\ Old \in Nat
  BY DEF PageInv, DashboardTypeOK, Fetch, NoAnswer, Calm, Old
<1>2. /\ DOMAIN calls' = DOMAIN calls /\ calls' \in Seq(Fetch)
      /\ \A j \in DOMAIN calls : calls[j] \in Fetch /\ calls'[j].age = calls[j].age + 1
  <2>1. /\ calls' = [j \in DOMAIN calls |-> [calls[j] EXCEPT !.age = @ + 1]]
        /\ \A j \in DOMAIN calls : calls[j] \in Fetch /\ calls[j].age < Latency
    BY <1>1, CallTypes DEF UnitElapses
  <2>2. \A c \in Fetch : c.age < Latency =>
          LET older == [c EXCEPT !.age = @ + 1]
          IN  older \in Fetch /\ older.age = c.age + 1
    BY DEF Fetch
  <2>3. \A j \in DOMAIN calls : calls'[j] \in Fetch /\ calls'[j].age = calls[j].age + 1
    BY <2>1, <2>2
  <2>4. DOMAIN calls' = DOMAIN calls /\ calls' \in Seq(Fetch)
    <3>1. PICK n \in Nat : DOMAIN calls = 1 .. n
      BY <1>1, CallTypes
    <3>2. calls' \in [1 .. n -> Fetch]
      BY <2>1, <2>3, <3>1
    <3> QED
      BY <3>1, <3>2
  <2> QED
    BY <2>1, <2>3, <2>4
<1>3. ASSUME NEW lo \in Nat, NEW hi \in Nat, Running(lo, hi)
      PROVE  Running(lo + 1, hi + 1)'
  <2>1. PICK j \in DOMAIN calls : calls[j].age \in lo .. hi
    BY <1>3 DEF Running
  <2>2. calls'[j].age \in lo + 1 .. hi + 1
    BY <1>2, <2>1
  <2> QED
    BY <1>2, <2>2 DEF Running
<1>4. /\ shownAge = -1 => shownAge' = -1
      /\ shownAge # -1 => shownAge' \in 0 .. shownAge + 1
      /\ shownAge' \in -1 .. Old
  BY <1>1 DEF UnitElapses, Upto, NoAnswer
<1>5. \A age \in Nat : ShownWithin(age) => ShownWithin(age + 1)'
  BY <1>1, <1>4 DEF ShownWithin
<1>6. /\ steady' \in 0 .. Calm /\ steady' <= steady + 1
      /\ ~checked => steady' = 0
  BY <1>1 DEF UnitElapses, Upto
<1>7. /\ timerIn' \in 0 .. Period /\ UNCHANGED <<checked, loading>>
      /\ checked => timerIn' = timerIn - 1
  BY <1>1 DEF UnitElapses
<1>8. DashboardTypeOK'
  BY <1>1, <1>2, <1>4, <1>6, <1>7 DEF PageInv, DashboardTypeOK, Fetch, NoAnswer, Old, Calm
<1>9. LastCall'
  <2> SUFFICES ASSUME checked PROVE LastCall'
    BY <1>7 DEF LastCall
  <2>1. PICK n \in Nat : n = SinceFired /\ SinceFired' = n + 1
    BY <1>1, <1>7 DEF SinceFired
  <2>2. Running(n, n) \/ ShownWithin(n) \/ steady <= n
    BY <2>1 DEF PageInv, LastCall
  <2>3. Running(n + 1, n + 1)' \/ ShownWithin(n + 1)' \/ steady' <= n + 1
    BY <1>1, <1>3, <1>5, <1>6, <2>2
  <2> QED
    BY <2>1, <2>3 DEF LastCall, Running, ShownWithin
<1>10. EarlierCalls'
  <2> SUFFICES ASSUME NEW a \in 0 .. Latency, steady' > a + Period
               PROVE  Running(a + 1, a + Period)' \/ ShownWithin(a + Period)'
    BY DEF EarlierCalls, Running, ShownWithin
  <2>1. checked
    BY <1>6
  <2>2. CASE a = 0
    <3>1. PICK n \in 1 .. Period : n = SinceFired' /\ checked'
      BY <1>1, <1>7, <2>1 DEF SinceFired
    <3>2. Running(n, n)' \/ ShownWithin(n)'
      BY <1>6, <1>9, <2>2, <3>1 DEF LastCall, Running, ShownWithin
    <3>3. Running(n, n)' => Running(1, Period)'
      BY <1>2 DEF Running
    <3>4. ShownWithin(n)' => ShownWithin(Period)'
      BY DEF ShownWithin
    <3> QED
      BY <2>2, <3>2, <3>3, <3>4
  <2>3. CASE a # 0
    <3>1. a - 1 \in 0 .. Latency /\ steady > (a - 1) + Period
      BY <1>1, <1>6, <2>3
    <3>2. Running(a, a - 1 + Period) \/ ShownWithin(a - 1 + Period)
      BY <3>1 DEF PageInv, EarlierCalls
    <3> QED
      BY <1>3, <1>5, <3>1, <3>2
  <2> QED
    BY <2>2, <2>3
<1>11. SpinnerEnds'
  BY <1>1, <1>2, <1>7 DEF PageInv, SpinnerEnds
<1> QED
  BY <1>6, <1>7, <1>8, <1>9, <1>10, <1>11 DEF PageInv

LEMMA PageInvStep == PageInv /\ [DashboardNext]_dashboardVars => PageInv'
<1> SUFFICES ASSUME PageInv, [DashboardNext]_dashboardVars PROVE PageInv'
  OBVIOUS
<1>1. CASE UNCHANGED dashboardVars
  BY <1>1
  DEF dashboardVars, PageInv, DashboardTypeOK, LastCall, EarlierCalls, SpinnerEnds,
      Running, ShownWithin, SinceFired
<1> QED
  BY <1>1, StartStep, ToggleOffStep, AnsweredStep, RenderedStep, CaughtStep, UnitElapsesStep
  DEF DashboardNext

LEMMA PageInvHolds == DashboardSpec => []PageInv
BY PageInvInit, PageInvStep, PTL DEF DashboardSpec

\* With auto refresh on and no failures, what triggerScan of web/index.html shows is
\* never older than two calls and a period, in whichever order answers arrive.
THEOREM PageShownIsFresh == DashboardSpec => []ShownIsFresh
<1>1. PageInv => ShownIsFresh
  <2> SUFFICES ASSUME PageInv, steady = Calm
               PROVE  shownAge \in 0 .. 2 * Latency + Period
    BY DEF ShownIsFresh
  <2>1. Latency \in Nat /\ Period \in Nat /\ steady > Latency + Period
    BY DashboardAssumption DEF Calm
  <2>2. Running(Latency + 1, Latency + Period) \/ ShownWithin(Latency + Period)
    BY <2>1 DEF PageInv, EarlierCalls
  <2>3. ~Running(Latency + 1, Latency + Period)
    <3>1. \A i \in DOMAIN calls : calls[i].age \in 0 .. Latency
      BY CallTypes DEF PageInv, DashboardTypeOK, Fetch
    <3> QED
      BY <2>1, <3>1 DEF Running
  <2> QED
    BY <2>1, <2>2, <2>3 DEF ShownWithin
<1> QED
  BY <1>1, PageInvHolds, PTL

\* Whatever the order in which the calls of triggerScan end, the last leaves no
\* spinner behind.
THEOREM PageSpinnerEnds == DashboardSpec => []SpinnerEnds
<1>1. PageInv => SpinnerEnds
  BY DEF PageInv
<1> QED
  BY <1>1, PageInvHolds, PTL

-----------------------------------------------------------------------------
(* Side by side.                                                           *)

\* A part that does not step keeps still.
LEMMA OnePartSteps ==
  ASSUME PartNext
  PROVE  /\ [ScheduleNext]_scheduleVars /\ [DashboardNext]_dashboardVars
         /\ [BackoffNext]_backoffVars /\ [CryptoNext]_cryptoVars /\ [CloudNext]_cloudVars
BY DEF PartNext

LEMMA PartInvStep ==
  PartInv /\ [PartNext]_<<part, scheduleVars, dashboardVars, backoffVars, cryptoVars, cloudVars>>
    => PartInv'
BY OnePartSteps, ScheduleInvStep, PageInvStep, BackoffInvStep, CryptoInvStep, CloudInvStep
DEF PartInv

\* Schedule, page, retry loop, envelope manager and cloud scanner keep their
\* invariants, and with them their types, whichever of them runs.
THEOREM PartInvHolds == PartSpec => []PartInv
<1>1. PartInit => PartInv
  BY ScheduleInvInit, PageInvInit, BackoffInvInit, CryptoInvInit, CloudInvInit
  DEF PartInit, PartInv
<1> QED
  BY <1>1, PartInvStep, PTL DEF PartSpec
=============================================================================
