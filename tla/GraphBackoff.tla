---------------------------- MODULE GraphBackoff ----------------------------
(***************************************************************************)
(* pkg/saas: one call of ExecuteWithBackoff, which repeats a request that  *)
(* is answered 429, after waits that double and are stretched by a random  *)
(* jitter.  Base units of time are the first backoff, and the jitter's      *)
(* range; a wait passes unit by unit, and the caller may cancel at any     *)
(* point.                                                                  *)
(***************************************************************************)
EXTENDS Integers

CONSTANTS Base, MaxRetries

\* The field MaxRetries is public and is not checked.
ASSUME BackoffAssumption == Base \in Nat \ {0} /\ MaxRetries \in Int

VARIABLES
  step,                \* where the loop is
  attempt, backoff,    \* its variables i and backoff
  sleepLeft,           \* of time.After
  ctxDone,
  outcome,             \* what the call has returned
  requests,            \* requests sent so far
  slept, stretched,    \* time slept so far, and the part of it that was jitter
  afterDone            \* requests sent, and time slept, after ctxDone

loop        == <<step, attempt, backoff, sleepLeft>>
tally       == <<requests, slept, stretched, afterDone>>
backoffVars == <<loop, ctxDone, outcome, tally>>

BackoffTypeOK ==
  /\ step \in {"top", "do", "limited", "sleep", "end"}
  /\ attempt \in Nat /\ backoff \in Nat /\ sleepLeft \in Nat
  /\ outcome \in {"none", "response", "error", "cancelled", "exhausted"}
  /\ requests \in Nat /\ slept \in Nat /\ stretched \in Nat

BackoffInit ==
  /\ step = "top"
  /\ attempt = 0 /\ backoff = Base /\ sleepLeft = 0
  /\ ctxDone = FALSE
  /\ outcome = "none"
  /\ requests = 0 /\ slept = 0 /\ stretched = 0
  /\ afterDone = [requests |-> 0, slept |-> 0]

Ends(o) ==
  /\ step' = "end" /\ outcome' = o
  /\ UNCHANGED <<attempt, backoff, sleepLeft, ctxDone, tally>>

Exhausted == step = "top" /\ attempt >= MaxRetries /\ Ends("exhausted")

CtxSeen ==
  /\ step \in {"top", "sleep"} /\ ctxDone
  /\ step = "top" => attempt < MaxRetries
  /\ Ends("cancelled")

\* The context may still be cancelled between the check and Do.
Checked ==
  /\ step = "top" /\ attempt < MaxRetries /\ ~ctxDone
  /\ step' = "do"
  /\ UNCHANGED <<attempt, backoff, sleepLeft, ctxDone, outcome, tally>>

Send ==
  /\ requests' = requests + 1
  /\ afterDone' = [afterDone EXCEPT !.requests = IF ctxDone THEN @ + 1 ELSE @]
  /\ UNCHANGED <<slept, stretched>>

\* Do's error, and any status but 429, go to the caller as they are.
DoReturns ==
  /\ step = "do"
  /\ Send
  /\ \/ step' = "end" /\ outcome' \in {"error", "response"}
     \/ step' = "limited" /\ UNCHANGED outcome
  /\ UNCHANGED <<attempt, backoff, sleepLeft, ctxDone>>

\* After the last attempt too.
Sleep ==
  /\ step = "limited"
  /\ step' = "sleep"
  /\ \E jitter \in 0 .. Base - 1 :
       /\ sleepLeft' = backoff + jitter
       /\ stretched' = stretched + jitter
  /\ UNCHANGED <<attempt, backoff, ctxDone, outcome, requests, slept, afterDone>>

\* Mutant: time.Sleep, which no context ends.
UnitPassesRegardless ==
  /\ step = "sleep" /\ sleepLeft > 0
  /\ sleepLeft' = sleepLeft - 1
  /\ slept' = slept + 1
  /\ afterDone' = [afterDone EXCEPT !.slept = IF ctxDone THEN @ + 1 ELSE @]
  /\ UNCHANGED <<step, attempt, backoff, ctxDone, outcome, requests, stretched>>

UnitPasses ==
  /\ step = "sleep" /\ sleepLeft > 0 /\ ~ctxDone
  /\ sleepLeft' = sleepLeft - 1
  /\ slept' = slept + 1
  /\ UNCHANGED <<step, attempt, backoff, ctxDone, outcome, requests, stretched, afterDone>>

\* Mutant: the backoff grows by its first value instead of doubling.
AwakeLinear ==
  /\ step = "sleep" /\ sleepLeft = 0
  /\ step' = "top"
  /\ attempt' = attempt + 1 /\ backoff' = backoff + Base
  /\ UNCHANGED <<sleepLeft, ctxDone, outcome, tally>>

\* select may choose the timer although the context is done as well.
Awake ==
  /\ step = "sleep" /\ sleepLeft = 0
  /\ step' = "top"
  /\ attempt' = attempt + 1 /\ backoff' = 2 * backoff
  /\ UNCHANGED <<sleepLeft, ctxDone, outcome, tally>>

CancelCtx ==
  /\ step # "end" /\ ~ctxDone
  /\ ctxDone' = TRUE
  /\ UNCHANGED <<loop, outcome, tally>>

BackoffNext ==
  \/ Exhausted \/ CtxSeen \/ Checked \/ DoReturns
  \/ Sleep \/ UnitPasses \/ Awake
  \/ CancelCtx

BackoffSpec == BackoffInit /\ [][BackoffNext]_backoffVars

-----------------------------------------------------------------------------
(* Properties.                                                             *)

\* Before its n-th repetition the request has waited (2^n - 1) times the first
\* backoff, and less than n times the jitter's range on top: waits double and
\* are never skipped, whatever the answers and the caller's cancellation were.
WaitsDouble ==
  step = "do" =>
    /\ slept - stretched = (2 ^ requests - 1) * Base
    /\ stretched <= requests * (Base - 1)

\* A call whose context is cancelled sleeps no longer, not even to the end of a
\* wait it is in, and sends at most the one request it had checked the context for.
CancelIsPrompt == afterDone.requests <= 1 /\ afterDone.slept = 0

-----------------------------------------------------------------------------
(* An inductive invariant.                                                 *)

\* Whoever still sends has asked before the context was done.
Promptness ==
  /\ afterDone \in [requests : Nat, slept : Nat]
  /\ afterDone.slept = 0
  /\ ~ctxDone \/ step = "do" => afterDone.requests = 0
  /\ afterDone.requests <= 1

\* A request per attempt, and the backoff is what has been slept, without the
\* jitter, and the first backoff again.
Doubled ==
  /\ backoff = 2 ^ attempt * Base
  /\ step \in {"top", "do"} =>
       /\ requests = attempt
       /\ slept - stretched = backoff - Base
       /\ stretched <= attempt * (Base - 1)
  /\ step = "limited" =>
       /\ requests = attempt + 1
       /\ slept - stretched = backoff - Base
       /\ stretched <= attempt * (Base - 1)
  /\ step = "sleep" =>
       /\ requests = attempt + 1
       /\ slept + sleepLeft - stretched = 2 * backoff - Base
       /\ stretched <= (attempt + 1) * (Base - 1)

BackoffInv == BackoffTypeOK /\ Promptness /\ Doubled
=============================================================================
