------------------------------- MODULE Outbox -------------------------------
(***************************************************************************)
(* What the endpoint agent promises for the payloads it collects, whatever *)
(* it does with files, sockets and goroutines to keep the promise: a       *)
(* payload stays pending until the backend has accepted it, and the ways   *)
(* in which one can go missing are named.  Acceptance may be repeated      *)
(* (delivery is at least once) and may come after the payload is gone.     *)
(***************************************************************************)
CONSTANT Payloads

VARIABLES
  produced,            \* collected so far
  pending,             \* in the agent's custody: held by a sender, or cached
  delivered,           \* accepted by the backend
  lost                 \* given up without knowing of an acceptance

vars == <<produced, pending, delivered, lost>>

Init ==
  /\ produced = {}
  /\ pending = {}
  /\ delivered = {}
  /\ lost = {}

\* Take custody of a new payload ...
Produce(p) ==
  /\ p \notin produced
  /\ produced' = produced \union {p}
  /\ pending' = pending \union {p}
  /\ UNCHANGED <<delivered, lost>>

\* ... or have nowhere to send it.
Reject(p) ==
  /\ p \notin produced
  /\ produced' = produced \union {p}
  /\ lost' = lost \union {p}
  /\ UNCHANGED <<pending, delivered>>

Deliver(p) ==
  /\ p \in produced
  /\ delivered' = delivered \union {p}
  /\ UNCHANGED <<produced, pending, lost>>

\* Custody ends because the backend has the payloads ...
Forget(S) ==
  /\ S \subseteq pending \intersect delivered
  /\ pending' = pending \ S
  /\ UNCHANGED <<produced, delivered, lost>>

\* ... or because the agent cannot keep them.
Lose(S) ==
  /\ S \subseteq pending
  /\ pending' = pending \ S
  /\ lost' = lost \union S
  /\ UNCHANGED <<produced, delivered>>

Next ==
  \/ \E p \in Payloads : Produce(p) \/ Reject(p) \/ Deliver(p)
  \/ \E S \in SUBSET Payloads : Forget(S) \/ Lose(S)

Spec == Init /\ [][Next]_vars

-----------------------------------------------------------------------------
\* No payload vanishes: what was collected is still held, or was accepted, or
\* is one of the losses the specification names.
Conserved == produced \subseteq pending \union delivered \union lost
=============================================================================
