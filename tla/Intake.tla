------------------------------- MODULE Intake -------------------------------
(***************************************************************************)
(* What the ingestion service is to those who send it tasks: a bounded     *)
(* line, first in first out, and some workers, each of whom takes a task   *)
(* and brings it to one of two ends.  All of it is in memory, and may      *)
(* vanish with the process.  IngestionService implements it; the telemetry *)
(* pipeline is built on it.                                                *)
(***************************************************************************)
EXTENDS Naturals, Sequences

CONSTANTS Tasks, NoTask, Workers, BufferSize

VARIABLES
  line,                \* tasks nobody has taken yet
  busy,                \* per worker: the task it has
  stored,              \* tasks whose row was committed
  dropped              \* tasks that came to another end

vars == <<line, busy, stored, dropped>>

Idle == [w \in Workers |-> NoTask]

Init ==
  /\ line = <<>>
  /\ busy = Idle
  /\ stored = {} /\ dropped = {}

Full == Len(line) = BufferSize

Waiting == {line[i] : i \in DOMAIN line}
Taken   == {busy[w] : w \in Workers} \ {NoTask}
Inside  == Waiting \union Taken

-----------------------------------------------------------------------------
\* Mutant: the select has no default, and the send no limit.
PushUnbounded(t) ==
  /\ line' = Append(line, t)
  /\ UNCHANGED <<busy, stored, dropped>>

Push(t) ==
  /\ ~Full
  /\ line' = Append(line, t)
  /\ UNCHANGED <<busy, stored, dropped>>

\* Mutant: the last task in is the first out.
TakeLast(w) ==
  /\ busy[w] = NoTask /\ line # <<>>
  /\ busy' = [busy EXCEPT ![w] = line[Len(line)]]
  /\ line' = SubSeq(line, 1, Len(line) - 1)
  /\ UNCHANGED <<stored, dropped>>

Take(w) ==
  /\ busy[w] = NoTask /\ line # <<>>
  /\ busy' = [busy EXCEPT ![w] = Head(line)]
  /\ line' = Tail(line)
  /\ UNCHANGED <<stored, dropped>>

Store(w) ==
  /\ busy[w] # NoTask
  /\ stored' = stored \union {busy[w]}
  /\ busy' = [busy EXCEPT ![w] = NoTask]
  /\ UNCHANGED <<line, dropped>>

Drop(w) ==
  /\ busy[w] # NoTask
  /\ dropped' = dropped \union {busy[w]}
  /\ busy' = [busy EXCEPT ![w] = NoTask]
  /\ UNCHANGED <<line, stored>>

Vanish ==
  /\ dropped' = dropped \union Inside
  /\ line' = <<>>
  /\ busy' = Idle
  /\ UNCHANGED stored

Next ==
  \/ \E t \in Tasks : Push(t)
  \/ \E w \in Workers : Take(w) \/ Store(w) \/ Drop(w)
  \/ Vanish

Spec == Init /\ [][Next]_vars
=============================================================================
