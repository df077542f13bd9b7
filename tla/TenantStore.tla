---------------------------- MODULE TenantStore ----------------------------
(***************************************************************************)
(* What the repository promises its callers, whatever it does with         *)
(* connections, transactions and row streams: a call takes effect at one   *)
(* moment between its invocation and its return, as if it were alone with  *)
(* the tables, or it returns an error.  A save that returns an error may   *)
(* have been stored nevertheless; a read that does has some of the rows,   *)
(* or none.                                                                *)
(***************************************************************************)
CONSTANTS
  Callers,
  Bound,               \* callers see and touch the rows of their tenant only
  Tenants, Ids,
  Devices, Credentials,\* what "list" and "get" look for
  Saves, Reads,        \* the calls
  NoRow, NoOp

VARIABLES
  tenants, rows,       \* the tables
  call, phase,         \* per caller, its call and how far it is
  seen,                \* per caller, what its tenant owned when it looked
  returned, answer     \* per caller, how the last call ended, and with which rows

vars == <<tenants, rows, call, phase, seen, returned, answer>>

Init ==
  /\ tenants = {}
  /\ rows = [i \in Ids |-> NoRow]
  /\ call = [c \in Callers |-> NoOp]
  /\ phase = [c \in Callers |-> "idle"]
  /\ seen = [c \in Callers |-> {}]
  /\ returned = [c \in Callers |-> "none"]
  /\ answer = [c \in Callers |-> {}]

Owned(t, table) ==
  {[id |-> i, row |-> rows[i]] : i \in {j \in table : rows[j] # NoRow /\ rows[j].tenant = t}}

-----------------------------------------------------------------------------
AddTenant(t) ==
  /\ tenants' = tenants \union {t}
  /\ UNCHANGED <<rows, call, phase, seen, returned, answer>>

Invoke(c) ==
  /\ phase[c] = "idle"
  /\ phase' = [phase EXCEPT ![c] = "called"]
  /\ \E o \in Saves \union Reads : call' = [call EXCEPT ![c] = o]
  /\ returned' = [returned EXCEPT ![c] = "none"]
  /\ answer' = [answer EXCEPT ![c] = {}]
  /\ UNCHANGED <<tenants, rows, seen>>

Return(c, err, found) ==
  /\ phase' = [phase EXCEPT ![c] = "idle"]
  /\ seen' = [seen EXCEPT ![c] = {}]
  /\ returned' = [returned EXCEPT ![c] = err]
  /\ answer' = [answer EXCEPT ![c] = found]
  /\ UNCHANGED <<tenants, call>>

\* The moment of a save: a new row needs its tenant, and a row that is there
\* keeps the one it has.
Put(o) ==
  /\ rows[o.id] = NoRow => o.tenant \in tenants
  /\ Bound /\ rows[o.id] # NoRow => rows[o.id].tenant = o.tenant
  /\ rows' = [rows EXCEPT ![o.id] =
       [tenant |-> IF rows[o.id] = NoRow THEN o.tenant ELSE rows[o.id].tenant,
        value  |-> o.value]]

\* It may become known to the caller, or not.
Save(c) ==
  /\ phase[c] = "called" /\ call[c].kind = "save"
  /\ Put(call[c])
  /\ \E err \in {"nil", "error"} : Return(c, err, {})

\* The moment of a read ...
Look(c) ==
  /\ phase[c] = "called" /\ call[c].kind # "save"
  /\ phase' = [phase EXCEPT ![c] = "looked"]
  /\ seen' = [seen EXCEPT ![c] =
       Owned(call[c].tenant, IF call[c].kind = "list" THEN Devices ELSE Credentials)]
  /\ UNCHANGED <<tenants, rows, call, returned, answer>>

\* ... and its return, later: with all of it, or with one row of it.
Answer(c) ==
  /\ phase[c] = "looked"
  /\ \/ call[c].kind = "list" /\ Return(c, "nil", seen[c])
     \/ call[c].kind = "get" /\ \E w \in seen[c] : Return(c, "nil", {w})
  /\ UNCHANGED rows

Fail(c) ==
  /\ phase[c] \in {"called", "looked"}
  /\ phase' = [phase EXCEPT ![c] = "failed"]
  /\ UNCHANGED <<tenants, rows, call, seen, returned, answer>>

\* A call that has failed, or could not be completed, says so, and hands out what
\* it had found by then.
Error(c) ==
  /\ phase[c] # "idle"
  /\ \E found \in SUBSET seen[c] : Return(c, "error", found)
  /\ UNCHANGED rows

Next ==
  \/ \E t \in Tenants : AddTenant(t)
  \/ \E c \in Callers :
       Invoke(c) \/ Save(c) \/ Look(c) \/ Answer(c) \/ Fail(c) \/ Error(c)

Spec == Init /\ [][Next]_vars
=============================================================================
