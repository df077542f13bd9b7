-------------------------- MODULE TenantRepository --------------------------
(***************************************************************************)
(* pkg/database over the schema of migrations/001: goroutines share a pool *)
(* of connections, and every call but UpsertTenant runs one statement in a *)
(* transaction that first tells row-level security whose it is.  What      *)
(* PostgreSQL and pgxpool do is modelled from what the repository asks of  *)
(* them.                                                                   *)
(***************************************************************************)
EXTENDS Naturals, FiniteSets

CONSTANTS
  Callers,             \* goroutines, each in one call at a time
  Conns, NoConn,       \* the pool
  Bound,               \* the policies bind the pool's role: it is neither a
                       \* superuser nor the owner of the tables
  Tenants, NoTenant,
  Devices, Tokens, Credentials,  \* primary keys, per table
  Values, NoRow, NoWrite,
  NoOp

Ids   == Devices \union Tokens \union Credentials
Row   == [tenant : Tenants, value : Values]
Write == [id : Ids, row : Row]

\* SaveDevice, SaveOAuthToken and SaveCloudCredential differ in the table only;
\* GetDevicesForTenant lists, GetCloudCredential gets one.
Saves == [kind : {"save"}, tenant : Tenants, id : Ids, value : Values]
Reads == [kind : {"list", "get"}, tenant : Tenants]

ASSUME RepositoryAssumption ==
  /\ Bound \in BOOLEAN
  /\ NoConn \notin Conns /\ NoTenant \notin Tenants
  /\ NoRow \notin Row /\ NoWrite \notin Write /\ NoOp \notin Saves \union Reads

VARIABLES
  tenants,             \* the table tenants
  rows,                \* per key, the committed row of the other tables
  pc, op, conn,        \* per caller
  sent, result,        \* per caller, rows the server sends, and those scanned
  owned,               \* the tenant's rows when the statement ran
  returned,            \* what the last call returned: nil or an error
  busy,                \* connections acquired from the pool
  setting,             \* per connection, app.current_tenant_id
  write,               \* per connection, the uncommitted row
  broken               \* per connection, its transaction can only roll back

store  == <<tenants, rows>>
query  == <<sent, result, owned>>
server == <<setting, write, broken>>
vars   == <<store, pc, op, conn, query, returned, busy, server>>

Inside == {"set", "exec", "rows", "commit", "rollback"}

TypeOK ==
  /\ tenants \subseteq Tenants
  /\ rows \in [Ids -> Row \union {NoRow}]
  /\ pc \in [Callers -> {"idle", "begin"} \union Inside]
  /\ op \in [Callers -> Saves \union Reads \union {NoOp}]
  /\ conn \in [Callers -> Conns \union {NoConn}]
  /\ sent \in [Callers -> SUBSET Write] /\ result \in [Callers -> SUBSET Write]
  /\ owned \in [Callers -> SUBSET Write]
  /\ returned \in [Callers -> {"none", "nil", "error"}]
  /\ busy \subseteq Conns
  /\ setting \in [Conns -> Tenants \union {NoTenant}]
  /\ write \in [Conns -> Write \union {NoWrite}]
  /\ broken \in [Conns -> BOOLEAN]

Init ==
  /\ tenants = {}
  /\ rows = [i \in Ids |-> NoRow]
  /\ pc = [c \in Callers |-> "idle"]
  /\ op = [c \in Callers |-> NoOp]
  /\ conn = [c \in Callers |-> NoConn]
  /\ sent = [c \in Callers |-> {}] /\ result = [c \in Callers |-> {}]
  /\ owned = [c \in Callers |-> {}]
  /\ returned = [c \in Callers |-> "none"]
  /\ busy = {}
  /\ setting = [k \in Conns |-> NoTenant]
  /\ write = [k \in Conns |-> NoWrite]
  /\ broken = [k \in Conns |-> FALSE]

-----------------------------------------------------------------------------
(* The schema: what a session may see and write.                           *)

Rows(table) == {w \in Write : w.id \in table /\ rows[w.id] = w.row}
OfTenant(ws, t) == {w \in ws : w.row.tenant = t}

\* The policy's USING clause; an unset tenant equals nothing.
Visible(k, table) == {w \in Rows(table) : Bound => w.row.tenant = setting[k]}

\* Mutant: a table on which the migration creates no policy.
MayWriteAnything(k, w) == w.row.tenant \in tenants

\* A new row must refer to a tenant. The policy's clause also decides what may be
\* inserted, and which row an upsert that meets its key may update.
MayWrite(k, w) ==
  /\ rows[w.id] = NoRow => w.row.tenant \in tenants
  /\ Bound => /\ w.row.tenant = setting[k]
              /\ rows[w.id] # NoRow => rows[w.id].tenant = setting[k]

\* ON CONFLICT DO UPDATE sets everything but the key and the tenant.
Upserted(w) ==
  IF rows[w.id] = NoRow THEN w ELSE [w EXCEPT !.row.tenant = rows[w.id].tenant]

-----------------------------------------------------------------------------
(* UpsertTenant, a statement of its own.                                   *)

UpsertTenant(t) ==
  /\ busy # Conns
  /\ tenants' = tenants \union {t}
  /\ UNCHANGED <<rows, pc, op, conn, query, returned, busy, server>>

-----------------------------------------------------------------------------
(* WithTenantTx around the statement of the call.                          *)

Call(c) ==
  /\ pc[c] = "idle"
  /\ \E o \in Saves \union Reads : op' = [op EXCEPT ![c] = o]
  /\ pc' = [pc EXCEPT ![c] = "begin"]
  /\ sent' = [sent EXCEPT ![c] = {}] /\ result' = [result EXCEPT ![c] = {}]
  /\ owned' = [owned EXCEPT ![c] = {}]
  /\ returned' = [returned EXCEPT ![c] = "none"]
  /\ UNCHANGED <<store, conn, busy, server>>

Begin(c) ==
  /\ pc[c] = "begin"
  /\ \E k \in Conns \ busy : conn' = [conn EXCEPT ![c] = k] /\ busy' = busy \union {k}
  /\ pc' = [pc EXCEPT ![c] = "set"]
  /\ UNCHANGED <<store, op, query, returned, server>>

Return(c, err) ==
  /\ pc' = [pc EXCEPT ![c] = "idle"]
  /\ returned' = [returned EXCEPT ![c] = err]

\* The context ends while the caller waits for a connection, or BEGIN fails.
BeginFails(c) ==
  /\ pc[c] = "begin"
  /\ Return(c, "error")
  /\ UNCHANGED <<store, op, conn, query, busy, server>>

SetTenant(c) ==
  /\ pc[c] = "set"
  /\ setting' = [setting EXCEPT ![conn[c]] = op[c].tenant]
  /\ pc' = [pc EXCEPT ![c] = "exec"]
  /\ UNCHANGED <<store, op, conn, query, returned, busy, write, broken>>

\* Any statement, and the scan of a row, may fail: fn returns the error.
StatementFails(c) ==
  /\ pc[c] \in {"set", "exec", "rows"}
  /\ pc' = [pc EXCEPT ![c] = "rollback"]
  /\ UNCHANGED <<store, op, conn, query, returned, busy, server>>

ToSave(c) == [id |-> op[c].id, row |-> [tenant |-> op[c].tenant, value |-> op[c].value]]

\* An upsert waits for an open transaction that has written the same key.
Ready(c) ==
  /\ pc[c] = "exec" /\ op[c].kind = "save"
  /\ \A k \in Conns : write[k] # NoWrite => write[k].id # op[c].id

Upsert(c) ==
  /\ Ready(c) /\ MayWrite(conn[c], ToSave(c))
  /\ write' = [write EXCEPT ![conn[c]] = Upserted(ToSave(c))]
  /\ pc' = [pc EXCEPT ![c] = "commit"]
  /\ UNCHANGED <<store, op, conn, query, returned, busy, setting, broken>>

\* Mutant: the closure drops the error of Exec, as one that only logs it would.
UpsertRefusedUnseen(c) ==
  /\ Ready(c) /\ ~MayWrite(conn[c], ToSave(c))
  /\ pc' = [pc EXCEPT ![c] = "commit"]
  /\ UNCHANGED <<store, op, conn, query, returned, busy, server>>

UpsertRefused(c) ==
  /\ Ready(c) /\ ~MayWrite(conn[c], ToSave(c))
  /\ pc' = [pc EXCEPT ![c] = "rollback"]
  /\ UNCHANGED <<store, op, conn, query, returned, busy, server>>

\* SELECT ... WHERE tenant_id = $1 under the policy.
Select(c) ==
  /\ pc[c] = "exec" /\ op[c].kind = "list"
  /\ sent' = [sent EXCEPT ![c] = OfTenant(Visible(conn[c], Devices), op[c].tenant)]
  /\ owned' = [owned EXCEPT ![c] = OfTenant(Rows(Devices), op[c].tenant)]
  /\ pc' = [pc EXCEPT ![c] = "rows"]
  /\ UNCHANGED <<store, op, conn, result, returned, busy, server>>

ScanRow(c) ==
  /\ pc[c] = "rows"
  /\ \E w \in sent[c] \ result[c] : result' = [result EXCEPT ![c] = @ \union {w}]
  /\ UNCHANGED <<store, pc, op, conn, sent, owned, returned, busy, server>>

\* rows.Next is false at the end, ...
RowsEnd(c) ==
  /\ pc[c] = "rows" /\ result[c] = sent[c]
  /\ pc' = [pc EXCEPT ![c] = "commit"]
  /\ UNCHANGED <<store, op, conn, query, returned, busy, server>>

\* ... and when the rows break off, which the closure does not ask about.
RowsBreak(c) ==
  /\ pc[c] = "rows"
  /\ broken' = [broken EXCEPT ![conn[c]] = TRUE]
  /\ pc' = [pc EXCEPT ![c] = "commit"]
  /\ UNCHANGED <<store, op, conn, query, returned, busy, setting, write>>

\* LIMIT 1 without an order: any one of them.
SelectOne(c) ==
  /\ pc[c] = "exec" /\ op[c].kind = "get"
  /\ owned' = [owned EXCEPT ![c] = OfTenant(Rows(Credentials), op[c].tenant)]
  /\ LET found == OfTenant(Visible(conn[c], Credentials), op[c].tenant)
     IN  \/ /\ \E w \in found : result' = [result EXCEPT ![c] = {w}]
            /\ pc' = [pc EXCEPT ![c] = "commit"]
         \/ /\ found = {}
            /\ UNCHANGED result
            /\ pc' = [pc EXCEPT ![c] = "rollback"]
  /\ UNCHANGED <<store, op, conn, sent, returned, busy, server>>

\* Mutant: SET instead of SET LOCAL.
ReleaseKeepsSetting(c) ==
  /\ write' = [write EXCEPT ![conn[c]] = NoWrite]
  /\ broken' = [broken EXCEPT ![conn[c]] = FALSE]
  /\ busy' = busy \ {conn[c]}
  /\ conn' = [conn EXCEPT ![c] = NoConn]
  /\ UNCHANGED setting

\* The transaction is over, and with it SET LOCAL; the connection goes back, or
\* is closed and replaced.
Release(c) ==
  /\ setting' = [setting EXCEPT ![conn[c]] = NoTenant]
  /\ write' = [write EXCEPT ![conn[c]] = NoWrite]
  /\ broken' = [broken EXCEPT ![conn[c]] = FALSE]
  /\ busy' = busy \ {conn[c]}
  /\ conn' = [conn EXCEPT ![c] = NoConn]

Store(w) == IF w = NoWrite THEN UNCHANGED rows ELSE rows' = [rows EXCEPT ![w.id] = w.row]

Commit(c) ==
  /\ pc[c] = "commit" /\ ~broken[conn[c]]
  /\ Store(write[conn[c]])
  /\ Release(c) /\ Return(c, "nil")
  /\ UNCHANGED <<tenants, op, query>>

\* Mutant: WithTenantTx returns nil after tx.Commit whatever it returned.
CommitBrokenUnseen(c) ==
  /\ pc[c] = "commit" /\ broken[conn[c]]
  /\ Release(c) /\ Return(c, "nil")
  /\ UNCHANGED <<store, op, query>>

\* A transaction that is broken rolls back on COMMIT, which is an error.
CommitBroken(c) ==
  /\ pc[c] = "commit" /\ broken[conn[c]]
  /\ Release(c) /\ Return(c, "error")
  /\ UNCHANGED <<store, op, query>>

\* The connection is lost around COMMIT: it was executed, or it was not.
CommitFails(c) ==
  /\ pc[c] = "commit" /\ ~broken[conn[c]]
  /\ UNCHANGED rows \/ Store(write[conn[c]])
  /\ Release(c) /\ Return(c, "error")
  /\ UNCHANGED <<tenants, op, query>>

\* Mutant: no deferred Rollback.
RollbackForgotten(c) ==
  /\ pc[c] = "rollback"
  /\ Return(c, "error")
  /\ conn' = [conn EXCEPT ![c] = NoConn]
  /\ UNCHANGED <<store, op, query, busy, server>>

\* Mutant: the closure's error is shadowed, and the Rollback's nil returned.
RollbackShadowsError(c) ==
  /\ pc[c] = "rollback"
  /\ Release(c) /\ Return(c, "nil")
  /\ UNCHANGED <<store, op, query>>

\* The deferred Rollback: even if it fails, the connection is given up.
Rollback(c) ==
  /\ pc[c] = "rollback"
  /\ Release(c) /\ Return(c, "error")
  /\ UNCHANGED <<store, op, query>>

Step(c) ==
  \/ SetTenant(c) \/ Upsert(c) \/ UpsertRefused(c) \/ Select(c) \/ ScanRow(c)
  \/ RowsEnd(c) \/ SelectOne(c) \/ Commit(c) \/ CommitBroken(c) \/ Rollback(c)
Fail(c) == BeginFails(c) \/ StatementFails(c) \/ RowsBreak(c) \/ CommitFails(c)

Next ==
  \/ \E t \in Tenants : UpsertTenant(t)
  \/ \E c \in Callers : Call(c) \/ Begin(c) \/ Step(c) \/ Fail(c)

Spec == Init /\ [][Next]_vars

-----------------------------------------------------------------------------
(* Properties.                                                             *)

\* However calls of several tenants share the pool, whichever of them fail and
\* whatever keys they choose: a committed row never changes its tenant, and
\* under a role the policies bind it changes only in a call of its tenant.
TenantsApart ==
  [][\A i \in Ids : rows'[i] # rows[i] =>
       /\ rows'[i] # NoRow
       /\ rows[i] # NoRow => rows[i].tenant = rows'[i].tenant
       /\ \E c \in Callers : pc[c] = "commit" /\ (Bound => op[c].tenant = rows'[i].tenant)]_vars

\* A query that returns no error tells the truth of one moment: the list is all
\* of the tenant's devices, though the closure never asks rows.Err, and the
\* credential is one of the tenant's.
ReadsAreTrue ==
  \A c \in Callers : returned[c] = "nil" /\ op[c].kind # "save" =>
    IF op[c].kind = "list"
    THEN result[c] = owned[c]
    ELSE result[c] # {} /\ result[c] \subseteq owned[c]

\* A save that returns nil has stored its value, and under a bound role stored it
\* as its tenant's, over every refusal by a policy, a missing tenant, or another
\* transaction on the same key.
SavedIsStored ==
  [][\A c \in Callers : pc[c] # "idle" /\ op[c].kind = "save" /\ returned'[c] = "nil" =>
       LET stored == rows'[op[c].id]
       IN  /\ stored # NoRow /\ stored.value = op[c].value
           /\ Bound => stored.tenant = op[c].tenant]_vars

\* Every way out of a call gives its connection back, without the tenant it was
\* set to and without a transaction: calls hold different connections, and
\* nobody else holds any.
ConnectionsReturned ==
  /\ busy = {conn[c] : c \in {d \in Callers : pc[d] \in Inside}}
  /\ \A c, d \in Callers : pc[c] \in Inside /\ conn[c] = conn[d] => c = d
  /\ \A k \in Conns \ busy : setting[k] = NoTenant /\ write[k] = NoWrite /\ ~broken[k]

-----------------------------------------------------------------------------
(* The abstract specification.                                             *)

\* How far a call is: before its statement, behind it, or on the way out.  A
\* save is before its moment until the COMMIT.
Phase == [c \in Callers |->
  IF pc[c] = "idle" THEN "idle"
  ELSE IF pc[c] = "rollback" THEN "failed"
  ELSE IF pc[c] = "rows" \/ (pc[c] = "commit" /\ op[c].kind # "save") THEN "looked"
  ELSE "called"]

Seen   == [c \in Callers |-> IF pc[c] = "idle" THEN {} ELSE owned[c]]
Answer == [c \in Callers |-> IF pc[c] = "idle" THEN result[c] ELSE {}]

Atomic == INSTANCE TenantStore
            WITH call <- op, phase <- Phase, seen <- Seen, answer <- Answer

\* WithTenantTx around one statement makes a call of it that happens at one
\* moment, between its begin and its end, or fails, however calls interleave on
\* pool, keys and row streams: the code implements the abstract store (module
\* TenantStore).  What GetDevicesForTenant returns next to an error, having scanned
\* it before a later row or the commit failed, is its tenant's of that moment too.
ActsAtOnce == Atomic!Spec
=============================================================================
