-------------------------- MODULE TenantInvariant --------------------------
(* Why tenants stay apart and a reader sees the truth: an inductive        *)
(* invariant of TenantRepository.                                          *)
EXTENDS TenantRepository

\* A call under way is one of the repository's, and has not returned yet; it has
\* a connection exactly while it is in its transaction, which is sound before
\* the statement has run.
UnderWay ==
  \A c \in Callers :
    /\ pc[c] \notin Inside => conn[c] = NoConn
    /\ pc[c] \in {"set", "exec", "rows"} => ~broken[conn[c]]
    /\ pc[c] # "idle" => op[c] \in Saves \union Reads /\ returned[c] = "none"
    /\ returned[c] = "nil" => op[c] \in Saves \union Reads

\* Behind SET LOCAL the session is that of the tenant of the call.
Told ==
  \A c \in Callers : pc[c] \in {"exec", "rows", "commit"} => setting[conn[c]] = op[c].tenant

\* What a connection has written is the row of its caller's save: it belongs to
\* a tenant that exists, and under a bound role replaces a row of the caller's
\* tenant or none.
Written ==
  /\ \A c \in Callers : pc[c] \in Inside /\ write[conn[c]] # NoWrite =>
       /\ pc[c] = "commit" /\ op[c].kind = "save" /\ write[conn[c]] = Upserted(ToSave(c))
       /\ Upserted(ToSave(c)).row.tenant \in tenants
       /\ Bound /\ rows[op[c].id] # NoRow => rows[op[c].id].tenant = op[c].tenant
  /\ \A c \in Callers : pc[c] = "commit" /\ op[c].kind = "save" =>
       write[conn[c]] # NoWrite /\ ~broken[conn[c]]

\* A key has one writer at a time.
OneWriter ==
  \A k, l \in Conns :
    write[k] # NoWrite /\ write[l] # NoWrite /\ write[k].id = write[l].id => k = l

ForeignKey == \A i \in Ids : rows[i] # NoRow => rows[i].tenant \in tenants

\* Nothing is found before the statement, or by a save. The server sends a list's
\* tenant all that it owned, and what was scanned is of it, to the end of the call;
\* the rows of a list end early only on a broken connection.
Cursor ==
  \A c \in Callers :
    /\ result[c] \subseteq owned[c]
    /\ pc[c] \in {"begin", "set", "exec"} \/ (pc[c] = "commit" /\ op[c].kind = "save") =>
         owned[c] = {}
    /\ pc[c] = "rows" => op[c].kind = "list" /\ sent[c] = owned[c]
    /\ pc[c] = "commit" /\ op[c].kind = "list" => broken[conn[c]] \/ result[c] = owned[c]
    /\ pc[c] = "commit" /\ op[c].kind = "get" => \E w \in owned[c] : result[c] = {w}

RepositoryInv ==
  /\ TypeOK
  /\ ConnectionsReturned
  /\ UnderWay
  /\ Told
  /\ Written
  /\ OneWriter
  /\ ForeignKey
  /\ Cursor
  /\ ReadsAreTrue
=============================================================================
