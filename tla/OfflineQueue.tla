---------------------------- MODULE OfflineQueue ----------------------------
(***************************************************************************)
(* pkg/storage: the SQLite table offline_payloads, in which the agent      *)
(* keeps the payloads it could not transmit.  SQLiteQueue.mu serialises    *)
(* the operations, and each is one statement or one transaction, so each   *)
(* is one step here.  The table survives the process: whoever models a     *)
(* crash leaves rows and lastId alone.                                     *)
(***************************************************************************)
EXTENDS Naturals

CONSTANT Payloads      \* the JSON documents, told apart only by identity

VARIABLES
  rows,                \* the rows of offline_payloads
  lastId               \* sqlite_sequence: the last id AUTOINCREMENT gave out

Row == [id : Nat \ {0}, payload : Payloads]

QueueTypeOK ==
  /\ rows \subseteq Row
  /\ lastId \in Nat

QueueInit ==
  /\ rows = {}
  /\ lastId = 0

-----------------------------------------------------------------------------
\* INSERT: AUTOINCREMENT never hands out an id twice, even after a DELETE.
Enqueue(p) ==
  /\ lastId' = lastId + 1
  /\ rows' = rows \union {[id |-> lastId + 1, payload |-> p]}

\* SELECT COUNT(*) > 0, the flusher's only use of Count.
NonEmpty == rows # {}

\* SELECT ... ORDER BY id ASC: a snapshot, walked from its oldest row.
DequeueAll == rows

\* rows.Err is not asked: of a cursor that breaks off, the rows before the break
\* are returned as if they were all.
DequeueBroken == {{r \in rows : r.id < q.id} : q \in rows}

IsOldest(r, S) == r \in S /\ \A q \in S : r.id <= q.id

\* Mutant: the table is emptied, rows enqueued since the snapshot included.
DeleteEverything(ids) ==
  /\ rows' = IF ids = {} THEN rows ELSE {}
  /\ UNCHANGED lastId

\* One transaction: either every id goes or, on an error, none does.
Delete(ids) ==
  /\ rows' = {r \in rows : r.id \notin ids}
  /\ UNCHANGED lastId

PayloadsOf(S) == {r.payload : r \in S}
=============================================================================
