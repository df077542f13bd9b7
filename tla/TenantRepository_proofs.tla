----------------------- MODULE TenantRepository_proofs -----------------------
(***************************************************************************)
(* Tenants stay apart, and readers see the truth, for any number of        *)
(* callers, connections, tenants and rows.                                 *)
(***************************************************************************)
EXTENDS TenantInvariant, TLAPS

\* A call in its transaction has a connection of its own.
LEMMA Holding ==
  ASSUME TypeOK, ConnectionsReturned, NEW c \in Callers, pc[c] \in Inside
  PROVE  /\ conn[c] \in Conns /\ conn[c] \in busy
         /\ \A d \in Callers : d # c => conn[d] # conn[c]
BY DEF TypeOK, ConnectionsReturned

\* What a save wants to store is a row.
LEMMA Saving ==
  ASSUME NEW c \in Callers, op[c] \in Saves \union Reads, op[c].kind = "save"
  PROVE  /\ ToSave(c) \in Write /\ ToSave(c).id = op[c].id
         /\ ToSave(c).row \in Row /\ ToSave(c).row.tenant = op[c].tenant
         /\ op[c].id \in Ids /\ op[c].tenant \in Tenants
BY DEF Saves, Reads, ToSave, Write, Row

\* What it stores is a row too: its tenant is the caller's, or that of the row
\* it updates.
LEMMA Storing ==
  ASSUME TypeOK, NEW c \in Callers, op[c] \in Saves \union Reads, op[c].kind = "save"
  PROVE  /\ Upserted(ToSave(c)) \in Write /\ Upserted(ToSave(c)).id = op[c].id
         /\ Upserted(ToSave(c)).row \in Row /\ Upserted(ToSave(c)).row.value = op[c].value
         /\ rows[op[c].id] = NoRow => Upserted(ToSave(c)).row.tenant = op[c].tenant
         /\ rows[op[c].id] # NoRow => Upserted(ToSave(c)).row.tenant = rows[op[c].id].tenant
<1>1. /\ ToSave(c) = [id |-> op[c].id, row |-> [tenant |-> op[c].tenant, value |-> op[c].value]]
      /\ op[c].id \in Ids /\ op[c].tenant \in Tenants /\ op[c].value \in Values
  BY DEF ToSave, Saves, Reads
<1>2. rows[op[c].id] # NoRow => rows[op[c].id].tenant \in Tenants
  BY <1>1 DEF TypeOK, Row
<1> QED
  BY <1>1, <1>2 DEF Upserted, Write, Row

\* The ways a transaction goes on: only the place of c changes, with what its
\* connection was told and what its query has found.
Moves(c, q) ==
  /\ pc[c] \in {"set", "exec", "rows"} /\ q \in {"exec", "rows", "commit", "rollback"}
  /\ pc' = [pc EXCEPT ![c] = q]
  /\ UNCHANGED <<store, op, conn, returned, busy, write>>
  /\ \A k \in Conns : k # conn[c] => setting'[k] = setting[k] /\ broken'[k] = broken[k]
  /\ \A d \in Callers : d # c => sent'[d] = sent[d] /\ result'[d] = result[d] /\ owned'[d] = owned[d]

\* Where it goes on to, it finds what the invariant asks for.
Lands(c, q) ==
  /\ q # "rollback" => setting'[conn[c]] = op[c].tenant
  /\ q \in {"exec", "rows"} => ~broken'[conn[c]]
  /\ result'[c] \subseteq owned'[c]
  /\ q = "exec" => owned'[c] = {}
  /\ q = "rows" => op[c].kind = "list" /\ sent'[c] = owned'[c]
  /\ q = "commit" => \/ op[c].kind = "list" /\ (broken'[conn[c]] \/ result'[c] = owned'[c])
                     \/ op[c].kind = "get" /\ \E w \in owned'[c] : result'[c] = {w}

LEMMA MoveStep ==
  ASSUME RepositoryInv, TypeOK', NEW c \in Callers, NEW q, Moves(c, q), Lands(c, q)
  PROVE  RepositoryInv'
<1> USE DEF Inside
<1>1. /\ TypeOK /\ ConnectionsReturned /\ UnderWay /\ Told /\ Written /\ OneWriter /\ ForeignKey
      /\ Cursor /\ ReadsAreTrue
  BY DEF RepositoryInv
<1>2. /\ pc[c] \in {"set", "exec", "rows"} /\ q \in {"exec", "rows", "commit", "rollback"}
      /\ \A d \in Callers : pc'[d] = IF d = c THEN q ELSE pc[d]
      /\ UNCHANGED <<tenants, rows, op, conn, returned, busy, write>>
      /\ \A k \in Conns : k # conn[c] => setting'[k] = setting[k] /\ broken'[k] = broken[k]
      /\ \A d \in Callers : d # c => sent'[d] = sent[d] /\ result'[d] = result[d] /\ owned'[d] = owned[d]
  BY <1>1 DEF Moves, TypeOK, store
<1>3. /\ conn[c] \in Conns /\ conn[c] \in busy
      /\ \A d \in Callers : d # c => conn[d] # conn[c]
  BY <1>1, <1>2, Holding
<1>4. \A d \in Callers : pc[d] \in Inside => conn[d] \in Conns
  BY <1>1, Holding
<1>5. write[conn[c]] = NoWrite
  BY <1>1, <1>2 DEF Written
<1>6. ConnectionsReturned'
  <2>1. {d \in Callers : pc'[d] \in Inside} = {d \in Callers : pc[d] \in Inside}
    BY <1>2
  <2>2. busy' = {conn'[d] : d \in {e \in Callers : pc'[e] \in Inside}}
    BY <1>1, <1>2, <2>1 DEF ConnectionsReturned
  <2>3. \A d, e \in Callers : pc'[d] \in Inside /\ conn'[d] = conn'[e] => d = e
    BY <1>1, <1>2 DEF ConnectionsReturned
  <2>4. \A k \in Conns \ busy' : setting'[k] = NoTenant /\ write'[k] = NoWrite /\ ~broken'[k]
    BY <1>1, <1>2, <1>3 DEF ConnectionsReturned
  <2> QED
    BY <2>2, <2>3, <2>4 DEF ConnectionsReturned
<1>7. UnderWay'
  BY <1>1, <1>2, <1>3, <1>4 DEF UnderWay, Lands
<1>8. Told'
  BY <1>1, <1>2, <1>3, <1>4 DEF Told, Lands
<1>9. Written'
  <2>1. \A d \in Callers : Upserted(ToSave(d))' = Upserted(ToSave(d))
    BY <1>2 DEF ToSave, Upserted
  <2>2. q = "commit" => op[c].kind # "save"
    BY DEF Lands
  <2> QED
    BY <1>1, <1>2, <1>3, <1>4, <1>5, <2>1, <2>2 DEF Written
<1>10. OneWriter' /\ ForeignKey'
  BY <1>1, <1>2 DEF OneWriter, ForeignKey
<1>11. Cursor'
  <2>1. \A d \in Callers : d # c /\ pc[d] \in Inside => broken'[conn[d]] = broken[conn[d]]
    BY <1>2, <1>3, <1>4
  <2>2. ASSUME NEW d \in Callers, d # c
        PROVE  Cursor!(d)'
    BY <1>1, <1>2, <2>1, <2>2 DEF Cursor
  <2>3. Cursor!(c)'
    BY <1>2 DEF Cursor, Lands
  <2> QED
    BY <2>2, <2>3 DEF Cursor
<1>12. ReadsAreTrue'
  BY <1>1, <1>2 DEF ReadsAreTrue, UnderWay
<1> QED
  BY <1>6, <1>7, <1>8, <1>9, <1>10, <1>11, <1>12 DEF RepositoryInv

\* The upsert takes the key: nobody else has written it, and MayWrite says that
\* the row is the tenant's.
LEMMA UpsertStep ==
  ASSUME RepositoryInv, TypeOK', NEW c \in Callers, Upsert(c)
  PROVE  RepositoryInv'
<1> USE DEF Inside
<1>1. /\ TypeOK /\ ConnectionsReturned /\ UnderWay /\ Told /\ Written /\ OneWriter /\ ForeignKey
      /\ Cursor /\ ReadsAreTrue
  BY DEF RepositoryInv
<1>2. /\ pc[c] = "exec" /\ op[c].kind = "save"
      /\ \A d \in Callers : pc'[d] = IF d = c THEN "commit" ELSE pc[d]
      /\ UNCHANGED <<tenants, rows, op, conn, sent, result, owned, returned, busy, setting, broken>>
  BY <1>1 DEF Upsert, Ready, TypeOK, store, query
<1>3. /\ conn[c] \in Conns /\ conn[c] \in busy
      /\ \A d \in Callers : d # c => conn[d] # conn[c]
  BY <1>1, <1>2, Holding
<1>4. \A d \in Callers : pc[d] \in Inside => conn[d] \in Conns
  BY <1>1, Holding
<1>5. /\ Upserted(ToSave(c)) \in Write /\ Upserted(ToSave(c)).id = op[c].id
      /\ op[c] \in Saves \union Reads /\ op[c].id \in Ids
      /\ ToSave(c).id = op[c].id /\ ToSave(c).row.tenant = op[c].tenant
      /\ rows[op[c].id] = NoRow => Upserted(ToSave(c)).row.tenant = op[c].tenant
      /\ rows[op[c].id] # NoRow => Upserted(ToSave(c)).row.tenant = rows[op[c].id].tenant
  BY <1>1, <1>2, Saving, Storing DEF UnderWay
<1>6. Upserted(ToSave(c)).row.tenant \in tenants
  BY <1>1, <1>5 DEF Upsert, MayWrite, ForeignKey
<1>7. Bound /\ rows[op[c].id] # NoRow => rows[op[c].id].tenant = op[c].tenant
  BY <1>1, <1>2, <1>5 DEF Upsert, MayWrite, Told
<1>8. \A k \in Conns : write'[k] = IF k = conn[c] THEN Upserted(ToSave(c)) ELSE write[k]
  BY <1>1, <1>3 DEF Upsert, TypeOK
<1>9. Upserted(ToSave(c)) # NoWrite
  BY <1>5, RepositoryAssumption
<1>10. ConnectionsReturned'
  <2>1. {d \in Callers : pc'[d] \in Inside} = {d \in Callers : pc[d] \in Inside}
    BY <1>2
  <2>2. busy' = {conn'[d] : d \in {e \in Callers : pc'[e] \in Inside}}
    BY <1>1, <1>2, <2>1 DEF ConnectionsReturned
  <2>3. \A d, e \in Callers : pc'[d] \in Inside /\ conn'[d] = conn'[e] => d = e
    BY <1>1, <1>2 DEF ConnectionsReturned
  <2>4. \A k \in Conns \ busy' : setting'[k] = NoTenant /\ write'[k] = NoWrite /\ ~broken'[k]
    BY <1>1, <1>2, <1>3, <1>8 DEF ConnectionsReturned
  <2> QED
    BY <2>2, <2>3, <2>4 DEF ConnectionsReturned
<1>11. UnderWay' /\ Told'
  BY <1>1, <1>2 DEF UnderWay, Told
<1>12. Written'
  <2>1. \A d \in Callers : Upserted(ToSave(d))' = Upserted(ToSave(d))
    BY <1>2 DEF ToSave, Upserted
  <2> QED
    BY <1>1, <1>2, <1>3, <1>4, <1>6, <1>7, <1>8, <1>9, <2>1 DEF Written, UnderWay
<1>13. OneWriter'
  BY <1>1, <1>2, <1>3, <1>5, <1>8 DEF OneWriter, Upsert, Ready
<1>14. ForeignKey' /\ Cursor' /\ ReadsAreTrue'
  BY <1>1, <1>2 DEF ForeignKey, Cursor, ReadsAreTrue
<1> QED
  BY <1>10, <1>11, <1>12, <1>13, <1>14 DEF RepositoryInv

\* The ways a transaction ends: its connection goes back clean, and its row, if
\* it has written one, is stored or not.
Ends(c, err) ==
  /\ pc[c] \in {"commit", "rollback"}
  /\ Release(c) /\ Return(c, err)
  /\ UNCHANGED <<tenants, op, query>>
  /\ UNCHANGED rows \/ (pc[c] = "commit" /\ Store(write[conn[c]]))
  /\ err = "nil" => pc[c] = "commit" /\ ~broken[conn[c]]

LEMMA EndStep ==
  ASSUME RepositoryInv, TypeOK', NEW c \in Callers, NEW err \in {"nil", "error"}, Ends(c, err)
  PROVE  RepositoryInv'
<1> USE DEF Inside
<1>1. /\ TypeOK /\ ConnectionsReturned /\ UnderWay /\ Told /\ Written /\ OneWriter /\ ForeignKey
      /\ Cursor /\ ReadsAreTrue
  BY DEF RepositoryInv
<1>2. pc[c] \in Inside /\ op[c] \in Saves \union Reads
  BY <1>1 DEF Ends, UnderWay
<1>3. /\ conn[c] \in Conns /\ conn[c] \in busy
      /\ \A d \in Callers : d # c => conn[d] # conn[c]
  BY <1>1, <1>2, Holding
<1>4. \A d \in Callers : pc[d] \in Inside => conn[d] \in Conns
  BY <1>1, Holding
<1>5. /\ \A d \in Callers : /\ pc'[d] = IF d = c THEN "idle" ELSE pc[d]
                            /\ returned'[d] = IF d = c THEN err ELSE returned[d]
                            /\ conn'[d] = IF d = c THEN NoConn ELSE conn[d]
      /\ \A k \in Conns : /\ setting'[k] = IF k = conn[c] THEN NoTenant ELSE setting[k]
                          /\ write'[k] = IF k = conn[c] THEN NoWrite ELSE write[k]
                          /\ broken'[k] = IF k = conn[c] THEN FALSE ELSE broken[k]
      /\ busy' = busy \ {conn[c]}
      /\ UNCHANGED <<tenants, op, sent, result, owned>>
  BY <1>1, <1>3 DEF Ends, Release, Return, TypeOK, query
<1>0. \A d \in Callers : pc'[d] \in Inside =>
        /\ d # c /\ pc[d] \in Inside /\ pc'[d] = pc[d] /\ conn'[d] = conn[d]
        /\ setting'[conn'[d]] = setting[conn[d]] /\ write'[conn'[d]] = write[conn[d]]
        /\ broken'[conn'[d]] = broken[conn[d]]
  <2> SUFFICES ASSUME NEW d \in Callers, pc'[d] \in Inside
               PROVE  /\ d # c /\ pc[d] \in Inside /\ pc'[d] = pc[d] /\ conn'[d] = conn[d]
                      /\ setting'[conn'[d]] = setting[conn[d]]
                      /\ write'[conn'[d]] = write[conn[d]] /\ broken'[conn'[d]] = broken[conn[d]]
    OBVIOUS
  <2>1. d # c /\ pc'[d] = pc[d] /\ conn'[d] = conn[d]
    BY <1>5
  <2>2. conn[d] \in Conns /\ conn[d] # conn[c]
    BY <1>3, <1>4, <2>1
  <2> QED
    BY <1>5, <2>1, <2>2
<1>6. ConnectionsReturned'
  <2>1. {d \in Callers : pc'[d] \in Inside} = {d \in Callers : pc[d] \in Inside} \ {c}
    BY <1>5
  <2>2. busy' = {conn'[d] : d \in {e \in Callers : pc'[e] \in Inside}}
    BY <1>1, <1>2, <1>3, <1>5, <2>1 DEF ConnectionsReturned
  <2>3. \A d, e \in Callers : pc'[d] \in Inside /\ conn'[d] = conn'[e] => d = e
    <3>1. \A d \in Callers : pc[d] \in Inside => conn[d] # NoConn
      BY <1>4, RepositoryAssumption
    <3> QED
      BY <1>1, <1>5, <3>1 DEF ConnectionsReturned
  <2>4. \A k \in Conns \ busy' : setting'[k] = NoTenant /\ write'[k] = NoWrite /\ ~broken'[k]
    BY <1>1, <1>5 DEF ConnectionsReturned
  <2> QED
    BY <2>2, <2>3, <2>4 DEF ConnectionsReturned
<1>7. UnderWay' /\ Told'
  <2>1. UnderWay'
    BY <1>0, <1>1, <1>2, <1>5 DEF UnderWay
  <2>2. Told'
    BY <1>0, <1>1, <1>5 DEF Told
  <2> QED
    BY <2>1, <2>2
<1>8. ASSUME UNCHANGED rows PROVE Written' /\ OneWriter' /\ ForeignKey'
  <2>1. Written'
    <3>1. \A d \in Callers : Upserted(ToSave(d))' = Upserted(ToSave(d))
      BY <1>5, <1>8 DEF ToSave, Upserted
    <3> QED
      BY <1>0, <1>1, <1>5, <1>8, <3>1 DEF Written
  <2>2. OneWriter'
    <3>1. \A k \in Conns : write'[k] # NoWrite => write'[k] = write[k]
      BY <1>5
    <3> QED
      BY <1>1, <3>1 DEF OneWriter
  <2>3. ForeignKey'
    BY <1>1, <1>5, <1>8 DEF ForeignKey
  <2> QED
    BY <2>1, <2>2, <2>3
<1>9. ASSUME pc[c] = "commit", Store(write[conn[c]]), ~UNCHANGED rows
      PROVE  Written' /\ OneWriter' /\ ForeignKey'
  <2>1. /\ op[c].kind = "save" /\ write[conn[c]] = Upserted(ToSave(c))
        /\ Upserted(ToSave(c)).row.tenant \in tenants
    BY <1>1, <1>2, <1>9 DEF Written, Store
  <2>2. /\ op[c].id \in Ids /\ Upserted(ToSave(c)).id = op[c].id
    BY <1>1, <1>2, <2>1, Saving, Storing
  <2>3. \A i \in Ids : rows'[i] = IF i = op[c].id THEN Upserted(ToSave(c)).row ELSE rows[i]
    BY <1>1, <1>9, <2>1, <2>2 DEF Store, TypeOK
  <2>4. \A k \in Conns : k # conn[c] /\ write[k] # NoWrite => write[k].id # op[c].id
    <3>1. write[conn[c]] # NoWrite
      BY <1>9 DEF Store
    <3> QED
      BY <1>1, <1>3, <2>1, <2>2, <3>1 DEF OneWriter
  <2>5. Written'
    <3>1. \A d \in Callers : ToSave(d)' = ToSave(d)
      BY <1>5 DEF ToSave
    <3>2. \A d \in Callers : d # c /\ pc[d] \in Inside /\ write[conn[d]] # NoWrite =>
            op[d].id \in Ids /\ op[d].id # op[c].id /\ ToSave(d).id = op[d].id
      <4> SUFFICES ASSUME NEW d \in Callers, d # c, pc[d] \in Inside, write[conn[d]] # NoWrite
                   PROVE  op[d].id \in Ids /\ op[d].id # op[c].id /\ ToSave(d).id = op[d].id
        OBVIOUS
      <4>1. op[d] \in Saves \union Reads /\ op[d].kind = "save" /\ write[conn[d]] = Upserted(ToSave(d))
        BY <1>1 DEF Written, UnderWay
      <4>2. op[d].id \in Ids /\ ToSave(d).id = op[d].id /\ Upserted(ToSave(d)).id = op[d].id
        BY <1>1, <4>1, Saving, Storing
      <4>3. write[conn[d]].id # op[c].id
        BY <1>3, <1>4, <1>5, <2>4
      <4> QED
        BY <4>1, <4>2, <4>3
    <3>3. \A d \in Callers : d # c /\ pc[d] \in Inside /\ write[conn[d]] # NoWrite =>
            Upserted(ToSave(d))' = Upserted(ToSave(d)) /\ rows'[op[d].id] = rows[op[d].id]
      BY <2>3, <3>1, <3>2 DEF Upserted
    <3> QED
      BY <1>0, <1>1, <1>5, <3>3 DEF Written
  <2>6. OneWriter'
    <3>1. \A k \in Conns : write'[k] # NoWrite => write'[k] = write[k]
      BY <1>5
    <3> QED
      BY <1>1, <3>1 DEF OneWriter
  <2>7. ForeignKey'
    BY <1>1, <1>5, <2>1, <2>2, <2>3 DEF ForeignKey
  <2> QED
    BY <2>5, <2>6, <2>7
<1>10. Cursor'
  BY <1>1, <1>3, <1>4, <1>5 DEF Cursor
<1>11. ReadsAreTrue'
  <2>1. err = "nil" /\ op[c].kind # "save" =>
          IF op[c].kind = "list"
          THEN result[c] = owned[c]
          ELSE result[c] # {} /\ result[c] \subseteq owned[c]
    BY <1>1, <1>2 DEF Ends, Cursor, Saves, Reads
  <2> QED
    BY <1>1, <1>5, <2>1 DEF ReadsAreTrue
<1> QED
  BY <1>6, <1>7, <1>8, <1>9, <1>10, <1>11 DEF RepositoryInv, Ends

\* The steps outside a transaction.
LEMMA OutsideStep ==
  ASSUME RepositoryInv, TypeOK', NEW c \in Callers, Call(c) \/ Begin(c) \/ BeginFails(c)
  PROVE  RepositoryInv'
<1> USE DEF Inside
<1>1. /\ TypeOK /\ ConnectionsReturned /\ UnderWay /\ Told /\ Written /\ OneWriter /\ ForeignKey
      /\ Cursor /\ ReadsAreTrue
  BY DEF RepositoryInv
<1>2. /\ pc[c] \notin Inside /\ conn[c] = NoConn
      /\ UNCHANGED <<tenants, rows, setting, write, broken>>
  BY <1>1 DEF Call, Begin, BeginFails, UnderWay, store, server
<1>3. \A d \in Callers : pc[d] \in Inside => conn[d] \in Conns /\ conn[d] # NoConn /\ conn[d] \in busy
  BY <1>1, Holding, RepositoryAssumption
<1>4. OneWriter' /\ ForeignKey'
  BY <1>1, <1>2 DEF OneWriter, ForeignKey
<1>5. CASE Call(c) \/ BeginFails(c)
  <2>1. /\ UNCHANGED <<conn, busy>> /\ pc'[c] \notin Inside
        /\ pc'[c] # "idle" =>
             op'[c] \in Saves \union Reads /\ returned'[c] = "none" /\ owned'[c] = {}
        /\ returned'[c] # "nil" /\ result'[c] \subseteq owned'[c]
        /\ \A d \in Callers : d # c =>
             /\ pc'[d] = pc[d] /\ op'[d] = op[d] /\ returned'[d] = returned[d]
             /\ sent'[d] = sent[d] /\ result'[d] = result[d] /\ owned'[d] = owned[d]
    BY <1>1, <1>5 DEF Call, BeginFails, Return, TypeOK, Cursor, query
  <2>2. ConnectionsReturned'
    <3>1. {d \in Callers : pc'[d] \in Inside} = {d \in Callers : pc[d] \in Inside}
      BY <1>2, <2>1
    <3>2. busy' = {conn'[d] : d \in {e \in Callers : pc'[e] \in Inside}}
      BY <1>1, <2>1, <3>1 DEF ConnectionsReturned
    <3> QED
      BY <1>1, <1>2, <2>1, <3>2 DEF ConnectionsReturned
  <2>3. UnderWay' /\ Told' /\ ReadsAreTrue'
    BY <1>1, <1>2, <2>1 DEF UnderWay, Told, ReadsAreTrue
  <2>4. Written'
    <3>1. \A d \in Callers : d # c => Upserted(ToSave(d))' = Upserted(ToSave(d))
      BY <1>2, <2>1 DEF ToSave, Upserted
    <3> QED
      BY <1>1, <1>2, <2>1, <3>1 DEF Written
  <2>5. Cursor'
    BY <1>1, <1>2, <2>1 DEF Cursor
  <2> QED
    BY <1>4, <2>2, <2>3, <2>4, <2>5 DEF RepositoryInv
<1>6. CASE Begin(c)
  <2>1. PICK k \in Conns \ busy : conn' = [conn EXCEPT ![c] = k] /\ busy' = busy \union {k}
    BY <1>6 DEF Begin
  <2>2. /\ pc[c] = "begin" /\ UNCHANGED <<op, returned, sent, result, owned>>
        /\ \A d \in Callers : /\ pc'[d] = IF d = c THEN "set" ELSE pc[d]
                              /\ conn'[d] = IF d = c THEN k ELSE conn[d]
    BY <1>1, <1>6, <2>1 DEF Begin, TypeOK, query
  <2>3. setting[k] = NoTenant /\ write[k] = NoWrite /\ ~broken[k] /\ k # NoConn
    BY <1>1, <2>1, RepositoryAssumption DEF ConnectionsReturned
  <2>4. ConnectionsReturned'
    <3>1. {d \in Callers : pc'[d] \in Inside} = {d \in Callers : pc[d] \in Inside} \union {c}
      BY <2>2
    <3>2. busy' = {conn'[d] : d \in {e \in Callers : pc'[e] \in Inside}}
      BY <1>1, <1>2, <2>1, <2>2, <3>1 DEF ConnectionsReturned
    <3>3. \A d \in Callers : conn[d] # k
      BY <1>1, <1>3, <2>1, <2>3 DEF UnderWay
    <3>4. \A d, e \in Callers : pc'[d] \in Inside /\ conn'[d] = conn'[e] => d = e
      BY <1>1, <2>2, <3>3 DEF ConnectionsReturned
    <3> QED
      BY <1>1, <1>2, <2>1, <3>2, <3>4 DEF ConnectionsReturned
  <2>5. UnderWay' /\ Told' /\ ReadsAreTrue'
    BY <1>1, <1>2, <2>2, <2>3 DEF UnderWay, Told, ReadsAreTrue
  <2>6. Written' /\ Cursor'
    <3>1. \A d \in Callers : Upserted(ToSave(d))' = Upserted(ToSave(d))
      BY <1>2, <2>2 DEF ToSave, Upserted
    <3> QED
      BY <1>1, <1>2, <2>2, <2>3, <3>1 DEF Written, Cursor
  <2> QED
    BY <1>4, <2>4, <2>5, <2>6 DEF RepositoryInv
<1> QED
  BY <1>5, <1>6

-----------------------------------------------------------------------------
(* Types.                                                                  *)

\* A pool that is not exhausted is all that UpsertTenant asks for.
LEMMA TenantStep ==
  ASSUME RepositoryInv, NEW t \in Tenants, UpsertTenant(t)
  PROVE  RepositoryInv'
<1>1. /\ tenants' = tenants \union {t}
      /\ UNCHANGED <<rows, pc, op, conn, sent, result, owned, returned, busy, setting, write, broken>>
  BY DEF UpsertTenant, query, server
<1>2. TypeOK'
  BY <1>1 DEF RepositoryInv, TypeOK
<1>3. ConnectionsReturned' /\ UnderWay' /\ Told' /\ OneWriter'
  BY <1>1 DEF RepositoryInv, ConnectionsReturned, UnderWay, Told, OneWriter
<1>4. Written'
  <2>1. \A d \in Callers : Upserted(ToSave(d))' = Upserted(ToSave(d))
    BY <1>1 DEF ToSave, Upserted
  <2> QED
    BY <1>1, <2>1 DEF RepositoryInv, Written
<1>5. ForeignKey' /\ Cursor' /\ ReadsAreTrue'
  BY <1>1 DEF RepositoryInv, ForeignKey, Cursor, ReadsAreTrue
<1> QED
  BY <1>2, <1>3, <1>4, <1>5 DEF RepositoryInv

LEMMA ReleaseTypes ==
  ASSUME TypeOK, NEW c \in Callers, Release(c)
  PROVE  /\ conn' \in [Callers -> Conns \union {NoConn}] /\ busy' \subseteq Conns
         /\ setting' \in [Conns -> Tenants \union {NoTenant}]
         /\ write' \in [Conns -> Write \union {NoWrite}] /\ broken' \in [Conns -> BOOLEAN]
BY DEF TypeOK, Release

LEMMA StoreTypes ==
  ASSUME TypeOK, NEW w \in Write \union {NoWrite}, Store(w)
  PROVE  rows' \in [Ids -> Row \union {NoRow}]
<1>1. w # NoWrite => w.id \in Ids /\ w.row \in Row
  BY DEF Write
<1> QED
  BY <1>1 DEF TypeOK, Store

LEMMA TypeStep ==
  ASSUME RepositoryInv, NEW c \in Callers, Call(c) \/ Begin(c) \/ Step(c) \/ Fail(c)
  PROVE  TypeOK'
<1>0. TypeOK /\ ConnectionsReturned /\ UnderWay
  BY DEF RepositoryInv
<1> USE DEF TypeOK, store, query, server, Inside
<1>1. CASE Call(c) \/ Begin(c) \/ BeginFails(c)
  BY <1>0, <1>1 DEF Call, Begin, BeginFails, Return
<1>2. CASE SetTenant(c)
  <2>1. op[c].tenant \in Tenants
    BY <1>0, <1>2 DEF SetTenant, UnderWay, Saves, Reads
  <2> QED
    BY <1>0, <1>2, <2>1 DEF SetTenant
<1>3. CASE StatementFails(c) \/ UpsertRefused(c) \/ RowsEnd(c) \/ RowsBreak(c)
  BY <1>0, <1>3 DEF StatementFails, UpsertRefused, RowsEnd, RowsBreak
<1>4. CASE Upsert(c)
  <2>1. pc[c] = "exec" /\ op[c].kind = "save" /\ op[c] \in Saves \union Reads
    BY <1>0, <1>4 DEF Upsert, Ready, UnderWay
  <2>3. Upserted(ToSave(c)) \in Write
    BY <1>0, <2>1, Storing
  <2> QED
    BY <1>0, <1>4, <2>3 DEF Upsert
<1>5. CASE Select(c) \/ SelectOne(c)
  <2>1. \A table, t : OfTenant(Rows(table), t) \subseteq Write
    BY DEF OfTenant, Rows
  <2>2. \A k, table, t : OfTenant(Visible(k, table), t) \subseteq Write
    BY DEF OfTenant, Visible, Rows
  <2> QED
    BY <1>0, <1>5, <2>1, <2>2 DEF Select, SelectOne
<1>6. CASE ScanRow(c)
  BY <1>0, <1>6 DEF ScanRow
<1>7. CASE Commit(c) \/ CommitBroken(c) \/ CommitFails(c) \/ Rollback(c)
  <2>1. Release(c) /\ (Return(c, "nil") \/ Return(c, "error")) /\ UNCHANGED <<tenants, op, query>>
    BY <1>7 DEF Commit, CommitBroken, CommitFails, Rollback
  <2>2. conn[c] \in Conns
    BY <1>0, <1>7, Holding DEF Commit, CommitBroken, CommitFails, Rollback
  <2>3. rows' \in [Ids -> Row \union {NoRow}]
    <3>1. rows' = rows \/ Store(write[conn[c]])
      BY <1>7 DEF Commit, CommitBroken, CommitFails, Rollback
    <3> QED
      BY <1>0, <2>2, <3>1, StoreTypes
  <2> QED
    BY <1>0, <2>1, <2>3, ReleaseTypes DEF Return
<1> QED
  BY <1>1, <1>2, <1>3, <1>4, <1>5, <1>6, <1>7 DEF Step, Fail

-----------------------------------------------------------------------------
(* The invariant.                                                          *)

LEMMA RepositoryInit == Init => RepositoryInv
<1> SUFFICES ASSUME Init PROVE RepositoryInv
  OBVIOUS
<1>1. TypeOK
  BY DEF Init, TypeOK, Inside
<1>2. ConnectionsReturned
  BY DEF Init, ConnectionsReturned, Inside
<1>3. UnderWay /\ Told /\ Written /\ OneWriter /\ ForeignKey /\ Cursor /\ ReadsAreTrue
  BY DEF Init, UnderWay, Told, Written, OneWriter, ForeignKey, Cursor, ReadsAreTrue, Inside
<1> QED
  BY <1>1, <1>2, <1>3 DEF RepositoryInv

LEMMA CallerStep ==
  ASSUME RepositoryInv, NEW c \in Callers, Call(c) \/ Begin(c) \/ Step(c) \/ Fail(c)
  PROVE  RepositoryInv'
<1>0. /\ TypeOK /\ ConnectionsReturned /\ UnderWay /\ Told /\ Cursor /\ TypeOK'
  BY TypeStep DEF RepositoryInv
<1>1. pc[c] # "idle" => op[c] \in Saves \union Reads
  BY <1>0 DEF UnderWay
<1>2. pc[c] \in {"set", "exec", "rows"} => conn[c] \in Conns /\ ~broken[conn[c]]
  BY <1>0, Holding DEF UnderWay, Inside
<1>3. CASE Call(c) \/ Begin(c) \/ BeginFails(c)
  BY <1>0, <1>3, OutsideStep
<1>4. CASE Upsert(c)
  BY <1>0, <1>4, UpsertStep
<1>5. CASE SetTenant(c)
  <2>1. Moves(c, "exec") /\ Lands(c, "exec")
    BY <1>0, <1>2, <1>5 DEF SetTenant, Cursor, Moves, Lands, TypeOK, query
  <2> QED
    BY <1>0, <2>1, MoveStep
<1>6. CASE StatementFails(c) \/ UpsertRefused(c)
  <2>1. Moves(c, "rollback") /\ Lands(c, "rollback")
    BY <1>0, <1>6 DEF StatementFails, UpsertRefused, Ready, Cursor, Moves, Lands, query, server
  <2> QED
    BY <1>0, <2>1, MoveStep
<1>7. CASE Select(c)
  <2>1. setting[conn[c]] = op[c].tenant
    BY <1>0, <1>7 DEF Select, Told
  <2>2. OfTenant(Visible(conn[c], Devices), op[c].tenant) = OfTenant(Rows(Devices), op[c].tenant)
    BY <2>1 DEF OfTenant, Visible
  <2>3. result[c] \subseteq {}
    BY <1>0, <1>7 DEF Select, Cursor
  <2>4. Moves(c, "rows") /\ Lands(c, "rows")
    BY <1>0, <1>2, <1>7, <2>1, <2>2, <2>3 DEF Select, Moves, Lands, TypeOK, server
  <2> QED
    BY <1>0, <2>4, MoveStep
<1>8. CASE ScanRow(c)
  <2>1. op[c].kind = "list" /\ sent[c] = owned[c] /\ result[c] \subseteq owned[c]
        /\ setting[conn[c]] = op[c].tenant
    BY <1>0, <1>8 DEF ScanRow, Cursor, Told
  <2>2. Moves(c, "rows") /\ Lands(c, "rows")
    BY <1>0, <1>2, <1>8, <2>1 DEF ScanRow, Moves, Lands, TypeOK, server
  <2> QED
    BY <1>0, <2>2, MoveStep
<1>9. CASE RowsEnd(c) \/ RowsBreak(c)
  <2>1. op[c].kind = "list" /\ sent[c] = owned[c] /\ result[c] \subseteq owned[c]
        /\ setting[conn[c]] = op[c].tenant
    BY <1>0, <1>9 DEF RowsEnd, RowsBreak, Cursor, Told
  <2>2. Moves(c, "commit") /\ Lands(c, "commit")
    BY <1>0, <1>2, <1>9, <2>1 DEF RowsEnd, RowsBreak, Moves, Lands, TypeOK, query, server
  <2> QED
    BY <1>0, <2>2, MoveStep
<1>10. CASE SelectOne(c)
  <2>1. setting[conn[c]] = op[c].tenant /\ op[c].kind = "get"
    BY <1>0, <1>10 DEF SelectOne, Told
  <2>2. OfTenant(Visible(conn[c], Credentials), op[c].tenant)
          = OfTenant(Rows(Credentials), op[c].tenant)
    BY <2>1 DEF OfTenant, Visible
  <2>3. result[c] \subseteq {}
    BY <1>0, <1>10 DEF SelectOne, Cursor
  <2>4. CASE pc' = [pc EXCEPT ![c] = "commit"] /\ \E w \in OfTenant(Visible(conn[c], Credentials), op[c].tenant) :
                      result' = [result EXCEPT ![c] = {w}]
    <3>1. Moves(c, "commit") /\ Lands(c, "commit")
      BY <1>0, <1>2, <1>10, <2>1, <2>2, <2>4 DEF SelectOne, Moves, Lands, TypeOK, server
    <3> QED
      BY <1>0, <3>1, MoveStep
  <2>5. CASE pc' = [pc EXCEPT ![c] = "rollback"] /\ UNCHANGED result
    <3>1. Moves(c, "rollback") /\ Lands(c, "rollback")
      BY <1>0, <1>10, <2>5, <2>3 DEF SelectOne, Moves, Lands, TypeOK, server
    <3> QED
      BY <1>0, <3>1, MoveStep
  <2> QED
    BY <1>10, <2>4, <2>5 DEF SelectOne
<1>11. CASE Commit(c)
  <2>1. Ends(c, "nil")
    BY <1>11 DEF Commit, Ends
  <2> QED
    BY <1>0, <2>1, EndStep
<1>12. CASE CommitBroken(c) \/ CommitFails(c) \/ Rollback(c)
  <2>1. Ends(c, "error")
    BY <1>12 DEF CommitBroken, CommitFails, Rollback, Ends, store
  <2> QED
    BY <1>0, <2>1, EndStep
<1> QED
  BY <1>3, <1>4, <1>5, <1>6, <1>7, <1>8, <1>9, <1>10, <1>11, <1>12 DEF Step, Fail

LEMMA RepositoryStep == RepositoryInv /\ [Next]_vars => RepositoryInv'
<1> SUFFICES ASSUME RepositoryInv, [Next]_vars PROVE RepositoryInv'
  OBVIOUS
<1>1. CASE UNCHANGED vars
  <2>1. \A d \in Callers : Upserted(ToSave(d))' = Upserted(ToSave(d))
    BY <1>1 DEF vars, store, ToSave, Upserted
  <2>2. UNCHANGED <<tenants, rows, pc, op, conn, sent, result, owned, returned, busy, setting, write, broken>>
    BY <1>1 DEF vars, store, query, server
  <2>3. TypeOK' /\ ConnectionsReturned' /\ UnderWay' /\ Told'
    BY <2>2 DEF RepositoryInv, TypeOK, ConnectionsReturned, UnderWay, Told
  <2>4. Written' /\ OneWriter' /\ ForeignKey' /\ Cursor' /\ ReadsAreTrue'
    BY <2>1, <2>2 DEF RepositoryInv, Written, OneWriter, ForeignKey, Cursor, ReadsAreTrue
  <2> QED
    BY <2>3, <2>4 DEF RepositoryInv
<1> QED
  BY <1>1, TenantStep, CallerStep DEF Next

\* For every number of callers, connections, tenants and rows, the invariant
\* holds in every state.
THEOREM RepositoryInvariantHolds == Spec => []RepositoryInv
BY RepositoryInit, RepositoryStep, PTL DEF Spec

\* A list that returns nil is all of the tenant's devices at one moment, and a
\* credential that is returned is one of the tenant's.
THEOREM RepositoryReadsAreTrue == Spec => []ReadsAreTrue
<1>1. RepositoryInv => ReadsAreTrue
  BY DEF RepositoryInv
<1> QED
  BY <1>1, RepositoryInvariantHolds, PTL

\* Every way out of WithTenantTx gives its connection back clean.
THEOREM RepositoryConnectionsReturned == Spec => []ConnectionsReturned
<1>1. RepositoryInv => ConnectionsReturned
  BY DEF RepositoryInv
<1> QED
  BY <1>1, RepositoryInvariantHolds, PTL

\* Rows change in a commit only, of the row its caller saves.
LEMMA RowsChange ==
  ASSUME RepositoryInv, [Next]_vars, rows' # rows
  PROVE  \E c \in Callers :
           /\ pc[c] = "commit" /\ op[c].kind = "save" /\ op[c] \in Saves \union Reads
           /\ op[c].id \in Ids /\ rows' = [rows EXCEPT ![op[c].id] = Upserted(ToSave(c)).row]
           /\ Bound /\ rows[op[c].id] # NoRow => rows[op[c].id].tenant = op[c].tenant
<1>1. PICK c \in Callers : Commit(c) \/ CommitFails(c)
  <2>1. ~UNCHANGED vars /\ \A t \in Tenants : ~UpsertTenant(t)
    BY DEF vars, store, UpsertTenant
  <2>2. PICK c \in Callers : Call(c) \/ Begin(c) \/ Step(c) \/ Fail(c)
    BY <2>1 DEF Next
  <2>3. ~(Call(c) \/ Begin(c) \/ BeginFails(c) \/ SetTenant(c) \/ StatementFails(c))
    BY DEF Call, Begin, BeginFails, SetTenant, StatementFails, store
  <2>4. ~(Upsert(c) \/ UpsertRefused(c) \/ Select(c) \/ ScanRow(c) \/ RowsEnd(c) \/ RowsBreak(c))
    BY DEF Upsert, UpsertRefused, Select, ScanRow, RowsEnd, RowsBreak, store
  <2>5. ~(SelectOne(c) \/ CommitBroken(c) \/ Rollback(c))
    BY DEF SelectOne, CommitBroken, Rollback, store
  <2> QED
    BY <2>2, <2>3, <2>4, <2>5 DEF Step, Fail
<1>2. pc[c] = "commit" /\ Store(write[conn[c]])
  BY <1>1 DEF Commit, CommitFails
<1>3. write[conn[c]] # NoWrite
  BY <1>2 DEF Store
<1>4. /\ op[c].kind = "save" /\ write[conn[c]] = Upserted(ToSave(c))
      /\ op[c] \in Saves \union Reads /\ TypeOK
      /\ Bound /\ rows[op[c].id] # NoRow => rows[op[c].id].tenant = op[c].tenant
  BY <1>2, <1>3 DEF RepositoryInv, Written, UnderWay, Inside
<1>5. Upserted(ToSave(c)).id = op[c].id /\ op[c].id \in Ids
  BY <1>4, Saving, Storing
<1> QED
  BY <1>2, <1>3, <1>4, <1>5 DEF Store

\* However tenants share the pool and their keys meet: a committed row stays its
\* tenant's, and under a bound role changes in a call of that tenant only.
THEOREM RepositoryTenantsApart == Spec => TenantsApart
<1> DEFINE Apart ==
      \A i \in Ids : rows'[i] # rows[i] =>
        /\ rows'[i] # NoRow
        /\ rows[i] # NoRow => rows[i].tenant = rows'[i].tenant
        /\ \E c \in Callers : pc[c] = "commit" /\ (Bound => op[c].tenant = rows'[i].tenant)
<1>1. RepositoryInv /\ [Next]_vars => [Apart]_vars
  <2> SUFFICES ASSUME RepositoryInv, [Next]_vars, NEW i \in Ids, rows'[i] # rows[i]
               PROVE  /\ rows'[i] # NoRow
                      /\ rows[i] # NoRow => rows[i].tenant = rows'[i].tenant
                      /\ \E c \in Callers : pc[c] = "commit" /\ (Bound => op[c].tenant = rows'[i].tenant)
    OBVIOUS
  <2>1. PICK c \in Callers :
          /\ pc[c] = "commit" /\ op[c].kind = "save" /\ op[c] \in Saves \union Reads
          /\ op[c].id \in Ids /\ rows' = [rows EXCEPT ![op[c].id] = Upserted(ToSave(c)).row]
          /\ Bound /\ rows[op[c].id] # NoRow => rows[op[c].id].tenant = op[c].tenant
    BY RowsChange
  <2>2. TypeOK /\ rows \in [Ids -> Row \union {NoRow}]
    BY DEF RepositoryInv, TypeOK
  <2>3. i = op[c].id /\ rows'[i] = Upserted(ToSave(c)).row
    BY <2>1, <2>2
  <2>4. /\ Upserted(ToSave(c)).row \in Row
        /\ rows[i] = NoRow => rows'[i].tenant = op[c].tenant
        /\ rows[i] # NoRow => rows'[i].tenant = rows[i].tenant
    BY <2>1, <2>2, <2>3, Storing
  <2> QED
    BY <2>1, <2>3, <2>4, RepositoryAssumption
<1> QED
  BY <1>1, RepositoryInvariantHolds, PTL DEF Spec, TenantsApart

\* A save that returns nil has stored its value, and under a bound role for its
\* own tenant.
THEOREM RepositorySavedIsStored == Spec => SavedIsStored
<1> DEFINE Saved ==
      \A c \in Callers : pc[c] # "idle" /\ op[c].kind = "save" /\ returned'[c] = "nil" =>
        LET stored == rows'[op[c].id]
        IN  /\ stored # NoRow /\ stored.value = op[c].value
            /\ Bound => stored.tenant = op[c].tenant
<1>1. RepositoryInv /\ [Next]_vars => [Saved]_vars
  <2> SUFFICES ASSUME RepositoryInv, [Next]_vars, NEW c \in Callers,
                      pc[c] # "idle", op[c].kind = "save", returned'[c] = "nil"
               PROVE  /\ rows'[op[c].id] # NoRow /\ rows'[op[c].id].value = op[c].value
                      /\ Bound => rows'[op[c].id].tenant = op[c].tenant
    OBVIOUS
  <2>1. TypeOK /\ Written /\ ConnectionsReturned /\ op[c] \in Saves \union Reads /\ returned[c] = "none"
    BY DEF RepositoryInv, UnderWay
  <2>2. Commit(c)
    <3>1. returned' # returned
      BY <2>1
    <3>2. PICK d \in Callers : Call(d) \/ Begin(d) \/ Step(d) \/ Fail(d)
      BY <3>1 DEF Next, vars, UpsertTenant
    <3>3. ~(Begin(d) \/ SetTenant(d) \/ StatementFails(d) \/ Upsert(d) \/ UpsertRefused(d))
      BY <3>1 DEF Begin, SetTenant, StatementFails, Upsert, UpsertRefused
    <3>4. ~(Select(d) \/ ScanRow(d) \/ RowsEnd(d) \/ RowsBreak(d) \/ SelectOne(d))
      BY <3>1 DEF Select, ScanRow, RowsEnd, RowsBreak, SelectOne
    <3>5. ~(Call(d) \/ BeginFails(d) \/ CommitBroken(d) \/ CommitFails(d) \/ Rollback(d))
      BY <2>1 DEF Call, BeginFails, CommitBroken, CommitFails, Rollback, Return, TypeOK
    <3>6. Commit(d)
      BY <3>2, <3>3, <3>4, <3>5 DEF Step, Fail
    <3> QED
      BY <2>1, <3>6 DEF Commit, Return, TypeOK
  <2>3. pc[c] = "commit" /\ Store(write[conn[c]])
    BY <2>2 DEF Commit
  <2>4. /\ write[conn[c]] # NoWrite /\ write[conn[c]] = Upserted(ToSave(c))
        /\ Bound /\ rows[op[c].id] # NoRow => rows[op[c].id].tenant = op[c].tenant
    BY <2>1, <2>3 DEF Written, Inside
  <2>5. /\ Upserted(ToSave(c)).id = op[c].id /\ op[c].id \in Ids
        /\ Upserted(ToSave(c)).row \in Row /\ Upserted(ToSave(c)).row.value = op[c].value
        /\ Bound => Upserted(ToSave(c)).row.tenant = op[c].tenant
    BY <2>1, <2>4, Saving, Storing
  <2>6. rows'[op[c].id] = Upserted(ToSave(c)).row
    BY <2>1, <2>3, <2>4, <2>5 DEF Store, TypeOK
  <2> QED
    BY <2>5, <2>6, RepositoryAssumption
<1> QED
  BY <1>1, RepositoryInvariantHolds, PTL DEF Spec, SavedIsStored

-----------------------------------------------------------------------------
(* The refinement of TenantStore.                                          *)

\* A function that differs at one argument is the other one but for it.
LEMMA ButForOne ==
  ASSUME NEW f, NEW g, NEW c \in Callers,
         f = [d \in Callers |-> f[d]], g = [d \in Callers |-> g[d]],
         \A d \in Callers : d # c => g[d] = f[d]
  PROVE  g = [f EXCEPT ![c] = g[c]]
OBVIOUS

\* What the mapping says of a caller.
LEMMA Mapped ==
  /\ \A c \in Callers :
       /\ Phase[c] = IF pc[c] = "idle" THEN "idle"
                     ELSE IF pc[c] = "rollback" THEN "failed"
                     ELSE IF pc[c] = "rows" \/ (pc[c] = "commit" /\ op[c].kind # "save")
                       THEN "looked" ELSE "called"
       /\ Seen[c] = IF pc[c] = "idle" THEN {} ELSE owned[c]
       /\ Answer[c] = IF pc[c] = "idle" THEN result[c] ELSE {}
  /\ Phase = [c \in Callers |-> Phase[c]]
  /\ Seen = [c \in Callers |-> Seen[c]]
  /\ Answer = [c \in Callers |-> Answer[c]]
BY DEF Phase, Seen, Answer

LEMMA MappedNext ==
  /\ \A c \in Callers :
       /\ Phase'[c] = IF pc'[c] = "idle" THEN "idle"
                      ELSE IF pc'[c] = "rollback" THEN "failed"
                      ELSE IF pc'[c] = "rows" \/ (pc'[c] = "commit" /\ op'[c].kind # "save")
                        THEN "looked" ELSE "called"
       /\ Seen'[c] = IF pc'[c] = "idle" THEN {} ELSE owned'[c]
       /\ Answer'[c] = IF pc'[c] = "idle" THEN result'[c] ELSE {}
  /\ Phase' = [c \in Callers |-> Phase'[c]]
  /\ Seen' = [c \in Callers |-> Seen'[c]]
  /\ Answer' = [c \in Callers |-> Answer'[c]]
BY DEF Phase, Seen, Answer

LEMMA StaysMapped ==
  ASSUME NEW d \in Callers, pc'[d] = pc[d], op'[d] = op[d], owned'[d] = owned[d],
         returned'[d] = returned[d], result'[d] = result[d]
  PROVE  Phase'[d] = Phase[d] /\ Seen'[d] = Seen[d] /\ Answer'[d] = Answer[d]
<1>1. Phase'[d] = Phase[d]
  BY DEF Phase
<1>2. Seen'[d] = Seen[d]
  BY <1>1 DEF Seen
<1>3. Answer'[d] = Answer[d]
  BY DEF Answer
<1> QED
  BY <1>1, <1>2, <1>3

\* A step of one caller moves nobody else, seen from the abstract store either.
Others(c) ==
  \A d \in Callers : d # c =>
    /\ pc'[d] = pc[d] /\ op'[d] = op[d] /\ owned'[d] = owned[d]
    /\ returned'[d] = returned[d] /\ result'[d] = result[d]

LEMMA OneMoves ==
  ASSUME NEW c \in Callers, Others(c)
  PROVE  /\ Phase' = [Phase EXCEPT ![c] = Phase'[c]]
         /\ Seen' = [Seen EXCEPT ![c] = Seen'[c]]
         /\ Answer' = [Answer EXCEPT ![c] = Answer'[c]]
<1>1. ASSUME NEW d \in Callers, d # c
      PROVE  Phase'[d] = Phase[d] /\ Seen'[d] = Seen[d] /\ Answer'[d] = Answer[d]
  BY <1>1, StaysMapped DEF Others
<1>2. Phase' = [Phase EXCEPT ![c] = Phase'[c]]
  BY <1>1, Mapped, MappedNext, ButForOne
<1>3. Seen' = [Seen EXCEPT ![c] = Seen'[c]]
  BY <1>1, Mapped, MappedNext, ButForOne
<1>4. Answer' = [Answer EXCEPT ![c] = Answer'[c]]
  BY <1>1, Mapped, MappedNext, ButForOne
<1> QED
  BY <1>2, <1>3, <1>4

\* A step that leaves its caller where it is for the abstract store is none.
LEMMA SameSeen ==
  ASSUME NEW c \in Callers, Others(c), UNCHANGED <<tenants, rows, op, returned>>,
         Phase'[c] = Phase[c], Seen'[c] = Seen[c], Answer'[c] = Answer[c]
  PROVE  UNCHANGED Atomic!vars
<1>1. ASSUME NEW d \in Callers
      PROVE  Phase'[d] = Phase[d] /\ Seen'[d] = Seen[d] /\ Answer'[d] = Answer[d]
  BY <1>1, StaysMapped DEF Others
<1>2. Phase' = Phase
  BY <1>1, Mapped, MappedNext
<1>3. Seen' = Seen
  BY <1>1, Mapped, MappedNext
<1>4. Answer' = Answer
  BY <1>1, Mapped, MappedNext
<1> QED
  BY <1>2, <1>3, <1>4 DEF Atomic!vars

\* What the statement finds under the policy and its WHERE is what its tenant owns.
LEMMA OwnedIsFound ==
  ASSUME TypeOK, NEW table \in SUBSET Ids, NEW t
  PROVE  OfTenant(Rows(table), t) = Atomic!Owned(t, table)
<1> DEFINE mine == {j \in table : rows[j] # NoRow /\ rows[j].tenant = t}
<1>1. rows \in [Ids -> Row \union {NoRow}] /\ NoRow \notin Row
  BY RepositoryAssumption DEF TypeOK
<1>2. ASSUME NEW w \in OfTenant(Rows(table), t) PROVE w \in Atomic!Owned(t, table)
  <2>1. /\ w \in Write /\ w.id \in table /\ rows[w.id] = w.row /\ w.row.tenant = t
        /\ w.row \in Row
    BY <1>2 DEF OfTenant, Rows, Write
  <2>2. w.id \in mine /\ w = [id |-> w.id, row |-> rows[w.id]]
    BY <1>1, <2>1 DEF Write
  <2> QED
    BY <2>2 DEF Atomic!Owned
<1>3. ASSUME NEW j \in mine PROVE [id |-> j, row |-> rows[j]] \in OfTenant(Rows(table), t)
  <2>1. j \in Ids /\ j \in table /\ rows[j] \in Row /\ rows[j].tenant = t
    BY <1>1, <1>3
  <2>2. [id |-> j, row |-> rows[j]] \in Write
    BY <2>1 DEF Write
  <2> QED
    BY <2>1, <2>2 DEF OfTenant, Rows
<1>4. Atomic!Owned(t, table) = {[id |-> j, row |-> rows[j]] : j \in mine}
  BY DEF Atomic!Owned
<1> HIDE DEF mine
<1> QED
  BY <1>2, <1>3, <1>4

LEMMA CallInvokes ==
  ASSUME RepositoryInv, NEW c \in Callers, Call(c)
  PROVE  Atomic!Invoke(c)
<1>1. /\ pc[c] = "idle" /\ pc'[c] = "begin" /\ owned'[c] = {} /\ returned' = [returned EXCEPT ![c] = "none"]
      /\ returned'[c] = "none" /\ Others(c) /\ UNCHANGED <<tenants, rows>>
      /\ \E o \in Saves \union Reads : op' = [op EXCEPT ![c] = o]
  BY DEF Call, Others, RepositoryInv, TypeOK, store
<1>2. /\ Phase[c] = "idle" /\ Phase'[c] = "called"
      /\ Seen[c] = {} /\ Seen'[c] = {} /\ Answer'[c] = {}
  BY <1>1, Mapped, MappedNext
<1>3. Seen' = Seen
  <2>1. Seen' = [Seen EXCEPT ![c] = Seen[c]]
    BY <1>1, <1>2, OneMoves
  <2> QED
    BY <2>1, Mapped
<1> QED
  BY <1>1, <1>2, <1>3, OneMoves DEF Atomic!Invoke

\* Before the statement, between two rows and up to the COMMIT nothing happens.
LEMMA QuietSteps ==
  ASSUME RepositoryInv, NEW c \in Callers,
         \/ Begin(c) \/ SetTenant(c) \/ Upsert(c) \/ ScanRow(c) \/ RowsEnd(c) \/ RowsBreak(c)
  PROVE  UNCHANGED Atomic!vars
<1>1. TypeOK /\ (pc[c] # "idle" => returned[c] = "none")
      /\ (pc[c] = "rows" => op[c].kind # "save")
  BY DEF RepositoryInv, UnderWay, Cursor
<1>2. /\ Others(c) /\ UNCHANGED <<tenants, rows, op, returned, owned>> /\ pc[c] # "idle"
  BY <1>1 DEF Begin, SetTenant, Upsert, Ready, ScanRow, RowsEnd, RowsBreak, Others, TypeOK,
              store, query
<1>3. Phase'[c] = Phase[c]
  <2>1. CASE Begin(c) \/ SetTenant(c)
    BY <1>1, <1>2, <2>1, Mapped, MappedNext DEF Begin, SetTenant, TypeOK
  <2>2. CASE Upsert(c)
    BY <1>1, <1>2, <2>2, Mapped, MappedNext DEF Upsert, Ready, TypeOK
  <2>3. CASE ScanRow(c) \/ RowsEnd(c) \/ RowsBreak(c)
    BY <1>1, <1>2, <2>3, Mapped, MappedNext DEF ScanRow, RowsEnd, RowsBreak, TypeOK
  <2> QED
    BY <2>1, <2>2, <2>3
<1>4. Seen'[c] = Seen[c] /\ Answer'[c] = Answer[c]
  BY <1>1, <1>2, <1>3, Mapped, MappedNext
<1> QED
  BY <1>2, <1>3, <1>4, SameSeen

\* A read happens when its statement runs.
LEMMA SelectLooks ==
  ASSUME RepositoryInv, NEW c \in Callers, Select(c) \/ SelectOne(c)
  PROVE  Atomic!Look(c) \/ Atomic!Fail(c)
<1>1. TypeOK /\ returned[c] = "none" /\ op[c] \in Saves \union Reads
  BY DEF RepositoryInv, UnderWay, Select, SelectOne
<1>2. /\ Others(c) /\ UNCHANGED <<tenants, rows, op, returned>>
      /\ pc[c] = "exec" /\ op[c].kind # "save"
      /\ op[c].kind = "list" \/ op[c].kind = "get"
  BY <1>1 DEF Select, SelectOne, Others, TypeOK, store
<1>3. pc'[c] \in {"rows", "commit", "rollback"}
  BY <1>1 DEF Select, SelectOne, TypeOK
<1>4. Phase[c] = "called" /\ Answer[c] = {} /\ Answer'[c] = {}
  BY <1>1, <1>2, <1>3, Mapped, MappedNext
<1>5. Answer' = Answer
  <2>1. Answer' = [Answer EXCEPT ![c] = Answer[c]]
    BY <1>2, <1>4, OneMoves
  <2> QED
    BY <2>1, Mapped
<1>6. CASE pc'[c] \in {"rows", "commit"}
  <2>1. Devices \in SUBSET Ids /\ Credentials \in SUBSET Ids
    BY DEF Ids
  <2>2. owned'[c] = Atomic!Owned(op[c].tenant, IF op[c].kind = "list" THEN Devices ELSE Credentials)
    <3>1. owned'[c] = OfTenant(Rows(IF op[c].kind = "list" THEN Devices ELSE Credentials), op[c].tenant)
      BY <1>1 DEF Select, SelectOne, TypeOK
    <3> QED
      BY <1>1, <2>1, <3>1, OwnedIsFound
  <2>3. Phase'[c] = "looked" /\ Seen'[c] = owned'[c]
    BY <1>2, <1>6, MappedNext
  <2> QED
    BY <1>2, <1>4, <1>5, <2>2, <2>3, OneMoves DEF Atomic!Look
<1>7. CASE pc'[c] = "rollback"
  <2>1. SelectOne(c) /\ OfTenant(Visible(conn[c], Credentials), op[c].tenant) = {}
    BY <1>1, <1>7 DEF Select, SelectOne, TypeOK
  <2>2. setting[conn[c]] = op[c].tenant /\ owned[c] = {}
    BY <1>2 DEF RepositoryInv, Told, Cursor
  <2>3. owned'[c] = {}
    BY <1>1, <2>1, <2>2 DEF SelectOne, OfTenant, Visible, TypeOK
  <2>4. Phase'[c] = "failed" /\ Seen'[c] = Seen[c]
    BY <1>2, <1>7, <2>2, <2>3, Mapped, MappedNext
  <2>5. Seen' = Seen
    <3>1. Seen' = [Seen EXCEPT ![c] = Seen[c]]
      BY <1>2, <2>4, OneMoves
    <3> QED
      BY <3>1, Mapped
  <2> QED
    BY <1>2, <1>4, <1>5, <2>4, <2>5, OneMoves DEF Atomic!Fail
<1> QED
  BY <1>6, <1>7, <1>3

LEMMA FailureFails ==
  ASSUME RepositoryInv, NEW c \in Callers, StatementFails(c) \/ UpsertRefused(c)
  PROVE  Atomic!Fail(c)
<1>1. TypeOK /\ returned[c] = "none"
  BY DEF RepositoryInv, UnderWay, StatementFails, UpsertRefused, Ready
<1>2. /\ Others(c) /\ UNCHANGED <<tenants, rows, op, owned, returned>>
      /\ pc[c] \in {"set", "exec", "rows"} /\ pc'[c] = "rollback"
  BY <1>1 DEF StatementFails, UpsertRefused, Ready, Others, TypeOK, store, query
<1>3. /\ Phase[c] \in {"called", "looked"} /\ Phase'[c] = "failed"
      /\ Seen'[c] = Seen[c] /\ Answer[c] = {} /\ Answer'[c] = {}
  BY <1>1, <1>2, Mapped, MappedNext
<1>4. Seen' = Seen /\ Answer' = Answer
  <2>1. Seen' = [Seen EXCEPT ![c] = Seen[c]] /\ Answer' = [Answer EXCEPT ![c] = Answer[c]]
    BY <1>2, <1>3, OneMoves
  <2> QED
    BY <2>1, Mapped
<1> QED
  BY <1>2, <1>3, <1>4, OneMoves DEF Atomic!Fail

\* A call that goes idle returns to its caller.
LEMMA ReturnReturns ==
  ASSUME RepositoryInv, NEW c \in Callers, pc[c] # "idle", NEW err, Return(c, err),
         UNCHANGED <<tenants, op, query>>
  PROVE  Atomic!Return(c, err, result[c])
<1>1. /\ Others(c) /\ pc'[c] = "idle" /\ returned'[c] = err
      /\ returned' = [returned EXCEPT ![c] = err] /\ UNCHANGED <<tenants, op, result>>
  BY DEF Return, Others, RepositoryInv, TypeOK, query
<1>2. Phase'[c] = "idle" /\ Seen'[c] = {} /\ Answer'[c] = result[c]
  BY <1>1, MappedNext
<1> QED
  BY <1>1, <1>2, OneMoves DEF Atomic!Return

\* A save happens when its COMMIT does, whether or not the caller hears of it.
LEMMA CommitSaves ==
  ASSUME RepositoryInv, NEW c \in Callers, pc[c] = "commit", op[c].kind = "save",
         Store(write[conn[c]]), NEW err \in {"nil", "error"}, Return(c, err),
         UNCHANGED <<tenants, op, query>>
  PROVE  Atomic!Save(c)
<1>1. TypeOK /\ Written /\ op[c] \in Saves \union Reads /\ rows \in [Ids -> Row \union {NoRow}]
  BY DEF RepositoryInv, UnderWay, TypeOK
<1>2. /\ write[conn[c]] # NoWrite /\ write[conn[c]] = Upserted(ToSave(c))
      /\ Upserted(ToSave(c)).row.tenant \in tenants
      /\ Bound /\ rows[op[c].id] # NoRow => rows[op[c].id].tenant = op[c].tenant
  BY <1>1 DEF Written, Inside
<1>3. /\ Upserted(ToSave(c)).id = op[c].id /\ op[c].id \in Ids
      /\ Upserted(ToSave(c)).row \in Row /\ Upserted(ToSave(c)).row.value = op[c].value
      /\ rows[op[c].id] = NoRow => Upserted(ToSave(c)).row.tenant = op[c].tenant
      /\ rows[op[c].id] # NoRow => Upserted(ToSave(c)).row.tenant = rows[op[c].id].tenant
  BY <1>1, Saving, Storing
<1>4. Upserted(ToSave(c)).row =
        [tenant |-> IF rows[op[c].id] = NoRow THEN op[c].tenant ELSE rows[op[c].id].tenant,
         value |-> op[c].value]
  BY <1>3 DEF Row
<1>5. rows' = [rows EXCEPT ![op[c].id] = Upserted(ToSave(c)).row]
  BY <1>2, <1>3 DEF Store
<1>6. Atomic!Put(op[c])
  BY <1>2, <1>3, <1>4, <1>5 DEF Atomic!Put
<1>7. Phase[c] = "called"
  BY Mapped
<1>8. Atomic!Return(c, err, {})
  <2>1. result[c] = {}
    BY DEF RepositoryInv, Cursor
  <2> QED
    BY <2>1, ReturnReturns
<1> QED
  BY <1>6, <1>7, <1>8 DEF Atomic!Save

LEMMA EndReturns ==
  ASSUME RepositoryInv, NEW c \in Callers,
         \/ BeginFails(c) \/ Commit(c) \/ CommitBroken(c) \/ CommitFails(c) \/ Rollback(c)
  PROVE  Atomic!Save(c) \/ Atomic!Answer(c) \/ Atomic!Error(c)
<1>1. /\ pc[c] # "idle" /\ UNCHANGED <<tenants, op, query>> /\ Phase[c] # "idle"
  BY Mapped DEF BeginFails, Commit, CommitBroken, CommitFails, Rollback, store
<1>2. ASSUME Return(c, "error"), UNCHANGED rows PROVE Atomic!Error(c)
  <2>1. Atomic!Return(c, "error", result[c])
    BY <1>1, <1>2, ReturnReturns
  <2>2. result[c] \in SUBSET Seen[c]
    BY <1>1, Mapped DEF RepositoryInv, Cursor
  <2> QED
    BY <1>1, <1>2, <2>1, <2>2 DEF Atomic!Error
<1>3. ASSUME pc[c] = "commit", op[c].kind # "save", Store(write[conn[c]]) PROVE UNCHANGED rows
  <2>1. write[conn[c]] = NoWrite
    BY <1>3 DEF RepositoryInv, Written, Inside
  <2> QED
    BY <1>3, <2>1 DEF Store
<1>4. CASE BeginFails(c) \/ CommitBroken(c) \/ Rollback(c)
  BY <1>2, <1>4 DEF BeginFails, CommitBroken, Rollback, store
<1>5. CASE CommitFails(c)
  BY <1>1, <1>2, <1>3, <1>5, CommitSaves DEF CommitFails
<1>6. CASE Commit(c)
  <2>1. pc[c] = "commit" /\ ~broken[conn[c]] /\ Store(write[conn[c]]) /\ Return(c, "nil")
    BY <1>6 DEF Commit
  <2>2. CASE op[c].kind = "save"
    BY <1>1, <2>1, <2>2, CommitSaves
  <2>3. CASE op[c].kind # "save"
    <3>1. op[c].kind \in {"list", "get"}
      BY <1>1, <2>3 DEF RepositoryInv, UnderWay, Saves, Reads
    <3>2. UNCHANGED rows /\ Phase[c] = "looked" /\ Seen[c] = owned[c]
      BY <1>3, <2>1, <2>3, Mapped
    <3>3. Atomic!Return(c, "nil", result[c])
      BY <1>1, <2>1, <2>3, ReturnReturns
    <3>4. CASE op[c].kind = "list"
      <4>1. result[c] = Seen[c]
        BY <2>1, <3>2, <3>4 DEF RepositoryInv, Cursor
      <4> QED
        BY <3>2, <3>3, <3>4, <4>1 DEF Atomic!Answer
    <3>5. CASE op[c].kind = "get"
      <4>1. PICK w \in Seen[c] : result[c] = {w}
        BY <2>1, <3>2, <3>5 DEF RepositoryInv, Cursor
      <4> QED
        BY <3>2, <3>3, <3>5, <4>1 DEF Atomic!Answer
    <3> QED
      BY <3>1, <3>4, <3>5
  <2> QED
    BY <2>2, <2>3
<1> QED
  BY <1>4, <1>5, <1>6

\* WithTenantTx and its one statement are one step to their caller: a save that
\* happens at its COMMIT, a read that happens at its SELECT and is told later,
\* or an error, for any number of callers on any pool.
THEOREM RepositoryActsAtOnce == Spec => ActsAtOnce
<1>1. Init => Atomic!Init
  <2> SUFFICES ASSUME Init PROVE Atomic!Init
    OBVIOUS
  <2>1. \A c \in Callers : Phase[c] = "idle" /\ Seen[c] = {} /\ Answer[c] = {}
    BY Mapped DEF Init
  <2>2. /\ Phase = [c \in Callers |-> "idle"]
        /\ Seen = [c \in Callers |-> {}]
        /\ Answer = [c \in Callers |-> {}]
    BY <2>1, Mapped
  <2> QED
    BY <2>2 DEF Init, Atomic!Init
<1>2. RepositoryInv /\ [Next]_vars => [Atomic!Next]_Atomic!vars
  <2> SUFFICES ASSUME RepositoryInv, [Next]_vars PROVE [Atomic!Next]_Atomic!vars
    OBVIOUS
  <2>1. ASSUME UNCHANGED <<rows, pc, op, query, returned>>
        PROVE  UNCHANGED <<rows, op, Phase, Seen, returned, Answer>>
    BY <2>1 DEF Phase, Seen, Answer, query
  <2>2. CASE UNCHANGED vars
    BY <2>1, <2>2 DEF vars, store, Atomic!vars
  <2>3. ASSUME NEW t \in Tenants, UpsertTenant(t) PROVE Atomic!Next
    BY <2>1, <2>3 DEF UpsertTenant, Atomic!AddTenant, Atomic!Next
  <2>4. ASSUME NEW c \in Callers, Call(c) \/ Begin(c) \/ Step(c) \/ Fail(c)
        PROVE  [Atomic!Next]_Atomic!vars
    BY <2>4, CallInvokes, QuietSteps, SelectLooks, FailureFails, EndReturns
       DEF Step, Fail, Atomic!Next
  <2> QED
    BY <2>2, <2>3, <2>4 DEF Next
<1> QED
  BY <1>1, <1>2, RepositoryInvariantHolds, PTL DEF Spec, ActsAtOnce, Atomic!Spec
=============================================================================
