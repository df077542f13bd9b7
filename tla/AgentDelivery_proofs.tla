------------------------ MODULE AgentDelivery_proofs ------------------------
(***************************************************************************)
(* AgentInv is an invariant of AgentDelivery, for any number of handlers   *)
(* and scans, any set of modes, faults and poisoned payloads; the safety   *)
(* properties and the refinement of Outbox follow from it.                 *)
(*                                                                         *)
(* The invariant is proved in layers, each of which may use the ones       *)
(* before it: Shape, Books, SnapshotInOrder, then what has been answered   *)
(* (AnswersTrue, KnownOrDoubted, NoSilentLoss).                            *)
(***************************************************************************)
EXTENDS AgentInvariant, TLAPS

\* The types of senders and payloads that every step relies on.
LEMMA Kinds ==
  /\ Main \in Scanners /\ Flusher \in Senders /\ Flusher \notin Scanners
  /\ Scanners \subseteq Senders /\ Handlers \subseteq Scanners
  /\ Main \notin Handlers
  /\ Payloads \subseteq Nat /\ NoPayload \notin Payloads /\ NoPayload = 0
  /\ MaxScans \in Nat
<1>1. Payloads \subseteq Nat
  BY AgentAssumption
<1>2. NoPayload \notin Payloads /\ NoPayload = 0
  BY AgentAssumption DEF NoPayload
<1>3. Scanners \subseteq Senders /\ Handlers \subseteq Scanners
  BY DEF Scanners, Senders
<1> QED
  BY <1>1, <1>2, <1>3, AgentAssumption DEF Scanners, Senders

\* The next scan's payload is within the bound.
LEMMA Fresh ==
  ASSUME scans \in 0 .. MaxScans, scans < MaxScans
  PROVE  scans + 1 \in Payloads /\ scans + 1 \in 0 .. MaxScans
BY AgentAssumption

\* A sender with a request out holds a payload.
LEMMA Holding ==
  ASSUME TypeOK, Grip, NEW s \in Senders, pc[s] \in {"post", "wait", "cache"}
  PROVE  hand[s] \in Payloads
BY DEF TypeOK, SendingTypeOK, Grip

\* What rows, snapshots and held payloads are made of.
LEMMA RowParts ==
  ASSUME TypeOK
  PROVE  \A r \in rows \union todo : r.id \in Nat /\ r.id # 0 /\ r.payload \in Payloads
BY DEF TypeOK, QueueTypeOK, SendingTypeOK, Row

LEMMA SetsOfPayloads ==
  ASSUME TypeOK, Grip
  PROVE  /\ FlushedPayloads \subseteq Payloads
         /\ InDoubt \subseteq Payloads
         /\ Travelling \subseteq Payloads
         /\ Held(Scanners) \subseteq Payloads
<1>1. FlushedPayloads \subseteq Payloads
  BY RowParts DEF FlushedPayloads, PayloadsOf
<1>2. \A s \in Senders : pc[s] = "wait" => hand[s] \in Payloads
  BY Holding
<1>3. \A s \in Senders : wire[s] = "sent" => hand[s] \in Payloads
  BY <1>2 DEF Grip
<1>4. Held(Scanners) \subseteq Payloads
  BY Kinds DEF Held, TypeOK, SendingTypeOK
<1> QED
  BY <1>1, <1>2, <1>3, <1>4 DEF InDoubt, Travelling

LEMMA ReceiveType ==
  ASSUME LedgerTypeOK, NEW p \in Payloads, Receive(p)
  PROVE  accepted' \subseteq Payloads /\ again' \subseteq Payloads
BY DEF LedgerTypeOK, Receive

-----------------------------------------------------------------------------
LEMMA ShapeInit == Init => Shape
<1> SUFFICES ASSUME Init PROVE Shape
  OBVIOUS
<1> USE Kinds DEF Init, QueueInit, Resting
<1>1. QueueTypeOK /\ ProcessTypeOK
  BY DEF QueueTypeOK, ProcessTypeOK
<1>2. SendingTypeOK
  BY DEF SendingTypeOK
<1>3. LedgerTypeOK
  BY DEF LedgerTypeOK
<1>4. Grip
  BY DEF Grip, FlusherLabels, ScannerLabels
<1> QED
  BY <1>1, <1>2, <1>3, <1>4 DEF Shape, TypeOK

LEMMA ShapeStep == Shape /\ [Next]_vars => Shape'
<1> SUFFICES ASSUME TypeOK, Grip, [Next]_vars PROVE Shape'
  BY DEF Shape
<1> USE Kinds DEF TypeOK, Shape, Goto, LetGo, HangUp, store, config, pass, signals, backend
<1>1. ASSUME NEW m \in Modes, NEW c \in BOOLEAN, NEW q \in BOOLEAN, Start(m, c, q) PROVE Shape'
  <2>1. QueueTypeOK'
    BY <1>1 DEF Start, QueueTypeOK
  <2>2. ProcessTypeOK'
    BY <1>1 DEF Start, ProcessTypeOK, Resting
  <2>3. SendingTypeOK'
    BY <1>1 DEF Start, SendingTypeOK, QueueTypeOK
  <2>4. LedgerTypeOK'
    BY <1>1 DEF Start, LedgerTypeOK
  <2>5. Grip'
    <3>1. pc = Resting
      BY <1>1 DEF Start, Grip
    <3>2. \A s \in Senders : hand[s] = NoPayload /\ wire[s] = "none"
      BY <3>1 DEF Grip, Resting
    <3>3. pc'[Flusher] \in {"off", "poll"} /\ \A s \in Scanners : pc'[s] \in {"idle", "collect"}
      BY <1>1 DEF Start, Resting
    <3>4. mode' # "down" /\ \A h \in Handlers : pc'[h] = "idle"
      BY <1>1, AgentAssumption DEF Start, Resting
    <3> QED
      BY <1>1, <3>2, <3>3, <3>4 DEF Start, Grip, FlusherLabels, ScannerLabels, Senders
  <2> QED
    BY <2>1, <2>2, <2>3, <2>4, <2>5
<1>2. CASE Tick
  BY <1>2 DEF Tick, QueueTypeOK, ProcessTypeOK, SendingTypeOK,
     LedgerTypeOK, Grip, FlusherLabels, ScannerLabels, Resting
<1>3. ASSUME NEW h \in Handlers, ScanRequest(h) PROVE Shape'
  BY <1>3 DEF ScanRequest, QueueTypeOK, ProcessTypeOK, SendingTypeOK,
     LedgerTypeOK, Grip, FlusherLabels, ScannerLabels, Resting
<1>4. ASSUME NEW s \in Scanners, CollectOk(s) PROVE Shape'
  <2>1. QueueTypeOK'
    BY <1>4 DEF CollectOk, QueueTypeOK
  <2>2. ProcessTypeOK'
    BY <1>4 DEF CollectOk, ProcessTypeOK, Resting
  <2>3. SendingTypeOK'
    BY <1>4, Fresh DEF CollectOk, SendingTypeOK, LedgerTypeOK
  <2>4. LedgerTypeOK'
    <3>1. scans + 1 \in Payloads /\ scans + 1 \in 0 .. MaxScans
      BY <1>4, Fresh DEF CollectOk, LedgerTypeOK
    <3> QED
      BY <1>4, <3>1 DEF CollectOk, LedgerTypeOK
  <2>5. Grip'
    <3>1. scans + 1 # NoPayload /\ mode # "down"
      BY <1>4, Fresh DEF CollectOk, LedgerTypeOK, Grip, Resting
    <3> QED
      BY <1>4, <3>1 DEF CollectOk, Grip, ProcessTypeOK, SendingTypeOK, FlusherLabels, ScannerLabels
  <2> QED
    BY <2>1, <2>2, <2>3, <2>4, <2>5
<1>5. ASSUME NEW s \in Scanners, CollectFails(s) PROVE Shape'
  BY <1>5 DEF CollectFails, QueueTypeOK, ProcessTypeOK, SendingTypeOK,
     LedgerTypeOK, Grip, FlusherLabels, ScannerLabels, Resting
<1>6. ASSUME NEW s \in Scanners, Transmitted(s) PROVE Shape'
  BY <1>6 DEF Transmitted, QueueTypeOK, ProcessTypeOK, SendingTypeOK,
     LedgerTypeOK, Grip, FlusherLabels, ScannerLabels, Resting
<1>7. ASSUME NEW s \in Scanners, TransmitRefused(s) PROVE Shape'
  BY <1>7 DEF TransmitRefused, QueueTypeOK, ProcessTypeOK, SendingTypeOK,
     LedgerTypeOK, Grip, FlusherLabels, ScannerLabels, Resting
<1>8. ASSUME NEW s \in Scanners, CacheOffline(s) PROVE Shape'
  <2>1. QueueTypeOK'
    <3>1. hand[s] \in Payloads
      BY <1>8, Holding DEF CacheOffline
    <3> QED
      BY <1>8, <3>1 DEF CacheOffline, Enqueue, QueueTypeOK, Row
  <2>2. ProcessTypeOK'
    BY <1>8 DEF CacheOffline, ProcessTypeOK, Resting
  <2>3. SendingTypeOK'
    BY <1>8 DEF CacheOffline, SendingTypeOK, QueueTypeOK
  <2>4. LedgerTypeOK'
    <3>1. hand[s] \in Payloads
      BY <1>8, Holding DEF CacheOffline
    <3> QED
      BY <1>8, <3>1 DEF CacheOffline, LedgerTypeOK
  <2>5. Grip'
    BY <1>8 DEF CacheOffline, Grip, ProcessTypeOK, SendingTypeOK, FlusherLabels, ScannerLabels, Resting
  <2> QED
    BY <2>1, <2>2, <2>3, <2>4, <2>5
<1>9. ASSUME NEW s \in Senders, Post(s) PROVE Shape'
  BY <1>9 DEF Post, QueueTypeOK, ProcessTypeOK, SendingTypeOK,
     LedgerTypeOK, Grip, FlusherLabels, ScannerLabels, Resting
<1>10. ASSUME NEW s \in Senders, DoFails(s) PROVE Shape'
  <2>1. QueueTypeOK'
    BY <1>10 DEF DoFails, QueueTypeOK
  <2>2. ProcessTypeOK'
    BY <1>10 DEF DoFails, ProcessTypeOK, Resting
  <2>3. SendingTypeOK'
    BY <1>10 DEF DoFails, SendingTypeOK, QueueTypeOK
  <2>4. LedgerTypeOK'
    <3>1. hand[s] \in Payloads
      BY <1>10, Holding DEF DoFails
    <3> QED
      BY <1>10, <3>1 DEF DoFails, LedgerTypeOK
  <2>5. Grip'
    BY <1>10 DEF DoFails, Grip, ProcessTypeOK, SendingTypeOK, FlusherLabels, ScannerLabels, Resting
  <2> QED
    BY <2>1, <2>2, <2>3, <2>4, <2>5
<1>11. ASSUME NEW s \in Senders, Accept(s) PROVE Shape'
  <2>1. QueueTypeOK'
    BY <1>11 DEF Accept, QueueTypeOK
  <2>2. ProcessTypeOK'
    BY <1>11 DEF Accept, ProcessTypeOK, Resting
  <2>3. SendingTypeOK'
    BY <1>11 DEF Accept, SendingTypeOK, QueueTypeOK
  <2>4. LedgerTypeOK'
    <3>1. hand[s] \in Payloads
      BY <1>11, Holding DEF Accept, Grip
    <3> QED
      BY <1>11, <3>1, ReceiveType DEF Accept, LedgerTypeOK
  <2>5. Grip'
    BY <1>11 DEF Accept, Grip, ProcessTypeOK, SendingTypeOK, FlusherLabels, ScannerLabels, Resting
  <2> QED
    BY <2>1, <2>2, <2>3, <2>4, <2>5
<1>12. ASSUME NEW s \in Senders, Refuse(s) PROVE Shape'
  BY <1>12 DEF Refuse, QueueTypeOK, ProcessTypeOK, SendingTypeOK,
     LedgerTypeOK, Grip, FlusherLabels, ScannerLabels, Resting
<1>13. CASE PollTick \/ FlusherStop \/ FlushLoopDone
  <2>1. QueueTypeOK'
    BY <1>13 DEF PollTick, FlusherStop, FlushLoopDone, QueueTypeOK
  <2>2. ProcessTypeOK'
    BY <1>13 DEF PollTick, FlusherStop, FlushLoopDone, ProcessTypeOK, Resting
  <2>3. SendingTypeOK'
    BY <1>13 DEF PollTick, FlusherStop, FlushLoopDone, SendingTypeOK, QueueTypeOK
  <2>4. LedgerTypeOK'
    BY <1>13 DEF PollTick, FlusherStop, FlushLoopDone, LedgerTypeOK
  <2>5. Grip'
    BY <1>13 DEF PollTick, FlusherStop, FlushLoopDone, Grip, ProcessTypeOK, SendingTypeOK, FlusherLabels, ScannerLabels, Resting
  <2> QED
    BY <2>1, <2>2, <2>3, <2>4, <2>5
<1>14. CASE FlushQuery
  <2>1. todo' \subseteq rows
    BY <1>14 DEF FlushQuery, EndPass, DequeueAll, DequeueBroken
  <2> QED
    BY <1>14, <2>1 DEF FlushQuery, EndPass, DequeueAll, QueueTypeOK, ProcessTypeOK, SendingTypeOK,
     LedgerTypeOK, Grip, FlusherLabels, ScannerLabels, Resting
<1>15. CASE FlushCancelled
  <2>1. QueueTypeOK'
    BY <1>15 DEF FlushCancelled, EndPass, QueueTypeOK
  <2>2. ProcessTypeOK'
    BY <1>15 DEF FlushCancelled, EndPass, ProcessTypeOK, Resting
  <2>3. SendingTypeOK'
    BY <1>15 DEF FlushCancelled, EndPass, SendingTypeOK, QueueTypeOK
  <2>4. LedgerTypeOK'
    BY <1>15, SetsOfPayloads DEF FlushCancelled, LedgerTypeOK
  <2>5. Grip'
    BY <1>15 DEF FlushCancelled, EndPass, Grip, ProcessTypeOK, SendingTypeOK, FlusherLabels, ScannerLabels, Resting
  <2> QED
    BY <2>1, <2>2, <2>3, <2>4, <2>5
<1>16. CASE FlushSelect
  <2>1. QueueTypeOK'
    BY <1>16 DEF FlushSelect, QueueTypeOK
  <2>2. ProcessTypeOK'
    BY <1>16 DEF FlushSelect, ProcessTypeOK, Resting
  <2>3. SendingTypeOK'
    BY <1>16, RowParts DEF FlushSelect, SendingTypeOK
  <2>4. LedgerTypeOK'
    BY <1>16 DEF FlushSelect, LedgerTypeOK
  <2>5. Grip'
    <3>1. PICK r \in todo : hand' = [hand EXCEPT ![Flusher] = r.payload]
      BY <1>16 DEF FlushSelect
    <3>2. r.payload # NoPayload /\ mode # "down"
      BY <1>16, RowParts DEF FlushSelect, Grip, Resting
    <3> QED
      BY <1>16, <3>1, <3>2 DEF FlushSelect, Grip, ProcessTypeOK, SendingTypeOK, FlusherLabels, ScannerLabels
  <2> QED
    BY <2>1, <2>2, <2>3, <2>4, <2>5
<1>17. CASE FlushOk
  <2>1. QueueTypeOK'
    BY <1>17 DEF FlushOk, QueueTypeOK
  <2>2. ProcessTypeOK'
    BY <1>17 DEF FlushOk, ProcessTypeOK, Resting
  <2>3. SendingTypeOK'
    BY <1>17, RowParts DEF FlushOk, SendingTypeOK
  <2>4. LedgerTypeOK'
    BY <1>17 DEF FlushOk, LedgerTypeOK
  <2>5. Grip'
    BY <1>17 DEF FlushOk, Grip, ProcessTypeOK, SendingTypeOK, FlusherLabels, ScannerLabels, Resting
  <2> QED
    BY <2>1, <2>2, <2>3, <2>4, <2>5
<1>18. CASE FlushBreak
  BY <1>18 DEF FlushBreak, QueueTypeOK, ProcessTypeOK, SendingTypeOK,
     LedgerTypeOK, Grip, FlusherLabels, ScannerLabels, Resting
<1>19. CASE FlushDelete
  <2>1. QueueTypeOK'
    BY <1>19 DEF FlushDelete, EndPass, Delete, QueueTypeOK
  <2>2. ProcessTypeOK'
    BY <1>19 DEF FlushDelete, EndPass, Delete, ProcessTypeOK, Resting
  <2>3. SendingTypeOK'
    BY <1>19 DEF FlushDelete, EndPass, Delete, SendingTypeOK, QueueTypeOK
  <2>4. LedgerTypeOK'
    BY <1>19, SetsOfPayloads DEF FlushDelete, LedgerTypeOK
  <2>5. Grip'
    BY <1>19 DEF FlushDelete, EndPass, Delete, Grip, ProcessTypeOK, SendingTypeOK, FlusherLabels, ScannerLabels, Resting
  <2> QED
    BY <2>1, <2>2, <2>3, <2>4, <2>5
<1>20. CASE Exit \/ Crash
  <2>1. QueueTypeOK'
    BY <1>20 DEF Exit, Crash, Halt, QueueTypeOK
  <2>2. ProcessTypeOK'
    BY <1>20 DEF Exit, Crash, Halt, ProcessTypeOK, Resting
  <2>3. SendingTypeOK'
    BY <1>20 DEF Exit, Crash, Halt, SendingTypeOK, QueueTypeOK
  <2>4. LedgerTypeOK'
    BY <1>20, SetsOfPayloads DEF Exit, Crash, Halt, LedgerTypeOK
  <2>5. Grip'
    BY <1>20 DEF Exit, Crash, Halt, Grip, ProcessTypeOK, SendingTypeOK, FlusherLabels, ScannerLabels, Resting
  <2> QED
    BY <2>1, <2>2, <2>3, <2>4, <2>5
<1>21. CASE Signal \/ Shutdown \/ Flap
  <2>1. QueueTypeOK'
    BY <1>21 DEF Signal, Shutdown, Flap, QueueTypeOK
  <2>2. ProcessTypeOK'
    BY <1>21 DEF Signal, Shutdown, Flap, ProcessTypeOK, Resting
  <2>3. SendingTypeOK'
    BY <1>21 DEF Signal, Shutdown, Flap, SendingTypeOK, QueueTypeOK
  <2>4. LedgerTypeOK'
    BY <1>21 DEF Signal, Shutdown, Flap, LedgerTypeOK
  <2>5. Grip'
    BY <1>21 DEF Signal, Shutdown, Flap, Grip, ProcessTypeOK, SendingTypeOK, FlusherLabels, ScannerLabels, Resting
  <2> QED
    BY <2>1, <2>2, <2>3, <2>4, <2>5
<1>22. ASSUME NEW p \in Payloads, LateArrival(p) PROVE Shape'
  <2>1. QueueTypeOK'
    BY <1>22 DEF LateArrival, QueueTypeOK
  <2>2. ProcessTypeOK'
    BY <1>22 DEF LateArrival, ProcessTypeOK, Resting
  <2>3. SendingTypeOK'
    BY <1>22 DEF LateArrival, SendingTypeOK, QueueTypeOK
  <2>4. LedgerTypeOK'
    BY <1>22, ReceiveType DEF LateArrival, LedgerTypeOK
  <2>5. Grip'
    BY <1>22 DEF LateArrival, Grip, ProcessTypeOK, SendingTypeOK, FlusherLabels, ScannerLabels, Resting
  <2> QED
    BY <2>1, <2>2, <2>3, <2>4, <2>5
<1>23. ASSUME NEW h \in Handlers, Disconnect(h) PROVE Shape'
  BY <1>23 DEF Disconnect, QueueTypeOK, ProcessTypeOK, SendingTypeOK,
     LedgerTypeOK, Grip, FlusherLabels, ScannerLabels, Resting
<1>24. CASE UNCHANGED vars
  BY <1>24 DEF vars, QueueTypeOK, ProcessTypeOK, SendingTypeOK,
     LedgerTypeOK, Grip, FlusherLabels, ScannerLabels, Resting
<1> QED
  BY <1>1, <1>2, <1>3, <1>4, <1>5, <1>6, <1>7, <1>8, <1>9, <1>10, <1>11,
     <1>12, <1>13, <1>14, <1>15, <1>16, <1>17, <1>18, <1>19, <1>20, <1>21, <1>22, <1>23, <1>24
  DEF Next, Collect, Transmit, Flush, Respond, Environment

-----------------------------------------------------------------------------
LEMMA HandNat ==
  ASSUME TypeOK
  PROVE  /\ hand \in [Senders -> Nat]
         /\ scans \in Nat
<1>1. Payloads \union {NoPayload} \subseteq Nat
  BY Kinds
<1>2. hand \in [Senders -> Payloads \union {NoPayload}]
  BY DEF TypeOK, SendingTypeOK
<1>3. scans \in Nat
  BY Kinds DEF TypeOK, LedgerTypeOK
<1> QED
  BY <1>1, <1>2, <1>3

LEMMA BooksInit == Init => Books
BY Kinds DEF Init, QueueInit, Books, Known, RowsDistinct, OneKeeper

LEMMA BooksStep ==
  ASSUME Shape, Books, SnapshotInOrder, [Next]_vars
  PROVE  Books'
<1> USE Kinds, RowParts, HandNat
    DEF Shape, TypeOK, Books, Known, RowsDistinct, OneKeeper,
        Goto, LetGo, HangUp, store, config, pass, signals, backend
<1>1. CASE UNCHANGED <<rows, lastId, hand, scans, late, accepted>>
  BY <1>1
<1>2. ASSUME NEW s \in Scanners, CollectOk(s) PROVE Books'
  <2>1. scans' = scans + 1
    BY <1>2 DEF CollectOk
  <2>2. \A t \in Senders : hand'[t] = hand[t] \/ (t = s /\ hand'[t] = scans + 1)
    BY <1>2 DEF CollectOk
  <2>3. UNCHANGED <<rows, lastId, late, accepted>>
    BY <1>2 DEF CollectOk
  <2>4. Known'
    <3>1. \A t \in Senders : hand[t] \in Nat
      OBVIOUS
    <3>2. \A p \in late \union accepted : p \in Nat
      BY DEF LedgerTypeOK
    <3>3. \A t \in Senders : hand'[t] <= scans'
      BY <2>1, <2>2, <3>1
    <3>4. \A r \in rows' : r.payload <= scans'
      <4>1. \A r \in rows : r.payload \in Nat
        OBVIOUS
      <4> QED
        BY <2>1, <2>3, <4>1
    <3>5. \A p \in (late \union accepted)' : p <= scans'
      BY <2>1, <2>3, <3>2
    <3> QED
      BY <3>3, <3>4, <3>5
  <2>5. OneKeeper'
    BY <2>1, <2>2, <2>3
  <2> QED
    BY <2>3, <2>4, <2>5
<1>3. ASSUME NEW s \in Scanners, CacheOffline(s) PROVE Books'
  <2>1. hand[s] \in Payloads
    BY <1>3, Holding DEF CacheOffline
  <2>2. \A t \in Senders : hand'[t] = IF t = s THEN NoPayload ELSE hand[t]
    BY <1>3 DEF CacheOffline, SendingTypeOK
  <2>3. UNCHANGED <<scans, late, accepted>>
    BY <1>3 DEF CacheOffline
  <2>4. CASE UNCHANGED store
    BY <2>1, <2>2, <2>3, <2>4 DEF LedgerTypeOK, SendingTypeOK
  <2>5. CASE Enqueue(hand[s])
    <3> DEFINE new == [id |-> lastId + 1, payload |-> hand[s]]
    <3>1. lastId \in Nat /\ lastId' = lastId + 1 /\ rows' = rows \union {new}
      BY <2>5 DEF Enqueue, QueueTypeOK
    <3>2. new.id = lastId + 1 /\ new.payload = hand[s]
      OBVIOUS
    <3> HIDE DEF new
    <3>3. Known'
      BY <2>1, <2>2, <2>3, <3>1, <3>2 DEF LedgerTypeOK, SendingTypeOK
    <3>4. RowsDistinct'
      BY <3>1, <3>2
    <3>5. OneKeeper'
      BY <2>1, <2>2, <3>1, <3>2
    <3> QED
      BY <3>3, <3>4, <3>5
  <2> QED
    BY <1>3, <2>4, <2>5 DEF CacheOffline
<1>4. ASSUME NEW s \in Senders, Transmitted(s) \/ DoFails(s) PROVE Books'
  <2>1. \A t \in Senders : hand'[t] = hand[t] \/ hand'[t] = NoPayload
    BY <1>4 DEF Transmitted, DoFails, SendingTypeOK
  <2>2. \A t \in Senders : hand[t] \in Nat
    OBVIOUS
  <2>3. late' \subseteq late \union {hand[s]}
    BY <1>4 DEF Transmitted, DoFails
  <2>4. UNCHANGED <<rows, lastId, scans, accepted>>
    BY <1>4 DEF Transmitted, DoFails
  <2> QED
    BY <2>1, <2>2, <2>3, <2>4 DEF LedgerTypeOK
<1>5. CASE FlushSelect
  <2>1. PICK r \in todo : hand' = [hand EXCEPT ![Flusher] = r.payload]
    BY <1>5 DEF FlushSelect
  <2>2. r \in rows
    BY DEF SnapshotInOrder
  <2>3. \A t \in Senders : hand'[t] = IF t = Flusher THEN r.payload ELSE hand[t]
    BY <2>1
  <2>4. UNCHANGED <<rows, lastId, scans, late, accepted>>
    BY <1>5 DEF FlushSelect
  <2> QED
    BY <2>2, <2>3, <2>4
<1>6. CASE FlushOk \/ FlushBreak
  <2>1. \A t \in Senders : hand'[t] = hand[t] \/ hand'[t] = NoPayload
    BY <1>6 DEF FlushOk, FlushBreak
  <2>2. UNCHANGED <<rows, lastId, scans, late, accepted>>
    BY <1>6 DEF FlushOk, FlushBreak
  <2> QED
    BY <2>1, <2>2
<1>7. CASE FlushDelete
  BY <1>7 DEF FlushDelete, Delete
<1>8. CASE Exit \/ Crash
  <2>1. Travelling \subseteq {hand[s] : s \in Senders}
    BY DEF Travelling
  <2>2. \A t \in Senders : hand'[t] = NoPayload
    BY <1>8 DEF Exit, Crash, Halt
  <2>3. UNCHANGED <<rows, lastId, scans, accepted>> /\ late' \subseteq late \union Travelling
    BY <1>8 DEF Exit, Crash, Halt
  <2>4. \A p \in late' : p <= scans
    BY <2>1, <2>3
  <2> QED
    BY <2>2, <2>3, <2>4
<1>9. ASSUME NEW s \in Senders, Accept(s) PROVE Books'
  BY <1>9 DEF Accept, Receive
<1>10. ASSUME NEW p \in Payloads, LateArrival(p) PROVE Books'
  BY <1>10 DEF LateArrival, Receive
<1> QED
  BY <1>1, <1>2, <1>3, <1>4, <1>5, <1>6, <1>7, <1>8, <1>9, <1>10
  DEF Next, Collect, Transmit, Flush, Respond, Environment, vars, Start, Tick,
      ScanRequest, CollectFails, TransmitRefused, Post, Refuse, PollTick,
      FlusherStop, FlushQuery, FlushCancelled, FlushLoopDone, Signal, Shutdown,
      Flap, Disconnect

-----------------------------------------------------------------------------
LEMMA SnapshotInit == Init => SnapshotInOrder
BY Kinds DEF Init, QueueInit, SnapshotInOrder, Resting

LEMMA SnapshotStep ==
  ASSUME Shape, Books, SnapshotInOrder, [Next]_vars
  PROVE  SnapshotInOrder'
<1> USE Kinds, RowParts
    DEF Shape, TypeOK, Books, RowsDistinct, SnapshotInOrder, Goto, LetGo, HangUp,
        store, config, pass, signals, backend
<1>1. CASE /\ UNCHANGED <<rows, lastId, todo, flushed>>
           /\ pc'[Flusher] = pc[Flusher] /\ hand'[Flusher] = hand[Flusher]
  BY <1>1
<1>2. ASSUME NEW s \in Scanners, CacheOffline(s) PROVE SnapshotInOrder'
  <2>1. /\ UNCHANGED <<todo, flushed>>
        /\ pc'[Flusher] = pc[Flusher] /\ hand'[Flusher] = hand[Flusher]
    BY <1>2 DEF CacheOffline, ProcessTypeOK, SendingTypeOK
  <2>2. CASE UNCHANGED store
    BY <2>1, <2>2
  <2>3. CASE Enqueue(hand[s])
    <3> DEFINE new == [id |-> lastId + 1, payload |-> hand[s]]
    <3>1. lastId \in Nat /\ lastId' = lastId + 1 /\ rows' = rows \union {new}
      BY <2>3 DEF Enqueue, QueueTypeOK
    <3>2. new.id = lastId + 1
      OBVIOUS
    <3> HIDE DEF new
    <3>3. \A i \in flushed : i \in Nat
      BY DEF SendingTypeOK
    <3>4. \A q \in rows' \ todo' : q.id \notin flushed' =>
            (\A r \in todo' : r.id < q.id) /\ (\A i \in flushed' : i < q.id)
      BY <2>1, <3>1, <3>2, <3>3
    <3> QED
      BY <2>1, <3>1, <3>3, <3>4
  <2> QED
    BY <1>2, <2>2, <2>3 DEF CacheOffline
<1>3. CASE FlushQuery
  <2>1. CASE todo' = rows /\ flushed' = {} /\ pc'[Flusher] = "loop"
    BY <1>3, <2>1 DEF FlushQuery
  <2>2. CASE todo' = {} /\ flushed' = {} /\ pc'[Flusher] = "poll"
    BY <1>3, <2>2 DEF FlushQuery
  <2>3. CASE todo' \in DequeueBroken /\ flushed' = {} /\ pc'[Flusher] = "loop"
    <3>1. PICK q \in rows : todo' = {r \in rows : r.id < q.id}
      BY <2>3 DEF DequeueBroken
    <3>2. \A p \in rows \ todo', r \in todo' : r.id < p.id
      BY <3>1
    <3> QED
      BY <1>3, <2>3, <3>1, <3>2 DEF FlushQuery
  <2> QED
    BY <1>3, <2>1, <2>2, <2>3 DEF FlushQuery, EndPass, DequeueAll, ProcessTypeOK
<1>4. CASE FlushCancelled \/ FlushDelete \/ Exit \/ Crash
  <2>1. todo' = {} /\ flushed' = {} /\ pc'[Flusher] \in {"poll", "off"}
    BY <1>4 DEF FlushCancelled, FlushDelete, Exit, Crash, Halt, EndPass, Resting, ProcessTypeOK
  <2> QED
    BY <2>1
<1>5. CASE FlushSelect
  <2>1. PICK r \in todo : IsOldest(r, todo) /\ hand' = [hand EXCEPT ![Flusher] = r.payload]
    BY <1>5 DEF FlushSelect
  <2>2. hand'[Flusher] = r.payload /\ pc'[Flusher] = "post"
    BY <1>5, <2>1 DEF FlushSelect, ProcessTypeOK, SendingTypeOK
  <2> QED
    BY <1>5, <2>1, <2>2 DEF FlushSelect
<1>6. CASE FlushOk
  <2>1. PICK r \in todo : /\ IsOldest(r, todo)
                         /\ todo' = todo \ {r} /\ flushed' = flushed \union {r.id}
    BY <1>6 DEF FlushOk
  <2>2. UNCHANGED <<rows, lastId>> /\ pc'[Flusher] = "loop"
    BY <1>6 DEF FlushOk, ProcessTypeOK
  <2>3. \A q \in todo \ {r} : r.id < q.id
    BY <2>1 DEF IsOldest
  <2>4. \A q \in rows' \ todo' : q.id \notin flushed' =>
          (\A t \in todo' : t.id < q.id) /\ (\A i \in flushed' : i < q.id)
    BY <2>1, <2>2
  <2>5. \A i \in flushed', q \in todo' : i < q.id
    BY <2>1, <2>3
  <2> QED
    BY <2>1, <2>2, <2>4, <2>5
<1>7. CASE PollTick \/ FlusherStop \/ FlushLoopDone \/ FlushBreak
  <2>1. UNCHANGED <<rows, lastId, todo, flushed>>
    BY <1>7 DEF PollTick, FlusherStop, FlushLoopDone, FlushBreak
  <2>2. pc'[Flusher] \in {"query", "off", "delete"}
    BY <1>7 DEF PollTick, FlusherStop, FlushLoopDone, FlushBreak, ProcessTypeOK
  <2>3. pc'[Flusher] # "delete" => todo = {} /\ flushed = {}
    BY <1>7 DEF PollTick, FlusherStop, FlushLoopDone, FlushBreak, ProcessTypeOK
  <2> QED
    BY <2>1, <2>2, <2>3
<1>8. CASE Post(Flusher) \/ DoFails(Flusher)
  <2>1. UNCHANGED <<rows, lastId, todo, flushed>>
    BY <1>8 DEF Post, DoFails
  <2>2. CASE Post(Flusher)
    BY <2>1, <2>2 DEF Post, ProcessTypeOK
  <2>3. CASE DoFails(Flusher)
    BY <2>1, <2>3 DEF DoFails, ProcessTypeOK
  <2> QED
    BY <1>8, <2>2, <2>3
<1>9. ASSUME NEW s \in Scanners, Post(s) \/ DoFails(s) PROVE SnapshotInOrder'
  BY <1>9, <1>1 DEF Post, DoFails, ProcessTypeOK, SendingTypeOK
<1>10. ASSUME NEW m \in Modes, NEW c \in BOOLEAN, NEW q \in BOOLEAN, Start(m, c, q)
       PROVE  SnapshotInOrder'
  <2>1. pc[Flusher] = "off" /\ pc'[Flusher] \in {"off", "poll"}
    BY <1>10 DEF Start, Grip, Resting
  <2> QED
    BY <1>10, <2>1 DEF Start
<1>11. ASSUME NEW s \in Scanners,
              CollectOk(s) \/ CollectFails(s) \/ Transmitted(s) \/ TransmitRefused(s)
       PROVE  SnapshotInOrder'
  BY <1>11, <1>1 DEF CollectOk, CollectFails, Transmitted, TransmitRefused,
                     ProcessTypeOK, SendingTypeOK
<1>12. CASE Tick \/ Shutdown \/ \E h \in Handlers : ScanRequest(h)
  BY <1>12, <1>1 DEF Tick, Shutdown, ScanRequest, ProcessTypeOK
<1>13. CASE UNCHANGED <<rows, lastId, todo, flushed, pc, hand>>
  BY <1>13, <1>1
<1> QED
  <2>1. ASSUME NEW s \in Senders, Accept(s) \/ Refuse(s) PROVE SnapshotInOrder'
    BY <2>1, <1>13 DEF Accept, Refuse
  <2>2. CASE Signal \/ Flap \/ UNCHANGED vars
    BY <2>2, <1>13 DEF Signal, Flap, vars
  <2>3. CASE \/ \E p \in Payloads : LateArrival(p)
             \/ \E h \in Handlers : Disconnect(h)
    BY <2>3, <1>13 DEF LateArrival, Disconnect
  <2> QED
    BY <1>2, <1>3, <1>4, <1>5, <1>6, <1>7, <1>8, <1>9, <1>10, <1>11, <1>12,
       <2>1, <2>2, <2>3
    DEF Next, Collect, Transmit, Flush, Respond, Environment, Senders

-----------------------------------------------------------------------------
LEMMA AnswersInit == Init => AnswersTrue /\ KnownOrDoubted /\ NoSilentLoss
BY Kinds DEF Init, QueueInit, AnswersTrue, KnownOrDoubted, NoSilentLoss, RepeatsOnlyInDoubt

\* The flusher's request carries the payload of the oldest row of the snapshot,
\* which is in the table and not yet flushed.
LEMMA FlusherCarries ==
  ASSUME Shape, Books, SnapshotInOrder, pc[Flusher] \in {"post", "wait"},
         NEW r \in todo, IsOldest(r, todo)
  PROVE  r \in rows /\ r.id \notin flushed /\ hand[Flusher] = r.payload
<1>1. PICK q \in todo : IsOldest(q, todo) /\ hand[Flusher] = q.payload
  BY DEF SnapshotInOrder
<1>2. \A t \in todo : t.id \in Nat
  BY RowParts DEF Shape
<1>3. q.id = r.id
  BY <1>1, <1>2 DEF IsOldest
<1>4. q = r
  BY <1>1, <1>3 DEF SnapshotInOrder, Books, RowsDistinct
<1> QED
  BY <1>1, <1>2, <1>4 DEF SnapshotInOrder

LEMMA AnswersStep ==
  ASSUME Shape, Books, SnapshotInOrder, AnswersTrue, [Next]_vars
  PROVE  AnswersTrue'
<1> USE Kinds, RowParts
    DEF Shape, TypeOK, AnswersTrue, Goto, LetGo, HangUp, EndPass,
        store, config, pass, signals, backend
<1>1. CASE UNCHANGED <<rows, flushed, wire, hand>> /\ accepted \subseteq accepted'
  BY <1>1
<1>2. ASSUME NEW s \in Scanners, CollectOk(s) PROVE AnswersTrue'
  <2>1. wire[s] # "ok"
    BY <1>2 DEF CollectOk, Grip
  <2>2. \A t \in Senders : hand'[t] = hand[t] \/ t = s
    BY <1>2 DEF CollectOk, SendingTypeOK
  <2> QED
    BY <1>2, <2>1, <2>2 DEF CollectOk
<1>3. ASSUME NEW s \in Scanners, Transmitted(s) \/ TransmitRefused(s) PROVE AnswersTrue'
  BY <1>3 DEF Transmitted, TransmitRefused, SendingTypeOK
<1>4. ASSUME NEW s \in Scanners, CacheOffline(s) PROVE AnswersTrue'
  <2>1. wire[s] # "ok"
    BY <1>4 DEF CacheOffline, Grip
  <2>2. \A t \in Senders : hand'[t] = hand[t] \/ t = s
    BY <1>4 DEF CacheOffline, SendingTypeOK
  <2>3. UNCHANGED <<flushed, wire, accepted>>
    BY <1>4 DEF CacheOffline
  <2>4. \A r \in rows' : r \in rows \/ r.id = lastId + 1
    BY <1>4 DEF CacheOffline, Enqueue
  <2>5. lastId + 1 \notin flushed
    BY DEF SnapshotInOrder, QueueTypeOK, SendingTypeOK
  <2> QED
    BY <2>1, <2>2, <2>3, <2>4, <2>5
<1>5. ASSUME NEW s \in Senders, Post(s) \/ Refuse(s) PROVE AnswersTrue'
  BY <1>5 DEF Post, Refuse, SendingTypeOK
<1>6. ASSUME NEW s \in Senders, DoFails(s) PROVE AnswersTrue'
  BY <1>6 DEF DoFails, SendingTypeOK
<1>7. ASSUME NEW s \in Senders, Accept(s) PROVE AnswersTrue'
  BY <1>7 DEF Accept, Receive, SendingTypeOK
<1>8. CASE FlushQuery \/ FlushCancelled \/ FlushDelete
  <2>1. UNCHANGED <<wire, hand, accepted>> /\ flushed' = {}
    BY <1>8 DEF FlushQuery, FlushCancelled, FlushDelete
  <2> QED
    BY <2>1
<1>9. CASE FlushSelect
  <2>1. wire[Flusher] # "ok"
    BY <1>9 DEF FlushSelect, Grip
  <2>2. \A t \in Senders : hand'[t] = hand[t] \/ t = Flusher
    BY <1>9 DEF FlushSelect, SendingTypeOK
  <2> QED
    BY <1>9, <2>1, <2>2 DEF FlushSelect
<1>10. CASE FlushOk
  <2>1. PICK r \in todo : IsOldest(r, todo) /\ flushed' = flushed \union {r.id}
    BY <1>10 DEF FlushOk
  <2>2. r \in rows /\ r.payload \in accepted
    BY <1>10, <2>1, FlusherCarries DEF FlushOk
  <2>3. \A q \in rows : q.id = r.id => q = r
    BY <2>2 DEF Books, RowsDistinct
  <2>4. \A t \in Senders : t # Flusher => hand'[t] = hand[t] /\ wire'[t] = wire[t]
    BY <1>10 DEF FlushOk, SendingTypeOK
  <2>5. wire'[Flusher] = "none" /\ UNCHANGED <<rows, accepted>>
    BY <1>10 DEF FlushOk, SendingTypeOK
  <2> QED
    BY <2>1, <2>2, <2>3, <2>4, <2>5
<1>11. CASE FlushBreak
  BY <1>11 DEF FlushBreak, SendingTypeOK
<1>12. CASE Exit \/ Crash
  BY <1>12 DEF Exit, Crash, Halt
<1>13. ASSUME NEW p \in Payloads, LateArrival(p) PROVE AnswersTrue'
  BY <1>13, <1>1 DEF LateArrival, Receive
<1> QED
  BY <1>1, <1>2, <1>3, <1>4, <1>5, <1>6, <1>7, <1>8, <1>9, <1>10, <1>11, <1>12, <1>13
  DEF Next, Collect, Transmit, Flush, Respond, Environment, vars, Start, Tick,
      ScanRequest, CollectFails, PollTick, FlusherStop, FlushLoopDone, Signal,
      Shutdown, Flap, Disconnect

\* An arriving request that is a repeat is one the agent is in doubt about.
LEMMA ArrivalInDoubt ==
  ASSUME Shape, Books, SnapshotInOrder, KnownOrDoubted,
         NEW s \in Senders, wire[s] = "sent", hand[s] \in accepted
  PROVE  hand[s] \in doubt
<1>1. CASE s \in Scanners
  BY <1>1 DEF KnownOrDoubted
<1>2. CASE s = Flusher
  <2>1. pc[Flusher] = "wait"
    BY <1>2 DEF Shape, Grip
  <2>2. PICK r \in todo : IsOldest(r, todo) /\ hand[Flusher] = r.payload
    BY <2>1 DEF SnapshotInOrder
  <2>3. r \in rows /\ r.id \notin flushed
    BY <2>1, <2>2, FlusherCarries
  <2> QED
    BY <1>2, <2>2, <2>3 DEF KnownOrDoubted
<1> QED
  BY <1>1, <1>2 DEF Senders

LEMMA DoubtStep ==
  ASSUME Shape, Books, SnapshotInOrder, AnswersTrue, KnownOrDoubted, [Next]_vars
  PROVE  KnownOrDoubted'
<1> USE Kinds, RowParts
    DEF Shape, TypeOK, KnownOrDoubted, RepeatsOnlyInDoubt, Goto, LetGo, HangUp, EndPass,
        store, config, pass, signals, backend
<1>1. CASE UNCHANGED <<rows, flushed, wire, hand, accepted, again, late, doubt>>
  BY <1>1
<1>2. ASSUME NEW s \in Scanners, CollectOk(s) PROVE KnownOrDoubted'
  <2>1. scans + 1 \notin accepted
    BY Fresh, HandNat DEF Books, Known
  <2>2. \A t \in Senders : hand'[t] = hand[t] \/ (t = s /\ hand'[t] = scans + 1)
    BY <1>2 DEF CollectOk, SendingTypeOK
  <2>3. hand'[Flusher] = hand[Flusher]
    BY <1>2 DEF CollectOk, SendingTypeOK
  <2> QED
    BY <1>2, <2>1, <2>2, <2>3 DEF CollectOk
<1>3. ASSUME NEW s \in Scanners, Transmitted(s) \/ TransmitRefused(s) PROVE KnownOrDoubted'
  <2>1. \A t \in Senders : t # s => hand'[t] = hand[t] /\ wire'[t] = wire[t]
    BY <1>3 DEF Transmitted, TransmitRefused, SendingTypeOK
  <2>2. NoPayload \notin accepted
    BY DEF LedgerTypeOK
  <2>3. hand'[s] = NoPayload \/ (hand'[s] = hand[s] /\ wire[s] = "refused")
    BY <1>3 DEF Transmitted, TransmitRefused, SendingTypeOK
  <2>4. UNCHANGED <<rows, flushed, accepted, again, late, doubt>>
    BY <1>3 DEF Transmitted, TransmitRefused
  <2> QED
    BY <2>1, <2>2, <2>3, <2>4
<1>4. ASSUME NEW s \in Scanners, CacheOffline(s) PROVE KnownOrDoubted'
  <2>1. wire[s] = "none" /\ hand'[s] = NoPayload
    BY <1>4 DEF CacheOffline, Grip, SendingTypeOK
  <2>2. \A t \in Senders : t # s => hand'[t] = hand[t]
    BY <1>4 DEF CacheOffline, SendingTypeOK
  <2>3. NoPayload \notin accepted
    BY DEF LedgerTypeOK
  <2>4. UNCHANGED <<flushed, wire, accepted, again, late, doubt>>
    BY <1>4 DEF CacheOffline
  <2>5. \A r \in rows' : r \in rows \/ r.payload = hand[s]
    BY <1>4 DEF CacheOffline, Enqueue
  <2> QED
    BY <2>1, <2>2, <2>3, <2>4, <2>5
<1>5. ASSUME NEW s \in Senders, Post(s) \/ Refuse(s) PROVE KnownOrDoubted'
  <2>1. wire[s] # "ok"
    BY <1>5 DEF Post, Refuse, Grip
  <2>2. \A t \in Senders : t # s => wire'[t] = wire[t]
    BY <1>5 DEF Post, Refuse, SendingTypeOK
  <2>3. UNCHANGED <<rows, hand, flushed, accepted, again, late, doubt>>
    BY <1>5 DEF Post, Refuse
  <2> QED
    BY <2>1, <2>2, <2>3
<1>6. ASSUME NEW s \in Senders, DoFails(s) PROVE KnownOrDoubted'
  <2>1. wire[s] # "none" => hand[s] \in doubt'
    BY <1>6 DEF DoFails, Grip
  <2>2. \A t \in Senders : t # s => hand'[t] = hand[t] /\ wire'[t] = wire[t]
    BY <1>6 DEF DoFails, SendingTypeOK
  <2>3. late' \subseteq late \union doubt' /\ doubt \subseteq doubt'
    BY <1>6, <2>1 DEF DoFails
  <2>4. UNCHANGED <<rows, flushed, accepted, again>>
    BY <1>6 DEF DoFails
  <2>5. wire'[s] = "none" /\ (s \in Scanners => hand'[s] = hand[s])
    BY <1>6 DEF DoFails, SendingTypeOK
  <2> QED
    BY <2>1, <2>2, <2>3, <2>4, <2>5
<1>7. ASSUME NEW s \in Senders, Accept(s) PROVE KnownOrDoubted'
  <2>1. hand[s] \in accepted => hand[s] \in doubt
    BY <1>7, ArrivalInDoubt DEF Accept
  <2>2. accepted' = accepted \union {hand[s]} /\ again' \subseteq again \union doubt
    BY <1>7, <2>1 DEF Accept, Receive
  <2>3. UNCHANGED <<rows, hand, flushed, late, doubt>>
    BY <1>7 DEF Accept
  <2>4. wire'[s] = "ok" /\ \A t \in Senders : t # s => wire'[t] = wire[t]
    BY <1>7 DEF Accept, SendingTypeOK
  <2>5. hand[s] # NoPayload
    BY <1>7 DEF Accept, Grip
  <2>6. CASE s = Flusher
    <3>1. pc[Flusher] = "wait"
      BY <1>7, <2>6 DEF Accept, Grip
    <3>2. PICK r \in rows : hand[s] = r.payload
      BY <2>6, <3>1 DEF SnapshotInOrder
    <3> QED
      BY <2>2, <2>3, <2>4, <2>6, <3>2 DEF Books, OneKeeper
  <2>7. CASE s \in Scanners
    <3>1. \A t \in Scanners : t # s => hand[t] # hand[s]
      BY <2>5, <2>7 DEF Books, OneKeeper
    <3>2. \A r \in rows : r.payload # hand[s]
      BY <2>7 DEF Books, OneKeeper
    <3> QED
      BY <2>2, <2>3, <2>4, <2>7, <3>1, <3>2
  <2> QED
    BY <2>6, <2>7 DEF Senders
<1>8. CASE FlushQuery
  <2>1. flushed = {} /\ flushed' = {}
    BY <1>8 DEF FlushQuery, SnapshotInOrder
  <2> QED
    BY <1>8, <2>1 DEF FlushQuery
<1>9. CASE FlushCancelled
  <2>1. \A r \in rows : r.id \in flushed => r.payload \in doubt'
    BY <1>9 DEF FlushCancelled, FlushedPayloads, PayloadsOf
  <2>2. UNCHANGED <<rows, hand, wire, accepted, again, late>> /\ doubt \subseteq doubt'
    BY <1>9 DEF FlushCancelled
  <2> QED
    BY <2>1, <2>2
<1>10. CASE FlushSelect
  <2>1. wire[Flusher] = "none"
    BY <1>10 DEF FlushSelect, Grip
  <2>2. \A s \in Scanners : hand'[s] = hand[s]
    BY <1>10 DEF FlushSelect, SendingTypeOK
  <2> QED
    BY <1>10, <2>1, <2>2 DEF FlushSelect
<1>11. CASE FlushOk
  <2>1. PICK r \in todo : IsOldest(r, todo) /\ flushed' = flushed \union {r.id}
    BY <1>11 DEF FlushOk
  <2>2. r \in rows /\ hand[Flusher] = r.payload
    BY <1>11, <2>1, FlusherCarries DEF FlushOk
  <2>3. \A q \in rows : q.payload = r.payload => q = r
    BY <2>2 DEF Books, RowsDistinct
  <2>4. \A s \in Scanners : hand'[s] = hand[s] /\ wire'[s] = wire[s]
    BY <1>11 DEF FlushOk, SendingTypeOK
  <2>5. UNCHANGED <<rows, accepted, again, late, doubt>>
    BY <1>11 DEF FlushOk
  <2> QED
    BY <2>1, <2>2, <2>3, <2>4, <2>5
<1>12. CASE FlushBreak
  <2>1. \A s \in Scanners : hand'[s] = hand[s] /\ wire'[s] = wire[s]
    BY <1>12 DEF FlushBreak, SendingTypeOK
  <2> QED
    BY <1>12, <2>1 DEF FlushBreak
<1>13. CASE FlushDelete
  <2>1. wire[Flusher] = "none"
    BY <1>13 DEF FlushDelete, Grip
  <2>2. UNCHANGED <<hand, wire, accepted, again, late>> /\ doubt \subseteq doubt'
    BY <1>13 DEF FlushDelete
  <2>3. \A r \in rows' : r \in rows /\ (r.id \in flushed => r.payload \in doubt')
    BY <1>13 DEF FlushDelete, Delete, FlushedPayloads, PayloadsOf
  <2> QED
    BY <2>1, <2>2, <2>3
<1>14. CASE Exit \/ Crash
  <2>1. doubt' = doubt \union InDoubt /\ late' \subseteq late \union Travelling
    BY <1>14 DEF Exit, Crash, Halt
  <2>2. \A s \in Senders : wire[s] # "none" => hand[s] \in InDoubt
    BY DEF InDoubt, Grip
  <2>3. \A r \in rows : r.id \in flushed => r.payload \in InDoubt
    BY DEF InDoubt, FlushedPayloads, PayloadsOf
  <2>4. Travelling \subseteq InDoubt
    BY <2>2 DEF Travelling
  <2>5. \A s \in Senders : hand'[s] = NoPayload
    BY <1>14 DEF Exit, Crash, Halt
  <2>6. NoPayload \notin accepted
    BY DEF LedgerTypeOK
  <2>7. UNCHANGED <<rows, accepted, again>>
    BY <1>14 DEF Exit, Crash, Halt
  <2> QED
    BY <2>1, <2>2, <2>3, <2>4, <2>5, <2>6, <2>7
<1>15. ASSUME NEW p \in Payloads, LateArrival(p) PROVE KnownOrDoubted'
  BY <1>15 DEF LateArrival, Receive
<1> QED
  BY <1>1, <1>2, <1>3, <1>4, <1>5, <1>6, <1>7, <1>8, <1>9, <1>10, <1>11, <1>12,
     <1>13, <1>14, <1>15
  DEF Next, Collect, Transmit, Flush, Respond, Environment, vars, Start, Tick,
      ScanRequest, CollectFails, PollTick, FlusherStop, FlushLoopDone, Signal,
      Shutdown, Flap, Disconnect

-----------------------------------------------------------------------------
(* The refinement of Outbox.                                               *)

\* What the proof of a step needs of the invariant.
Sound == Shape /\ Books /\ SnapshotInOrder /\ AnswersTrue /\ KnownOrDoubted

LEMMA InCustody ==
  ASSUME NEW p
  PROVE  p \in Custody <=> \/ \E s \in Scanners : hand[s] = p /\ p # NoPayload
                           \/ \E r \in rows : r.payload = p
BY DEF Custody, Held, PayloadsOf

LEMMA InCustodyNext ==
  ASSUME NEW p
  PROVE  p \in Custody' <=> \/ \E s \in Scanners : hand'[s] = p /\ p # NoPayload
                            \/ \E r \in rows' : r.payload = p
BY DEF Custody, Held, PayloadsOf

\* Where no payload changes hands, the outbox does not notice.
LEMMA Stutter ==
  ASSUME UNCHANGED <<rows, scans, accepted, lost>>,
         \A s \in Scanners : hand'[s] = hand[s]
  PROVE  UNCHANGED Promise!vars
<1>1. Custody' = Custody
  BY InCustody, InCustodyNext
<1> QED
  BY <1>1 DEF Promise!vars

LEMMA CollectKeepsPromise ==
  ASSUME Sound, NEW s \in Scanners, CollectOk(s)
  PROVE  Promise!Next
<1> USE Kinds DEF Sound, Shape, TypeOK
<1>1. scans \in Nat /\ scans' = scans + 1 /\ scans + 1 \in Payloads
  BY HandNat, Fresh DEF CollectOk, LedgerTypeOK
<1>2. scans + 1 \notin 1 .. scans /\ 1 .. scans' = 1 .. scans \union {scans + 1}
  BY <1>1
<1>3. hand[s] = NoPayload /\ UNCHANGED <<rows, accepted>>
  BY DEF CollectOk, Grip, store, backend
<1>4. CASE client
  <2>1. \A t \in Senders : hand'[t] = IF t = s THEN scans + 1 ELSE hand[t]
    BY <1>4 DEF CollectOk, SendingTypeOK
  <2>2. scans + 1 # NoPayload
    BY <1>1
  <2>3. Custody' = Custody \union {scans + 1}
    <3>1. \A p : p \in Custody' <=> p \in Custody \/ p = scans + 1
      BY <1>3, <2>1, <2>2, InCustody, InCustodyNext
    <3> QED
      BY <3>1
  <2>4. Promise!Produce(scans + 1)
    BY <1>2, <1>3, <1>4, <2>3 DEF CollectOk, Promise!Produce
  <2> QED
    BY <1>1, <2>4 DEF Promise!Next
<1>5. CASE ~client
  <2>1. Custody' = Custody
    BY <1>3, <1>5, InCustody, InCustodyNext DEF CollectOk
  <2>2. Promise!Reject(scans + 1)
    BY <1>2, <1>3, <1>5, <2>1 DEF CollectOk, Promise!Reject
  <2> QED
    BY <1>1, <2>2 DEF Promise!Next
<1> QED
  BY <1>4, <1>5

\* A scanner puts its payload down: the payload is acknowledged, cached, or lost.
LEMMA HandOver ==
  ASSUME Sound, NEW s \in Scanners, hand[s] \in Payloads,
         hand' = [hand EXCEPT ![s] = NoPayload]
  PROVE  /\ UNCHANGED rows => Custody' = Custody \ {hand[s]}
         /\ Enqueue(hand[s]) => Custody' = Custody
         /\ hand[s] \in Custody
<1> USE Kinds DEF Sound, Shape, TypeOK
<1>1. \A t \in Senders : hand'[t] = IF t = s THEN NoPayload ELSE hand[t]
  BY DEF SendingTypeOK
<1>2. \A t \in Scanners : t # s => hand[t] # hand[s]
  BY DEF Books, OneKeeper
<1>3. \A r \in rows : r.payload # hand[s]
  BY DEF Books, OneKeeper
<1>4. hand[s] # NoPayload
  OBVIOUS
<1>5. ASSUME UNCHANGED rows PROVE Custody' = Custody \ {hand[s]}
  <2>1. \A p : p \in Custody' <=> p \in Custody /\ p # hand[s]
    BY <1>1, <1>2, <1>3, <1>4, <1>5, InCustody, InCustodyNext
  <2> QED
    BY <2>1
<1>6. ASSUME Enqueue(hand[s]) PROVE Custody' = Custody
  <2> DEFINE new == [id |-> lastId + 1, payload |-> hand[s]]
  <2>1. rows' = rows \union {new} /\ new.payload = hand[s]
    BY <1>6 DEF Enqueue
  <2> HIDE DEF new
  <2>2. \A p : p \in Custody' <=> p \in Custody
    BY <1>1, <1>4, <2>1, InCustody, InCustodyNext
  <2> QED
    BY <2>2 DEF Custody
<1> QED
  BY <1>4, <1>5, <1>6, InCustody

LEMMA DeleteKeepsPromise ==
  ASSUME Sound, Delete(flushed), UNCHANGED <<hand, scans, accepted, lost>>
  PROVE  Promise!Next
<1> USE DEF Sound, Shape, TypeOK
<1> DEFINE S == FlushedPayloads
<1>1. S \subseteq accepted /\ S \subseteq Custody
  BY InCustody DEF FlushedPayloads, PayloadsOf, AnswersTrue
<1>2. \A r \in rows : r.payload \in S <=> r.id \in flushed
  BY DEF FlushedPayloads, PayloadsOf, Books, RowsDistinct
<1>3. \A s \in Scanners : hand[s] \notin S
  BY DEF FlushedPayloads, PayloadsOf, Books, OneKeeper
<1>4. \A r : r \in rows' <=> r \in rows /\ r.id \notin flushed
  BY DEF Delete
<1>5. Custody' = Custody \ S
  <2> HIDE DEF S
  <2>1. \A p : p \in Custody' <=> p \in Custody /\ p \notin S
    BY <1>2, <1>3, <1>4, InCustody, InCustodyNext
  <2> QED
    BY <2>1
<1>6. S \in SUBSET Payloads
  BY SetsOfPayloads
<1>7. Promise!Forget(S)
  BY <1>1, <1>5 DEF Promise!Forget
<1> QED
  BY <1>6, <1>7 DEF Promise!Next

\* main only returns once no scanner holds anything; a kill loses what they hold.
LEMMA EndKeepsPromise ==
  ASSUME Sound, Exit \/ Crash
  PROVE  [Promise!Next]_Promise!vars
<1> USE Kinds DEF Sound, Shape, TypeOK
<1>1. \A s \in Senders : hand'[s] = NoPayload
  BY DEF Exit, Crash, Halt
<1>2. UNCHANGED <<rows, scans, accepted>>
  BY DEF Exit, Crash, Halt, store
<1>3. CASE Exit
  <2>1. \A s \in Scanners : pc[s] \in {"idle", "drain"}
    BY <1>3 DEF Exit, MainReturns, Grip, Scanners
  <2>2. \A s \in Scanners : hand[s] = NoPayload
    BY <2>1 DEF Grip
  <2> QED
    BY <1>1, <1>2, <1>3, <2>2, Stutter DEF Exit
<1>4. CASE Crash
  <2> DEFINE S == Held(Scanners)
  <2>1. \A p : p \in S <=> \E s \in Scanners : hand[s] = p /\ p # NoPayload
    BY DEF Held
  <2>2. \A r \in rows : r.payload \notin S
    BY <2>1 DEF Books, OneKeeper
  <2>3. lost' = lost \union S
    BY <1>4 DEF Crash
  <2>4. S \in SUBSET Payloads
    BY SetsOfPayloads
  <2> HIDE DEF S
  <2>5. Custody' = Custody \ S /\ S \subseteq Custody
    <3>1. \A p : p \in Custody' <=> p \in Custody /\ p \notin S
      BY <1>1, <1>2, <2>1, <2>2, InCustody, InCustodyNext
    <3>2. S \subseteq Custody
      BY <2>1, InCustody
    <3> QED
      BY <3>1, <3>2
  <2>6. Promise!Lose(S)
    BY <1>2, <2>3, <2>5 DEF Promise!Lose
  <2> QED
    BY <2>4, <2>6 DEF Promise!Next
<1> QED
  BY <1>3, <1>4

LEMMA StepKeepsPromise ==
  ASSUME Sound, [Next]_vars
  PROVE  [Promise!Next]_Promise!vars
<1> USE Kinds DEF Sound, Shape, TypeOK, Goto, LetGo, HangUp, EndPass, store, backend
<1>1. ASSUME NEW s \in Scanners, CollectOk(s) PROVE Promise!Next
  BY <1>1, CollectKeepsPromise
<1>2. ASSUME NEW s \in Scanners, Transmitted(s) PROVE Promise!Next
  <2>1. hand[s] \in Payloads /\ hand[s] \in accepted
    BY <1>2, Holding DEF Transmitted, AnswersTrue
  <2>2. Promise!Forget({hand[s]})
    BY <1>2, <2>1, HandOver DEF Transmitted, Promise!Forget
  <2> QED
    BY <2>1, <2>2 DEF Promise!Next
<1>3. ASSUME NEW s \in Scanners, CacheOffline(s) PROVE [Promise!Next]_Promise!vars
  <2>1. hand[s] \in Payloads /\ hand' = [hand EXCEPT ![s] = NoPayload]
    BY <1>3, Holding DEF CacheOffline
  <2>2. UNCHANGED <<scans, accepted>>
    BY <1>3 DEF CacheOffline
  <2>3. CASE Enqueue(hand[s]) /\ UNCHANGED lost
    BY <2>1, <2>2, <2>3, HandOver DEF Promise!vars
  <2>4. CASE UNCHANGED store /\ lost' = lost \union {hand[s]}
    <3>1. Promise!Lose({hand[s]})
      BY <2>1, <2>2, <2>4, HandOver DEF Promise!Lose
    <3> QED
      BY <2>1, <3>1 DEF Promise!Next
  <2> QED
    BY <1>3, <2>3, <2>4 DEF CacheOffline
<1>4. ASSUME NEW s \in Senders, Accept(s) PROVE Promise!Next
  <2>1. hand[s] \in Payloads
    BY <1>4, Holding DEF Accept, Grip
  <2>2. hand[s] \in 1 .. scans
    BY <2>1, HandNat DEF Books, Known
  <2>3. Custody' = Custody
    BY <1>4, InCustody, InCustodyNext DEF Accept
  <2>4. Promise!Deliver(hand[s])
    BY <1>4, <2>2, <2>3 DEF Accept, Receive, Promise!Deliver
  <2> QED
    BY <2>1, <2>4 DEF Promise!Next
<1>5. ASSUME NEW p \in Payloads, LateArrival(p) PROVE Promise!Next
  <2>1. p \in 1 .. scans
    BY <1>5, HandNat DEF LateArrival, Books, Known
  <2>2. Custody' = Custody
    BY <1>5, InCustody, InCustodyNext DEF LateArrival
  <2>3. Promise!Deliver(p)
    BY <1>5, <2>1, <2>2 DEF LateArrival, Receive, Promise!Deliver
  <2> QED
    BY <2>3 DEF Promise!Next
<1>6. CASE FlushDelete
  <2>1. UNCHANGED <<hand, scans, accepted, lost>>
    BY <1>6 DEF FlushDelete
  <2>2. CASE Delete(flushed)
    BY <2>1, <2>2, DeleteKeepsPromise
  <2>3. CASE UNCHANGED store
    BY <2>1, <2>3, Stutter
  <2> QED
    BY <1>6, <2>2, <2>3 DEF FlushDelete
<1>7. CASE Exit \/ Crash
  BY <1>7, EndKeepsPromise
<1>8. CASE FlushSelect \/ FlushOk \/ FlushBreak
  BY <1>8, Stutter DEF FlushSelect, FlushOk, FlushBreak, SendingTypeOK
<1>9. ASSUME NEW s \in Senders, DoFails(s) PROVE UNCHANGED Promise!vars
  BY <1>9, Stutter DEF DoFails, SendingTypeOK
<1>10. CASE UNCHANGED <<rows, hand, scans, accepted, lost>>
  BY <1>10, Stutter
<1> QED
  BY <1>1, <1>2, <1>3, <1>4, <1>5, <1>6, <1>7, <1>8, <1>9, <1>10
  DEF Next, Collect, Transmit, Flush, Respond, Environment, vars, Start, Tick,
      ScanRequest, CollectFails, TransmitRefused, Post, Refuse, PollTick,
      FlusherStop, FlushQuery, FlushCancelled, FlushLoopDone, Signal, Shutdown,
      Flap, Disconnect

\* Outbox itself loses nothing silently.
LEMMA ConservedStep == Promise!Conserved /\ [Promise!Next]_Promise!vars => Promise!Conserved'
<1> SUFFICES ASSUME Promise!Conserved, [Promise!Next]_Promise!vars PROVE Promise!Conserved'
  OBVIOUS
<1> USE DEF Promise!Conserved
<1>1. ASSUME NEW p \in Payloads, Promise!Produce(p) \/ Promise!Reject(p) \/ Promise!Deliver(p)
      PROVE  Promise!Conserved'
  BY <1>1 DEF Promise!Produce, Promise!Reject, Promise!Deliver
<1>2. ASSUME NEW S \in SUBSET Payloads, Promise!Forget(S) \/ Promise!Lose(S)
      PROVE  Promise!Conserved'
  BY <1>2 DEF Promise!Forget, Promise!Lose
<1>3. CASE UNCHANGED Promise!vars
  BY <1>3 DEF Promise!vars
<1> QED
  BY <1>1, <1>2, <1>3 DEF Promise!Next

LEMMA ConservedIsNoSilentLoss == Promise!Conserved <=> NoSilentLoss
BY DEF Promise!Conserved, NoSilentLoss

-----------------------------------------------------------------------------
(* The theorems.                                                           *)

LEMMA AgentInvStep == AgentInv /\ [Next]_vars => AgentInv'
<1> SUFFICES ASSUME AgentInv, [Next]_vars PROVE AgentInv'
  OBVIOUS
<1>1. Sound
  BY DEF AgentInv, Sound
<1>2. Shape' /\ Books' /\ SnapshotInOrder' /\ AnswersTrue' /\ KnownOrDoubted'
  BY <1>1, ShapeStep, BooksStep, SnapshotStep, AnswersStep, DoubtStep DEF Sound
<1>3. NoSilentLoss'
  <2>1. Promise!Conserved
    BY ConservedIsNoSilentLoss DEF AgentInv
  <2>2. Promise!Conserved'
    BY <1>1, <2>1, StepKeepsPromise, ConservedStep
  <2> QED
    BY <2>2 DEF Promise!Conserved, NoSilentLoss
<1> QED
  BY <1>2, <1>3 DEF AgentInv

\* The inductive invariant: whatever scanners, flusher, network and process
\* ends do, in any order, AgentInv holds in every reachable state.
THEOREM AgentInvariantHolds == Spec => []AgentInv
<1>1. Init => AgentInv
  BY ShapeInit, BooksInit, SnapshotInit, AnswersInit DEF AgentInv
<1>2. AgentInv /\ [Next]_vars => AgentInv'
  BY AgentInvStep
<1> QED
  BY <1>1, <1>2, PTL DEF Spec

\* Every variable of the agent keeps its type.
THEOREM AgentTypeCorrect == Spec => []TypeOK
<1>1. AgentInv => TypeOK
  BY DEF AgentInv, Shape
<1> QED
  BY <1>1, AgentInvariantHolds, PTL

\* No payload the agent collected disappears without being accepted by the
\* backend or lost in one of the named ways (pkg/network Transmit, cacheOffline,
\* FlushOfflineCache).
THEOREM AgentLosesNothingSilently == Spec => []NoSilentLoss
<1>1. AgentInv => NoSilentLoss
  BY DEF AgentInv
<1> QED
  BY <1>1, AgentInvariantHolds, PTL

\* The backend is handed a payload again only after the agent was left in doubt.
THEOREM AgentRepeatsOnlyInDoubt == Spec => []RepeatsOnlyInDoubt
<1>1. AgentInv => RepeatsOnlyInDoubt
  BY DEF AgentInv, KnownOrDoubted
<1> QED
  BY <1>1, AgentInvariantHolds, PTL

\* A flush pass delivers the backlog oldest first (FlushOfflineCache).
THEOREM AgentFlushesOldestFirst == Spec => []FlushOldestFirst
<1>1. AgentInv => FlushOldestFirst
  <2> SUFFICES ASSUME AgentInv, NEW r \in rows, NEW q \in rows,
                      r.id \in flushed, q.id < r.id
               PROVE  q.id \in flushed
    BY DEF FlushOldestFirst
  <2>1. r.id \in Nat /\ q.id \in Nat
    BY RowParts DEF AgentInv, Shape
  <2>2. CASE q \in todo
    BY <2>1, <2>2 DEF AgentInv, SnapshotInOrder
  <2>3. CASE q \notin todo
    BY <2>1, <2>3 DEF AgentInv, SnapshotInOrder
  <2> QED
    BY <2>2, <2>3
<1> QED
  BY <1>1, AgentInvariantHolds, PTL

\* A row leaves offline_payloads only once its payload has been accepted.
THEOREM AgentRowsLeaveAccepted == Spec => RowsLeaveAccepted
<1>1. AgentInv /\ [Next]_vars => [\A r \in rows \ rows' : r.payload \in accepted]_vars
  <2> SUFFICES ASSUME AgentInv, Next, NEW r \in rows \ rows' PROVE r.payload \in accepted
    OBVIOUS
  <2>1. CASE FlushDelete
    BY <2>1 DEF FlushDelete, Delete, AgentInv, AnswersTrue, store
  <2>2. CASE rows \subseteq rows'
    BY <2>2
  <2> QED
    BY <2>1, <2>2
    DEF Next, Collect, Transmit, Flush, Respond, Environment, store, Start, Tick,
        ScanRequest, CollectOk, CollectFails, Transmitted, TransmitRefused,
        CacheOffline, Enqueue, Post, DoFails, Accept, Refuse, PollTick,
        FlusherStop, FlushQuery, FlushCancelled, FlushSelect, FlushLoopDone,
        FlushOk, FlushBreak, Exit, Crash, Halt, Signal, Shutdown, Flap,
        LateArrival, Disconnect
<1> QED
  BY <1>1, AgentInvariantHolds, PTL DEF Spec, RowsLeaveAccepted

\* A new agent has promised nothing yet.
LEMMA PromiseInit == Init => Promise!Init
<1> SUFFICES ASSUME Init PROVE Promise!Init
  OBVIOUS
<1>1. 1 .. scans = {}
  BY DEF Init
<1>2. \A p : p \notin Custody
  BY InCustody, Kinds DEF Init, QueueInit
<1> QED
  BY <1>1, <1>2 DEF Init, Promise!Init

\* The agent implements the abstract outbox: every step is one of Outbox's
\* steps on the payloads in custody, or none.
THEOREM AgentKeepsPromise == Spec => KeepsPromise
<1>1. AgentInv /\ [Next]_vars => [Promise!Next]_Promise!vars
  BY StepKeepsPromise DEF AgentInv, Sound
<1> QED
  BY <1>1, PromiseInit, AgentInvariantHolds, PTL DEF Spec, KeepsPromise, Promise!Spec
=============================================================================
