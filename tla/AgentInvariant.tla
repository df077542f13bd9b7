--------------------------- MODULE AgentInvariant ---------------------------
(* Why AgentDelivery's safety properties hold: an inductive invariant.     *)
EXTENDS AgentDelivery

FlusherLabels == {"off", "poll", "query", "loop", "post", "wait", "delete"}
ScannerLabels == {"idle", "collect", "post", "wait", "cache", "drain"}

\* A sender holds a payload exactly while it has one to place, and has a
\* request out only while it waits for the answer.
Grip ==
  /\ mode = "down" => pc = Resting
  /\ mode # "ui" => \A h \in Handlers : pc[h] = "idle"
  /\ pc[Flusher] \in FlusherLabels
  /\ \A s \in Scanners : pc[s] \in ScannerLabels
  /\ \A s \in Senders :
       /\ hand[s] # NoPayload <=> pc[s] \in {"post", "wait", "cache"}
       /\ wire[s] # "none" => pc[s] = "wait"

\* Only collected payloads are about.
Known ==
  /\ \A s \in Senders : hand[s] <= scans
  /\ \A r \in rows : r.payload <= scans
  /\ \A p \in late \union accepted : p <= scans

\* Ids and payloads identify a row.
RowsDistinct ==
  /\ \A r \in rows : r.id <= lastId
  /\ \A r, q \in rows : r.id = q.id \/ r.payload = q.payload => r = q

\* A payload has one keeper: one scanner, or one row.
OneKeeper ==
  /\ \A s, t \in Scanners : hand[s] # NoPayload /\ s # t => hand[s] # hand[t]
  /\ \A s \in Scanners, r \in rows : hand[s] # r.payload

\* The snapshot is a slice of the table: below it only rows already flushed,
\* above it only rows enqueued since.
SnapshotInOrder ==
  /\ todo \subseteq rows
  /\ pc[Flusher] \in {"off", "poll", "query"} => todo = {} /\ flushed = {}
  /\ pc[Flusher] \in {"post", "wait"} =>
       \E r \in todo : IsOldest(r, todo) /\ hand[Flusher] = r.payload
  /\ \A i \in flushed : i <= lastId
  /\ \A i \in flushed, r \in todo : i < r.id
  /\ \A q \in rows \ todo : q.id \notin flushed =>
       (\A r \in todo : r.id < q.id) /\ (\A i \in flushed : i < q.id)

\* What the agent takes for accepted is accepted ...
AnswersTrue ==
  /\ \A s \in Senders : wire[s] = "ok" => hand[s] \in accepted
  /\ \A r \in rows : r.id \in flushed => r.payload \in accepted

\* ... and what has been accepted but is still kept, it knows or doubts.
KnownOrDoubted ==
  /\ \A r \in rows : r.payload \in accepted =>
       \/ r.payload \in doubt
       \/ r.id \in flushed
       \/ wire[Flusher] = "ok" /\ hand[Flusher] = r.payload
  /\ \A s \in Scanners : hand[s] \in accepted => hand[s] \in doubt \/ wire[s] = "ok"
  /\ late \subseteq doubt
  /\ RepeatsOnlyInDoubt

Shape == TypeOK /\ Grip

Books == Known /\ RowsDistinct /\ OneKeeper

\* The inductive invariant: none of its parts is left to chance by any
\* interleaving of scanners, flusher, network and process ends.
AgentInv ==
  /\ Shape
  /\ Books
  /\ SnapshotInOrder
  /\ AnswersTrue
  /\ KnownOrDoubted
  /\ NoSilentLoss
=============================================================================
