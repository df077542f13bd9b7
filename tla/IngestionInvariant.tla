------------------------- MODULE IngestionInvariant -------------------------
(* Why IngestionService's safety properties hold: an inductive invariant.  *)
EXTENDS IngestionService

\* How far main is says what has happened to context, channel, handlers and
\* workers.
MainPhase ==
  /\ cancelled => main \in {"cancelled", "closed", "exited"}
  /\ closed => main \in {"closed", "exited"}
  /\ main \notin {"up", "draining"} => \A r \in Requests : req[r] \in {"unsent", "done"}
  /\ main = "exited" => taskChan = <<>> /\ \A w \in Workers : pc[w] = "gone"

\* A worker has a task exactly while processTask runs, and a handler has
\* answered exactly when it is done.
Busy ==
  /\ \A w \in Workers : task[w] # NoTask <=> pc[w] \in {"process", "begin", "tx"}
  /\ \A r \in Requests : answer[r] # "none" => req[r] = "done"

\* The inductive invariant.
ServiceInv ==
  /\ TypeOK
  /\ MainPhase
  /\ Busy
  /\ NoSendOnClosed
  /\ TaskInOnePlace
=============================================================================
