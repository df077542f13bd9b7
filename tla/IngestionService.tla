-------------------------- MODULE IngestionService --------------------------
(***************************************************************************)
(* pkg/ingestion and cmd/ingestion: HTTP handlers push tasks into a        *)
(* buffered channel without blocking, a fixed pool of workers takes them   *)
(* out and stores each in one database transaction (pkg/database,          *)
(* WithTenantTx and SaveDevice), and main shuts all of it down.  A task is *)
(* known by the request that brought it.                                   *)
(***************************************************************************)
EXTENDS Naturals, Sequences, FiniteSets

CONSTANTS
  Requests, NoTask,    \* the POSTs to /api/v1/telemetry, each sent once
  Invalid,             \* those without X-Tenant-ID or without a body
  Unusable,            \* those whose body is no payload, or names no device
  Workers,
  BufferSize,          \* capacity of taskChan
  Faults               \* what may go wrong, by name

ASSUME ServiceAssumption ==
  /\ Invalid \subseteq Requests
  /\ Unusable \subseteq Requests \ Invalid
  /\ NoTask \notin Requests
  /\ Workers # {}
  /\ BufferSize \in Nat \ {0}
  /\ Faults \subseteq {"signal", "crash", "client", "db", "stall", "norepo"}

VARIABLES
  main,                \* where main is between start and exit
  repo,                \* is there a database, or is this a dry run
  taskChan, closed,    \* the channel: what it buffers, and whether it is closed
  cancelled,           \* Service.ctx
  req, answer,         \* per request: its handler, and the status it was given
  pc, task,            \* per worker
  dbUp,                \* the database answers
  fate                 \* per request: what became of its task in the end

chan    == <<taskChan, closed>>
handler == <<req, answer>>
pool    == <<pc, task>>
vars    == <<main, repo, chan, cancelled, handler, pool, dbUp, fate>>

Fates == {"none", "saved", "dry", "unusable", "failed", "abandoned"}

TypeOK ==
  /\ main \in {"up", "draining", "drained", "cancelled", "closed", "exited"}
  /\ repo \in BOOLEAN /\ closed \in BOOLEAN /\ cancelled \in BOOLEAN /\ dbUp \in BOOLEAN
  /\ taskChan \in Seq(Requests) /\ Len(taskChan) <= BufferSize
  /\ req \in [Requests -> {"unsent", "reading", "handling", "pushed", "done"}]
  /\ answer \in [Requests -> {"none", "202", "400", "503", "broken"}]
  /\ pc \in [Workers -> {"select", "process", "begin", "tx", "gone"}]
  /\ task \in [Workers -> Requests \union {NoTask}]
  /\ fate \in [Requests -> Fates]

Init ==
  /\ main = "up"
  /\ repo = TRUE \/ ("norepo" \in Faults /\ repo = FALSE)
  /\ taskChan = <<>> /\ closed = FALSE /\ cancelled = FALSE
  /\ pc = [w \in Workers |-> "select"]
  /\ task = [w \in Workers |-> NoTask]
  /\ req = [r \in Requests |-> "unsent"]
  /\ answer = [r \in Requests |-> "none"]
  /\ dbUp = TRUE
  /\ fate = [r \in Requests |-> "none"]

Queued(r) == \E i \in DOMAIN taskChan : taskChan[i] = r

Holds(w, r) == task[w] = r

-----------------------------------------------------------------------------
(* HandleTelemetry, one goroutine per request.                             *)

Arrive(r) ==
  /\ main = "up" /\ req[r] = "unsent"
  /\ req' = [req EXCEPT ![r] = "reading"]
  /\ UNCHANGED <<main, repo, chan, cancelled, answer, pool, dbUp, fate>>

\* io.ReadAll has all of the body.  The server sets no deadline for it: it takes as
\* long as the client takes to send, for ever if that stalls.
ReadBody(r) ==
  /\ req[r] = "reading" /\ r \notin Invalid
  /\ req' = [req EXCEPT ![r] = "handling"]
  /\ UNCHANGED <<main, repo, chan, cancelled, answer, pool, dbUp, fate>>

Answer(r, status) ==
  /\ req' = [req EXCEPT ![r] = "done"]
  /\ answer' = [answer EXCEPT ![r] = status]

\* No tenant, no body, or a client that broke off while it sent.  Without a tenant
\* the handler does not read, but net/http reads what is left before it is done.
Reject(r) ==
  /\ req[r] = "reading"
  /\ r \in Invalid \/ "client" \in Faults
  /\ Answer(r, "400")
  /\ UNCHANGED <<main, repo, chan, cancelled, pool, dbUp, fate>>

\* Mutant: one slot too many.
PushOverfull(r) ==
  /\ req[r] = "handling" /\ r \notin Invalid
  /\ Len(taskChan) <= BufferSize
  /\ taskChan' = Append(taskChan, r)
  /\ req' = [req EXCEPT ![r] = "pushed"]
  /\ UNCHANGED <<main, repo, closed, cancelled, answer, pool, dbUp, fate>>

\* The select's send: it takes the free slot, and the answer follows.
Push(r) ==
  /\ req[r] = "handling" /\ r \notin Invalid
  /\ Len(taskChan) < BufferSize
  /\ taskChan' = Append(taskChan, r)
  /\ req' = [req EXCEPT ![r] = "pushed"]
  /\ UNCHANGED <<main, repo, closed, cancelled, answer, pool, dbUp, fate>>

\* The select's default.
Saturated(r) ==
  /\ req[r] = "handling" /\ r \notin Invalid
  /\ Len(taskChan) = BufferSize
  /\ Answer(r, "503")
  /\ UNCHANGED <<main, repo, chan, cancelled, pool, dbUp, fate>>

Accepted(r) ==
  /\ req[r] = "pushed"
  /\ Answer(r, "202")
  /\ UNCHANGED <<main, repo, chan, cancelled, pool, dbUp, fate>>

-----------------------------------------------------------------------------
(* startWorkerPool and processTask.                                        *)

\* Mutant: the task is looked at and stays in the channel.
TakePeeks(w) ==
  /\ pc[w] = "select" /\ taskChan # <<>>
  /\ task' = [task EXCEPT ![w] = Head(taskChan)]
  /\ pc' = [pc EXCEPT ![w] = "process"]
  /\ UNCHANGED <<main, repo, chan, cancelled, handler, dbUp, fate>>

\* select does not prefer ctx.Done: a worker may take a task after Close.
Take(w) ==
  /\ pc[w] = "select" /\ taskChan # <<>>
  /\ taskChan' = Tail(taskChan)
  /\ task' = [task EXCEPT ![w] = Head(taskChan)]
  /\ pc' = [pc EXCEPT ![w] = "process"]
  /\ UNCHANGED <<main, repo, closed, cancelled, handler, dbUp, fate>>

Stop(w) ==
  /\ pc[w] = "select"
  /\ cancelled \/ (closed /\ taskChan = <<>>)
  /\ pc' = [pc EXCEPT ![w] = "gone"]
  /\ UNCHANGED <<main, repo, chan, cancelled, handler, task, dbUp, fate>>

\* processTask returns, and the worker goes back to its select.
Finish(w, outcome) ==
  /\ fate' = [fate EXCEPT ![task[w]] = outcome]
  /\ task' = [task EXCEPT ![w] = NoTask]
  /\ pc' = [pc EXCEPT ![w] = "select"]
  /\ UNCHANGED <<main, repo, chan, cancelled, handler, dbUp>>

\* Mutant: a task that does not parse ends the goroutine, not processTask.
DiscardEndsWorker(w) ==
  /\ pc[w] = "process" /\ task[w] \in Unusable
  /\ fate' = [fate EXCEPT ![task[w]] = "unusable"]
  /\ task' = [task EXCEPT ![w] = NoTask]
  /\ pc' = [pc EXCEPT ![w] = "gone"]
  /\ UNCHANGED <<main, repo, chan, cancelled, handler, dbUp>>

Discard(w) ==
  /\ pc[w] = "process" /\ task[w] \in Unusable
  /\ Finish(w, "unusable")

\* main goes on without a repository when the database cannot be reached.
DryRun(w) ==
  /\ pc[w] = "process" /\ task[w] \notin Unusable /\ ~repo
  /\ Finish(w, "dry")

SaveDevice(w) ==
  /\ pc[w] = "process" /\ task[w] \notin Unusable /\ repo
  /\ pc' = [pc EXCEPT ![w] = "begin"]
  /\ UNCHANGED <<main, repo, chan, cancelled, handler, task, dbUp, fate>>

Begin(w) ==
  /\ pc[w] = "begin" /\ dbUp /\ ~cancelled
  /\ pc' = [pc EXCEPT ![w] = "tx"]
  /\ UNCHANGED <<main, repo, chan, cancelled, handler, task, dbUp, fate>>

\* The tenant setting, the upsert and the commit all succeed.
Commit(w) ==
  /\ pc[w] = "tx" /\ dbUp
  /\ Finish(w, "saved")

\* Mutant: the failed task goes back into the channel.
SaveFailsRequeued(w) ==
  /\ pc[w] \in {"begin", "tx"}
  /\ cancelled \/ "db" \in Faults
  /\ Len(taskChan) < BufferSize
  /\ taskChan' = Append(taskChan, task[w])
  /\ fate' = [fate EXCEPT ![task[w]] = "failed"]
  /\ task' = [task EXCEPT ![w] = NoTask]
  /\ pc' = [pc EXCEPT ![w] = "select"]
  /\ UNCHANGED <<main, repo, closed, cancelled, handler, dbUp>>

\* Mutant: processTask passes context.Background() instead of s.ctx.
SaveFailsUncancelled(w) ==
  /\ pc[w] \in {"begin", "tx"} /\ "db" \in Faults
  /\ Finish(w, "failed")

\* Any of the statements fails.  The payload is not kept, the error is only
\* printed.  A commit whose answer is lost may have been executed all the same.
SaveFails(w) ==
  /\ pc[w] \in {"begin", "tx"}
  /\ cancelled \/ "db" \in Faults
  /\ \/ Finish(w, "failed")
     \/ pc[w] = "tx" /\ Finish(w, "saved")

-----------------------------------------------------------------------------
(* cmd/ingestion: the end of the service.                                  *)

\* The signal ends main's wait; server.Shutdown stops the listener.
Signal ==
  /\ "signal" \in Faults /\ main = "up"
  /\ main' = "draining"
  /\ UNCHANGED <<repo, chan, cancelled, handler, pool, dbUp, fate>>

\* Mutant: server.Close instead of server.Shutdown.
DrainedAtOnce ==
  /\ main = "draining"
  /\ main' = "drained"
  /\ UNCHANGED <<repo, chan, cancelled, handler, pool, dbUp, fate>>

\* ... and returns when no handler is running.
Drained ==
  /\ main = "draining"
  /\ \A r \in Requests : req[r] \in {"unsent", "done"}
  /\ main' = "drained"
  /\ UNCHANGED <<repo, chan, cancelled, handler, pool, dbUp, fate>>

\* The deferred svc.Close, in its two steps.
CloseCancels ==
  /\ main = "drained"
  /\ main' = "cancelled" /\ cancelled' = TRUE
  /\ UNCHANGED <<repo, chan, handler, pool, dbUp, fate>>

CloseClosesChan ==
  /\ main = "cancelled"
  /\ main' = "closed" /\ closed' = TRUE
  /\ UNCHANGED <<repo, taskChan, cancelled, handler, pool, dbUp, fate>>

\* What the process held in memory goes with it.
Abandon ==
  /\ main' = "exited"
  /\ fate' = [r \in Requests |->
                IF Queued(r) \/ \E w \in Workers : Holds(w, r) THEN "abandoned" ELSE fate[r]]
  /\ req' = [r \in Requests |-> IF req[r] = "unsent" THEN "unsent" ELSE "done"]
  /\ answer' = [r \in Requests |->
                  IF req[r] \in {"reading", "handling", "pushed"} THEN "broken" ELSE answer[r]]
  /\ taskChan' = <<>>
  /\ task' = [w \in Workers |-> NoTask]
  /\ pc' = [w \in Workers |-> "gone"]
  /\ UNCHANGED <<repo, closed, cancelled, dbUp>>

\* The deferred repo.Close waits for the connections in use, then main returns.
\* It does not wait for the workers.
Exit ==
  /\ main = "closed"
  /\ \A w \in Workers : pc[w] # "tx"
  /\ Abandon

Crash ==
  /\ "crash" \in Faults /\ main # "exited"
  /\ Abandon

\* main again, up to ListenAndServe; NewService makes a channel and workers.
Restart ==
  /\ main = "exited"
  /\ main' = "up"
  /\ repo' = TRUE \/ ("norepo" \in Faults /\ repo' = FALSE)
  /\ taskChan' = <<>> /\ closed' = FALSE /\ cancelled' = FALSE
  /\ pc' = [w \in Workers |-> "select"]
  /\ task' = [w \in Workers |-> NoTask]
  /\ UNCHANGED <<handler, dbUp, fate>>

DbFlap ==
  /\ "stall" \in Faults
  /\ dbUp' = ~dbUp
  /\ UNCHANGED <<main, repo, chan, cancelled, handler, pool, fate>>

-----------------------------------------------------------------------------
Receive(r) == Arrive(r) \/ ReadBody(r) \/ Reject(r)
Handle(r) == Push(r) \/ Saturated(r) \/ Accepted(r)
Work(w) ==
  \/ Take(w) \/ Stop(w) \/ Discard(w) \/ DryRun(w)
  \/ SaveDevice(w) \/ Begin(w) \/ Commit(w) \/ SaveFails(w)
Shutdown == Drained \/ CloseCancels \/ CloseClosesChan \/ Exit

Next ==
  \/ \E r \in Requests : Receive(r) \/ Handle(r)
  \/ \E w \in Workers : Work(w)
  \/ Signal \/ Shutdown \/ Crash \/ Restart \/ DbFlap

Spec == Init /\ [][Next]_vars

\* Handlers that have their body, workers and main run when they can.  Requests,
\* their bodies, signals, crashes and restarts need not come; the database may
\* stall for ever.
Fairness ==
  /\ \A r \in Requests : WF_vars(Handle(r))
  /\ \A w \in Workers : WF_vars(Work(w))
  /\ WF_vars(Shutdown)

FairSpec == Spec /\ Fairness

-----------------------------------------------------------------------------
(* Properties.                                                             *)

\* A send on a closed channel panics.  Close runs only after server.Shutdown
\* has seen the last handler return, so no handler is ahead of its select then.
NoSendOnClosed == closed => \A r \in Requests : req[r] \notin {"reading", "handling"}

Held(r) == \E w \in Workers : Holds(w, r)

NoTaskTwice ==
  /\ \A i, j \in DOMAIN taskChan : taskChan[i] = taskChan[j] => i = j
  /\ \A v, w \in Workers : task[v] = task[w] /\ task[v] # NoTask => v = w

OnePlace(r) ==
  /\ ~(Queued(r) /\ Held(r))
  /\ Queued(r) \/ Held(r) => fate[r] = "none"

SomePlace(r) == Queued(r) \/ Held(r) \/ fate[r] # "none"

\* A task that was queued, and so every one that was answered 202, is in one
\* place at any time: in a slot of the channel, with a worker, or at its end.
\* No two workers process it, it is not queued twice, it is not still queued
\* once it is settled, and it does not vanish.  One that was refused is nowhere.
TaskInOnePlace ==
  /\ NoTaskTwice
  /\ \A r \in Requests :
       /\ OnePlace(r)
       /\ req[r] = "pushed" \/ answer[r] = "202" => SomePlace(r)
       /\ req[r] \in {"unsent", "reading", "handling"} \/ answer[r] \in {"400", "503"} => ~SomePlace(r)

\* What has become of a task never changes: it is not processed again after a
\* restart, and a stored one is not abandoned.
FateFinal ==
  [][\A r \in Requests : fate[r] # "none" => fate'[r] = fate[r]]_vars

Ended(outcomes) == {r \in Requests : fate[r] \in outcomes}

Core == INSTANCE Intake
          WITH Tasks <- Requests, line <- taskChan, busy <- task,
               stored <- Ended({"saved"}), dropped <- Ended(Fates \ {"none", "saved"})

\* With its handlers, its transactions and its shutdown the service is still no
\* more than the abstract intake: tasks leave the line in the order in which
\* they came, a worker has one at a time, and what was stored stays stored.
KeepsIntake == Core!Spec

\* Acknowledged work does not starve: as long as the database keeps answering,
\* a queued task comes to an end, whatever the tasks before it did to the workers.
QueuedSettles ==
  <>[]dbUp => \A r \in Requests : req[r] = "pushed" ~> fate[r] # "none"

\* A client that is still sending may hold up server.Shutdown for ever, which has
\* no deadline, but nothing else can: from then on the service stops even while
\* the database hangs and the buffer is full, because Close cancels the context
\* that the transactions of the workers run under.
ShutdownCompletes ==
  main = "draining" /\ (\A r \in Requests : req[r] # "reading") ~> main = "exited"

\* Close's comment: it "gracefully stops the worker pool".  With a database that
\* works, the tasks acknowledged with 202 are stored when the service has stopped.
CloseIsGraceful ==
  main = "exited" =>
    \A r \in Requests \ Unusable : answer[r] = "202" => fate[r] = "saved"
=============================================================================
