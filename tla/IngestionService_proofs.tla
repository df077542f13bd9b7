----------------------- MODULE IngestionService_proofs -----------------------
(***************************************************************************)
(* ServiceInv is an invariant of IngestionService for any requests, number *)
(* of workers, buffer size and faults; that settled tasks stay settled     *)
(* follows.  Types first, then the phases of main, then where tasks are.   *)
(***************************************************************************)
EXTENDS IngestionInvariant, SequenceTheorems, TLAPS

-----------------------------------------------------------------------------
(* The channel as a queue of distinct tasks.                               *)

\* Appending a task that is not there keeps the tasks distinct.
LEMMA Enqueueing ==
  ASSUME NEW S, NEW s \in Seq(S), NEW x \in S
  PROVE  /\ Append(s, x) \in Seq(S) /\ Len(Append(s, x)) = Len(s) + 1
         /\ \A q : (\E i \in DOMAIN Append(s, x) : Append(s, x)[i] = q)
                     <=> (\E i \in DOMAIN s : s[i] = q) \/ q = x
         /\ (/\ \A i, j \in DOMAIN s : s[i] = s[j] => i = j
             /\ \A i \in DOMAIN s : s[i] # x)
            => \A i, j \in DOMAIN Append(s, x) :
                 Append(s, x)[i] = Append(s, x)[j] => i = j
<1> DEFINE t == Append(s, x)
<1>1. /\ t \in Seq(S) /\ Len(t) = Len(s) + 1 /\ Len(s) \in Nat
      /\ DOMAIN s = 1 .. Len(s) /\ DOMAIN t = 1 .. Len(s) + 1
      /\ \A i \in 1 .. Len(s) : t[i] = s[i]
      /\ t[Len(s) + 1] = x
  OBVIOUS
<1> HIDE DEF t
<1>2. \A i \in DOMAIN t : i \in DOMAIN s \/ i = Len(s) + 1
  BY <1>1
<1>3. DOMAIN s \subseteq DOMAIN t /\ Len(s) + 1 \in DOMAIN t /\ Len(s) + 1 \notin DOMAIN s
  BY <1>1
<1>4. \A q : (\E i \in DOMAIN t : t[i] = q) <=> (\E i \in DOMAIN s : s[i] = q) \/ q = x
  BY <1>1, <1>2, <1>3
<1>5. ASSUME \A i, j \in DOMAIN s : s[i] = s[j] => i = j,
             \A i \in DOMAIN s : s[i] # x,
             NEW i \in DOMAIN t, NEW j \in DOMAIN t, t[i] = t[j]
      PROVE  i = j
  BY <1>1, <1>2, <1>5
<1> QED
  BY <1>1, <1>4, <1>5 DEF t

\* Taking the head leaves the other tasks, still distinct.
LEMMA Dequeueing ==
  ASSUME NEW S, NEW s \in Seq(S), s # <<>>,
         \A i, j \in DOMAIN s : s[i] = s[j] => i = j
  PROVE  /\ Tail(s) \in Seq(S) /\ Len(Tail(s)) = Len(s) - 1 /\ Head(s) \in S
         /\ \E i \in DOMAIN s : s[i] = Head(s)
         /\ \A q : (\E i \in DOMAIN Tail(s) : Tail(s)[i] = q)
                     <=> (\E i \in DOMAIN s : s[i] = q) /\ q # Head(s)
         /\ \A i, j \in DOMAIN Tail(s) : Tail(s)[i] = Tail(s)[j] => i = j
<1> DEFINE t == Tail(s)
           x == Head(s)
<1>1. /\ t \in Seq(S) /\ Len(t) = Len(s) - 1 /\ Len(s) \in Nat \ {0} /\ x \in S
      /\ DOMAIN s = 1 .. Len(s) /\ DOMAIN t = 1 .. Len(s) - 1
      /\ \A i \in 1 .. Len(s) - 1 : t[i] = s[i + 1]
      /\ s[1] = x
  OBVIOUS
<1> HIDE DEF t, x
<1>2. 1 \in DOMAIN s /\ \A i \in DOMAIN t : i + 1 \in DOMAIN s /\ i + 1 # 1
  BY <1>1
<1>3. \A i \in DOMAIN s : i = 1 \/ (i - 1 \in DOMAIN t /\ t[i - 1] = s[i])
  BY <1>1
<1>4. ASSUME NEW q
      PROVE  (\E i \in DOMAIN t : t[i] = q) <=> (\E i \in DOMAIN s : s[i] = q) /\ q # x
  <2>1. ASSUME NEW i \in DOMAIN t, t[i] = q
        PROVE  s[i + 1] = q /\ q # x
    BY <1>1, <1>2, <2>1
  <2>2. ASSUME NEW i \in DOMAIN s, s[i] = q, q # x
        PROVE  \E j \in DOMAIN t : t[j] = q
    BY <1>1, <1>3, <2>2
  <2> QED
    BY <1>2, <2>1, <2>2
<1>5. ASSUME NEW i \in DOMAIN t, NEW j \in DOMAIN t, t[i] = t[j]
      PROVE  i = j
  BY <1>1, <1>2, <1>5
<1> QED
  BY <1>1, <1>2, <1>4, <1>5 DEF t, x

-----------------------------------------------------------------------------
LEMMA EmptyBuffer == <<>> \in Seq(Requests) /\ Len(<<>>) <= BufferSize
<1>1. Len(<<>>) = 0 /\ <<>> \in Seq(Requests)
  OBVIOUS
<1> QED
  BY <1>1, ServiceAssumption

LEMMA TypeInit == Init => TypeOK
<1> SUFFICES ASSUME Init PROVE TypeOK
  OBVIOUS
<1>1. taskChan \in Seq(Requests) /\ Len(taskChan) <= BufferSize
  BY EmptyBuffer DEF Init
<1> QED
  BY <1>1 DEF Init, TypeOK, Fates

LEMMA TypeStep == TypeOK /\ [Next]_vars => TypeOK'
<1> SUFFICES ASSUME TypeOK, [Next]_vars PROVE TypeOK'
  OBVIOUS
<1> USE DEF TypeOK
<1>1. ASSUME NEW r \in Requests, Receive(r) PROVE TypeOK'
  <2>1. CASE Arrive(r) \/ ReadBody(r)
    BY <2>1 DEF Arrive, ReadBody, chan, pool
  <2>2. CASE Reject(r)
    BY <2>2 DEF Reject, Answer, chan, pool
  <2> QED
    BY <1>1, <2>1, <2>2 DEF Receive
<1>2. ASSUME NEW r \in Requests, Handle(r) PROVE TypeOK'
  <2>1. CASE Push(r)
    <3>1. Len(taskChan) \in Nat /\ Len(taskChan) + 1 <= BufferSize
      BY <2>1, ServiceAssumption DEF Push
    <3>2. taskChan' \in Seq(Requests) /\ Len(taskChan') <= BufferSize
      BY <2>1, <3>1, Enqueueing DEF Push
    <3> QED
      BY <2>1, <3>2 DEF Push, pool
  <2>2. CASE Saturated(r)
    BY <2>2 DEF Saturated, Answer, chan, pool
  <2>3. CASE Accepted(r)
    BY <2>3 DEF Accepted, Answer, chan, pool
  <2> QED
    BY <1>2, <2>1, <2>2, <2>3 DEF Handle
<1>3. ASSUME NEW w \in Workers, NEW f \in Fates, Finish(w, f), task[w] \in Requests
      PROVE  TypeOK'
  BY <1>3 DEF Finish, chan, handler, Fates
<1>4. ASSUME NEW w \in Workers, Work(w) PROVE TypeOK'
  <2>1. CASE Take(w)
    <3>1. /\ taskChan' \in Seq(Requests) /\ Head(taskChan) \in Requests
          /\ Len(taskChan') <= Len(taskChan) /\ Len(taskChan) \in Nat /\ Len(taskChan') \in Nat
      BY <2>1 DEF Take
    <3>2. Len(taskChan') <= BufferSize
      BY <3>1, ServiceAssumption
    <3> QED
      BY <2>1, <3>1, <3>2 DEF Take, handler
  <2>2. CASE Stop(w)
    BY <2>2 DEF Stop, chan, handler
  <2>3. CASE SaveDevice(w) \/ Begin(w)
    BY <2>3 DEF SaveDevice, Begin, chan, handler
  <2>4. \A f \in Fates : Finish(w, f) => TypeOK'
    BY DEF Finish, chan, handler, Fates
  <2>5. CASE Discard(w) \/ DryRun(w) \/ Commit(w) \/ SaveFails(w)
    BY <2>4, <2>5 DEF Discard, DryRun, Commit, SaveFails, Fates
  <2> QED
    BY <1>4, <2>1, <2>2, <2>3, <2>5 DEF Work
<1>5. ASSUME Abandon PROVE TypeOK'
  <2>1. taskChan' \in Seq(Requests) /\ Len(taskChan') <= BufferSize
    BY <1>5, ServiceAssumption DEF Abandon
  <2>2. fate' \in [Requests -> Fates]
    BY <1>5 DEF Abandon, Fates
  <2>3. /\ req' \in [Requests -> {"unsent", "reading", "handling", "pushed", "done"}]
        /\ answer' \in [Requests -> {"none", "202", "400", "503", "broken"}]
    BY <1>5 DEF Abandon
  <2> QED
    BY <1>5, <2>1, <2>2, <2>3 DEF Abandon
<1>6. CASE Exit \/ Crash
  BY <1>5, <1>6 DEF Exit, Crash
<1>7. CASE Signal \/ Drained \/ CloseCancels \/ CloseClosesChan \/ DbFlap
  BY <1>7 DEF Signal, Drained, CloseCancels, CloseClosesChan, DbFlap, chan, pool, handler
<1>8. CASE Restart
  <2>1. taskChan' \in Seq(Requests) /\ Len(taskChan') <= BufferSize
    BY <1>8, EmptyBuffer DEF Restart
  <2> QED
    BY <1>8, <2>1 DEF Restart, handler
<1>9. CASE UNCHANGED vars
  BY <1>9 DEF vars, chan, pool, handler
<1> QED
  BY <1>1, <1>2, <1>4, <1>6, <1>7, <1>8, <1>9 DEF Next, Shutdown
-----------------------------------------------------------------------------
(* Main, handlers and workers.                                             *)

LEMMA PhaseInit == Init => MainPhase /\ Busy /\ NoSendOnClosed
BY ServiceAssumption DEF Init, MainPhase, Busy, NoSendOnClosed

LEMMA PhaseStep == TypeOK /\ MainPhase /\ [Next]_vars => MainPhase'
<1> SUFFICES ASSUME TypeOK, MainPhase, [Next]_vars PROVE MainPhase'
  OBVIOUS
<1> USE DEF MainPhase
<1>1. ASSUME NEW r \in Requests, Receive(r) PROVE MainPhase'
  BY <1>1 DEF Receive, Arrive, ReadBody, Reject, Answer, TypeOK, chan, pool
\* A handler's other steps end it or need it running, and it runs only while
\* main is up or draining.
<1>2. ASSUME NEW r \in Requests, Handle(r) PROVE MainPhase'
  BY <1>2 DEF Handle, Push, Saturated, Accepted, Answer, TypeOK, chan, pool
<1>3. ASSUME NEW w \in Workers, Work(w) PROVE MainPhase'
  <2>1. UNCHANGED <<main, closed, cancelled, req>>
    BY <1>3 DEF Work, Take, Stop, Discard, DryRun, SaveDevice, Begin, Commit, SaveFails,
                Finish, chan, handler
  <2>2. pc[w] # "gone"
    BY <1>3 DEF Work, Take, Stop, Discard, DryRun, SaveDevice, Begin, Commit, SaveFails
  <2> QED
    BY <2>1, <2>2
<1>4. CASE Signal \/ Drained \/ CloseCancels \/ CloseClosesChan \/ DbFlap
  BY <1>4 DEF Signal, Drained, CloseCancels, CloseClosesChan, DbFlap, chan, handler, pool
<1>5. CASE Exit \/ Crash
  BY <1>5 DEF Exit, Crash, Abandon
<1>6. CASE Restart
  BY <1>6 DEF Restart, handler
<1>7. CASE UNCHANGED vars
  BY <1>7 DEF vars, chan, handler, pool
<1> QED
  BY <1>1, <1>2, <1>3, <1>4, <1>5, <1>6, <1>7 DEF Next, Shutdown

\* Where the channel is closed no handler is running, hence none at its select.
LEMMA ClosedIsQuiet == MainPhase => NoSendOnClosed
BY DEF MainPhase, NoSendOnClosed

LEMMA BusyStep == TypeOK /\ Busy /\ [Next]_vars => Busy'
<1> SUFFICES ASSUME TypeOK, Busy, [Next]_vars PROVE Busy'
  OBVIOUS
<1> USE DEF Busy
<1>1. ASSUME NEW r \in Requests, Receive(r) \/ Handle(r) PROVE Busy'
  BY <1>1 DEF Receive, Arrive, ReadBody, Reject, Handle, Push, Saturated, Accepted, Answer, TypeOK, pool
<1>2. ASSUME NEW w \in Workers, Work(w) PROVE Busy'
  <2>1. CASE Take(w)
    <3>1. Head(taskChan) \in Requests
      BY <2>1 DEF Take, TypeOK
    <3> QED
      BY <2>1, <3>1, ServiceAssumption DEF Take, TypeOK, handler
  <2>2. CASE Stop(w) \/ SaveDevice(w) \/ Begin(w)
    BY <2>2 DEF Stop, SaveDevice, Begin, TypeOK, handler
  <2>3. CASE Discard(w) \/ DryRun(w) \/ Commit(w) \/ SaveFails(w)
    BY <2>3 DEF Discard, DryRun, Commit, SaveFails, Finish, TypeOK, handler
  <2> QED
    BY <1>2, <2>1, <2>2, <2>3 DEF Work
<1>3. CASE Signal \/ Drained \/ CloseCancels \/ CloseClosesChan \/ DbFlap
  BY <1>3 DEF Signal, Drained, CloseCancels, CloseClosesChan, DbFlap, pool, handler
<1>4. CASE Exit \/ Crash
  BY <1>4 DEF Exit, Crash, Abandon, TypeOK
<1>5. CASE Restart
  BY <1>5 DEF Restart, handler
<1>6. CASE UNCHANGED vars
  BY <1>6 DEF vars, pool, handler
<1> QED
  BY <1>1, <1>2, <1>3, <1>4, <1>5, <1>6 DEF Next, Shutdown
-----------------------------------------------------------------------------
(* Where tasks are.                                                        *)

\* No step of the kind moves a task.
LEMMA NothingMoves ==
  ASSUME UNCHANGED <<taskChan, task, fate>>
  PROVE  /\ NoTaskTwice' <=> NoTaskTwice
         /\ \A r \in Requests : OnePlace(r)' <=> OnePlace(r)
         /\ \A r \in Requests : SomePlace(r)' <=> SomePlace(r)
BY DEF NoTaskTwice, OnePlace, SomePlace, Queued, Held, Holds

\* A task goes from the channel to a worker.
LEMMA TakeKeepsPlaces ==
  ASSUME TypeOK, Busy, TaskInOnePlace, NEW w \in Workers, Take(w)
  PROVE  TaskInOnePlace'
<1> DEFINE h == Head(taskChan)
<1>1. /\ taskChan \in Seq(Requests) /\ taskChan # <<>>
      /\ \A i, j \in DOMAIN taskChan : taskChan[i] = taskChan[j] => i = j
  BY DEF Take, TypeOK, TaskInOnePlace, NoTaskTwice
<1>2. h \in Requests /\ Queued(h)
  BY <1>1, Dequeueing DEF Queued
<1>3. /\ \A i, j \in DOMAIN taskChan' : taskChan'[i] = taskChan'[j] => i = j
      /\ \A r : Queued(r)' <=> Queued(r) /\ r # h
  BY <1>1, Dequeueing DEF Take, Queued
<1>4. ~Held(h) /\ fate[h] = "none"
  BY <1>2 DEF TaskInOnePlace, OnePlace
<1> HIDE DEF h
<1>5. task[w] = NoTask /\ task' = [task EXCEPT ![w] = h] /\ task \in [Workers -> Requests \union {NoTask}]
  BY DEF Take, Busy, TypeOK, h
<1>6. \A r \in Requests : Held(r)' <=> Held(r) \/ r = h
  BY <1>5, ServiceAssumption DEF Held, Holds
<1>7. \A u, v \in Workers : task'[u] = task'[v] /\ task'[u] # NoTask => u = v
  BY <1>4, <1>5 DEF TaskInOnePlace, NoTaskTwice, Held, Holds
<1>8. UNCHANGED <<req, answer, fate>>
  BY DEF Take, handler
<1>9. \A r \in Requests : OnePlace(r)' /\ (SomePlace(r)' <=> SomePlace(r))
  BY <1>2, <1>3, <1>4, <1>6, <1>8 DEF TaskInOnePlace, OnePlace, SomePlace
<1> QED
  BY <1>3, <1>7, <1>8, <1>9 DEF TaskInOnePlace, NoTaskTwice

\* A worker is through with its task.
LEMMA FinishKeepsPlaces ==
  ASSUME TypeOK, Busy, TaskInOnePlace, NEW w \in Workers, pc[w] \in {"process", "begin", "tx"},
         NEW f \in Fates \ {"none"}, Finish(w, f)
  PROVE  TaskInOnePlace'
<1> DEFINE t == task[w]
<1>1. t \in Requests /\ Held(t)
  BY DEF Busy, TypeOK, Held, Holds
<1>2. ~Queued(t)
  BY <1>1 DEF TaskInOnePlace, OnePlace
<1>3. /\ task' = [task EXCEPT ![w] = NoTask] /\ task \in [Workers -> Requests \union {NoTask}]
      /\ fate' = [fate EXCEPT ![t] = f] /\ fate \in [Requests -> Fates]
      /\ UNCHANGED <<taskChan, req, answer>>
  BY DEF Finish, TypeOK, chan, handler
<1>4. \A v \in Workers : task[v] = t => v = w
  BY <1>1, ServiceAssumption DEF TaskInOnePlace, NoTaskTwice
<1>5. t = task[w]
  OBVIOUS
<1> HIDE DEF t
<1>6. \A r \in Requests : Held(r)' <=> Held(r) /\ r # t
  BY <1>3, <1>4, <1>5, ServiceAssumption DEF Held, Holds
<1>7. \A r \in Requests : Queued(r)' <=> Queued(r)
  BY <1>3 DEF Queued
<1>8. fate'[t] # "none" /\ \A r \in Requests : r # t => fate'[r] = fate[r]
  BY <1>1, <1>3
<1>9. \A r \in Requests : OnePlace(r)' /\ (SomePlace(r)' <=> SomePlace(r))
  BY <1>1, <1>2, <1>6, <1>7, <1>8 DEF TaskInOnePlace, OnePlace, SomePlace
<1>10. NoTaskTwice'
  BY <1>3 DEF TaskInOnePlace, NoTaskTwice
<1> QED
  BY <1>3, <1>9, <1>10 DEF TaskInOnePlace

\* The process goes, and every task in it is abandoned.
LEMMA AbandonKeepsPlaces ==
  ASSUME TypeOK, TaskInOnePlace, Abandon
  PROVE  TaskInOnePlace'
<1>1. \A r \in Requests : ~Queued(r)' /\ ~Held(r)'
  BY ServiceAssumption DEF Abandon, Queued, Held, Holds
<1>2. NoTaskTwice'
  BY DEF Abandon, NoTaskTwice
<1>3. \A r \in Requests : fate'[r] # "none" <=> SomePlace(r)
  BY DEF Abandon, SomePlace, Held
<1>4. \A r \in Requests : OnePlace(r)' /\ (SomePlace(r)' <=> SomePlace(r))
  BY <1>1, <1>3 DEF OnePlace, SomePlace
<1>5. \A r \in Requests :
        /\ req'[r] \in {"unsent", "done"} /\ (req'[r] = "unsent" => req[r] = "unsent")
        /\ answer'[r] = "broken" \/ answer'[r] = answer[r]
  BY DEF Abandon
<1> QED
  BY <1>2, <1>4, <1>5 DEF TaskInOnePlace

\* A handler puts its task into the channel, or turns the request away.
LEMMA HandleKeepsPlaces ==
  ASSUME TypeOK, Busy, TaskInOnePlace, NEW r \in Requests, Handle(r)
  PROVE  TaskInOnePlace'
<1>1. CASE Push(r)
  <2>1. ~Queued(r) /\ ~Held(r) /\ fate[r] = "none"
    BY <1>1 DEF Push, TaskInOnePlace, SomePlace
  <2>2. /\ taskChan \in Seq(Requests)
        /\ \A i, j \in DOMAIN taskChan : taskChan[i] = taskChan[j] => i = j
        /\ \A i \in DOMAIN taskChan : taskChan[i] # r
    BY <2>1 DEF TypeOK, TaskInOnePlace, NoTaskTwice, Queued
  <2>3. /\ \A i, j \in DOMAIN taskChan' : taskChan'[i] = taskChan'[j] => i = j
        /\ \A q : Queued(q)' <=> Queued(q) \/ q = r
    BY <1>1, <2>2, Enqueueing DEF Push, Queued
  <2>4. UNCHANGED <<task, answer, fate>>
    BY <1>1 DEF Push, pool
  <2>5. \A q : Held(q)' <=> Held(q)
    BY <2>4 DEF Held, Holds
  <2>6. \A q \in Requests : OnePlace(q)' /\ (SomePlace(q)' <=> SomePlace(q) \/ q = r)
    BY <2>1, <2>3, <2>4, <2>5 DEF TaskInOnePlace, OnePlace, SomePlace
  <2>7. NoTaskTwice'
    BY <2>3, <2>4 DEF TaskInOnePlace, NoTaskTwice
  <2>8. /\ req'[r] = "pushed" /\ \A q \in Requests : q # r => req'[q] = req[q]
        /\ answer[r] = "none"
    BY <1>1 DEF Push, TypeOK, Busy
  <2> QED
    BY <2>4, <2>6, <2>7, <2>8 DEF TaskInOnePlace
<1>2. CASE Saturated(r) \/ Accepted(r)
  <2>1. UNCHANGED <<taskChan, task, fate>>
    BY <1>2 DEF Saturated, Accepted, chan, pool
  <2>2. /\ req'[r] = "done"
        /\ \/ answer'[r] = "503" /\ req[r] = "handling"
           \/ answer'[r] = "202" /\ req[r] = "pushed"
        /\ \A q \in Requests : q # r => req'[q] = req[q] /\ answer'[q] = answer[q]
    BY <1>2 DEF Saturated, Accepted, Answer, TypeOK
  <2> QED
    BY <2>1, <2>2, NothingMoves DEF TaskInOnePlace
<1> QED
  BY <1>1, <1>2 DEF Handle

\* A request that comes in, whole or not, puts nothing into the channel.
LEMMA ReceiveKeepsPlaces ==
  ASSUME TypeOK, TaskInOnePlace, NEW r \in Requests, Receive(r)
  PROVE  TaskInOnePlace'
<1>1. UNCHANGED <<taskChan, task, fate>>
  BY DEF Receive, Arrive, ReadBody, Reject, chan, pool
<1>2. /\ req[r] \in {"unsent", "reading"}
      /\ \/ req'[r] \in {"reading", "handling"} /\ answer'[r] = answer[r]
         \/ req'[r] = "done" /\ answer'[r] = "400"
      /\ \A q \in Requests : q # r => req'[q] = req[q] /\ answer'[q] = answer[q]
  BY DEF Receive, Arrive, ReadBody, Reject, Answer, TypeOK
<1> QED
  BY <1>1, <1>2, NothingMoves DEF TaskInOnePlace

LEMMA PlacesInit == Init => TaskInOnePlace
BY ServiceAssumption DEF Init, TaskInOnePlace, NoTaskTwice, OnePlace, SomePlace, Queued, Held, Holds

LEMMA PlacesStep == ServiceInv /\ [Next]_vars => TaskInOnePlace'
<1> SUFFICES ASSUME ServiceInv, [Next]_vars PROVE TaskInOnePlace'
  OBVIOUS
<1>0. TypeOK /\ MainPhase /\ Busy /\ TaskInOnePlace
  BY DEF ServiceInv
<1>1. ASSUME NEW r \in Requests, Receive(r) PROVE TaskInOnePlace'
  BY <1>0, <1>1, ReceiveKeepsPlaces
<1>2. ASSUME NEW r \in Requests, Handle(r) PROVE TaskInOnePlace'
  BY <1>0, <1>2, HandleKeepsPlaces
<1>3. ASSUME UNCHANGED <<taskChan, task, fate, req, answer>> PROVE TaskInOnePlace'
  BY <1>0, <1>3, NothingMoves DEF TaskInOnePlace
<1>4. ASSUME NEW w \in Workers, Work(w) PROVE TaskInOnePlace'
  <2>1. CASE Stop(w) \/ SaveDevice(w) \/ Begin(w)
    BY <1>3, <2>1 DEF Stop, SaveDevice, Begin, chan, handler
  <2>2. CASE Discard(w) \/ DryRun(w) \/ Commit(w) \/ SaveFails(w)
    <3>1. \E f \in Fates \ {"none"} : Finish(w, f)
      BY <2>2 DEF Discard, DryRun, Commit, SaveFails, Fates
    <3>2. pc[w] \in {"process", "begin", "tx"}
      BY <2>2 DEF Discard, DryRun, Commit, SaveFails
    <3> QED
      BY <1>0, <3>1, <3>2, FinishKeepsPlaces
  <2> QED
    BY <1>0, <1>4, <2>1, <2>2, TakeKeepsPlaces DEF Work
<1>5. CASE Exit \/ Crash
  BY <1>0, <1>5, AbandonKeepsPlaces DEF Exit, Crash
<1>6. CASE Restart
  \* A process that has exited holds nothing that a new one could drop.
  <2>1. taskChan = <<>> /\ \A w \in Workers : task[w] = NoTask
    BY <1>0, <1>6 DEF Restart, MainPhase, Busy
  <2>2. task' = task
    BY <1>0, <1>6, <2>1 DEF Restart, TypeOK
  <2> QED
    BY <1>3, <1>6, <2>1, <2>2 DEF Restart, handler
<1>7. CASE Signal \/ Drained \/ CloseCancels \/ CloseClosesChan \/ DbFlap
  BY <1>3, <1>7 DEF Signal, Drained, CloseCancels, CloseClosesChan, DbFlap, chan, pool, handler
<1>8. CASE UNCHANGED vars
  BY <1>3, <1>8 DEF vars, chan, pool, handler
<1> QED
  BY <1>1, <1>2, <1>4, <1>5, <1>6, <1>7, <1>8 DEF Next, Shutdown

-----------------------------------------------------------------------------
(* The theorems.                                                           *)

LEMMA ServiceInvInit == Init => ServiceInv
BY TypeInit, PhaseInit, PlacesInit DEF ServiceInv

LEMMA ServiceInvStep == ServiceInv /\ [Next]_vars => ServiceInv'
<1> SUFFICES ASSUME ServiceInv, [Next]_vars PROVE ServiceInv'
  OBVIOUS
<1>1. TypeOK' /\ MainPhase' /\ Busy' /\ TaskInOnePlace'
  BY TypeStep, PhaseStep, BusyStep, PlacesStep DEF ServiceInv
<1>2. NoSendOnClosed'
  BY <1>1, ClosedIsQuiet DEF MainPhase, NoSendOnClosed
<1> QED
  BY <1>1, <1>2 DEF ServiceInv

\* The strengthened invariant of the service holds throughout.
THEOREM ServiceInvariantHolds == Spec => []ServiceInv
BY ServiceInvInit, ServiceInvStep, PTL DEF Spec

\* Handlers, workers and the channel keep their types; the channel is never
\* fuller than its buffer.
THEOREM ServiceTypeCorrect == Spec => []TypeOK
<1>1. ServiceInv => TypeOK
  BY DEF ServiceInv
<1> QED
  BY <1>1, ServiceInvariantHolds, PTL

\* Close never closes taskChan under a handler that may still send on it.
THEOREM ServiceNeverSendsOnClosed == Spec => []NoSendOnClosed
<1>1. ServiceInv => NoSendOnClosed
  BY DEF ServiceInv
<1> QED
  BY <1>1, ServiceInvariantHolds, PTL

\* Whatever workers, handlers and main do, kills included, a task that was
\* acknowledged is queued, with one worker, or settled, and only one of these.
THEOREM ServiceKeepsTaskInOnePlace == Spec => []TaskInOnePlace
<1>1. ServiceInv => TaskInOnePlace
  BY DEF ServiceInv
<1> QED
  BY <1>1, ServiceInvariantHolds, PTL

\* A worker's task, and every task abandoned with the process, was not settled
\* before: processTask never runs twice to an end for one task.
THEOREM ServiceSettlesOnce == Spec => FateFinal
<1> DEFINE Settled == \A r \in Requests : fate[r] # "none" => fate'[r] = fate[r]
<1>1. ServiceInv /\ [Next]_vars => [Settled]_vars
  <2> SUFFICES ASSUME ServiceInv, Next PROVE Settled
    OBVIOUS
  <2>0. TypeOK /\ Busy /\ TaskInOnePlace
    BY DEF ServiceInv
  <2>1. ASSUME UNCHANGED fate PROVE Settled
    BY <2>1
  <2>2. ASSUME NEW w \in Workers, NEW f, Finish(w, f), pc[w] \in {"process", "begin", "tx"}
        PROVE  Settled
    <3>1. task[w] \in Requests /\ Held(task[w])
      BY <2>0, <2>2 DEF Busy, TypeOK, Held, Holds
    <3>2. fate[task[w]] = "none"
      BY <2>0, <3>1 DEF TaskInOnePlace, OnePlace
    <3> QED
      BY <2>0, <2>2, <3>2 DEF Finish, TypeOK
  <2>3. ASSUME Abandon PROVE Settled
    <3>1. \A r \in Requests : Queued(r) \/ Held(r) => fate[r] = "none"
      BY <2>0 DEF TaskInOnePlace, OnePlace
    <3> QED
      BY <2>3, <3>1 DEF Abandon, Held
  <2>4. ASSUME NEW r \in Requests, Receive(r) \/ Handle(r) PROVE UNCHANGED fate
    BY <2>4 DEF Receive, Arrive, ReadBody, Reject, Handle, Push, Saturated, Accepted
  <2>5. ASSUME NEW w \in Workers, Work(w) PROVE Settled
    <3>1. CASE Take(w) \/ Stop(w) \/ SaveDevice(w) \/ Begin(w)
      BY <2>1, <3>1 DEF Take, Stop, SaveDevice, Begin
    <3>2. CASE Discard(w) \/ DryRun(w) \/ Commit(w) \/ SaveFails(w)
      BY <2>2, <3>2 DEF Discard, DryRun, Commit, SaveFails
    <3> QED
      BY <2>5, <3>1, <3>2 DEF Work
  <2>6. Signal \/ Drained \/ CloseCancels \/ CloseClosesChan \/ Restart \/ DbFlap => UNCHANGED fate
    BY DEF Signal, Drained, CloseCancels, CloseClosesChan, Restart, DbFlap
  <2>7. Exit \/ Crash => Abandon
    BY DEF Exit, Crash
  <2> QED
    BY <2>1, <2>3, <2>4, <2>5, <2>6, <2>7 DEF Next, Shutdown
<1> QED
  BY <1>1, ServiceInvariantHolds, PTL DEF Spec, FateFinal

-----------------------------------------------------------------------------
(* The refinement of Intake.                                               *)

LEMMA IntakeInit == Init => Core!Init
BY DEF Init, Core!Init, Core!Idle, Ended, Fates

\* Stored and dropped tasks change with fate only.
LEMMA IntakeStutters ==
  ASSUME UNCHANGED <<taskChan, task, fate>>
  PROVE  UNCHANGED Core!vars
BY DEF Core!vars, Ended

\* A worker's task had no fate before, so exactly one of the two sets grows, by it.
LEMMA FinishIsStoreOrDrop ==
  ASSUME ServiceInv, NEW w \in Workers, pc[w] \in {"process", "begin", "tx"},
         NEW f \in Fates \ {"none"}, Finish(w, f)
  PROVE  Core!Store(w) \/ Core!Drop(w)
<1> DEFINE t == task[w]
<1>1. t \in Requests /\ t # NoTask /\ fate[t] = "none"
  <2>1. TypeOK /\ Busy /\ TaskInOnePlace
    BY DEF ServiceInv
  <2>2. t \in Requests /\ Held(t)
    BY <2>1 DEF Busy, TypeOK, Held, Holds
  <2> QED
    BY <2>1, <2>2, ServiceAssumption DEF TaskInOnePlace, OnePlace
<1>2. /\ task' = [task EXCEPT ![w] = NoTask] /\ taskChan' = taskChan
      /\ fate' = [fate EXCEPT ![t] = f] /\ fate \in [Requests -> Fates]
  BY DEF Finish, chan, ServiceInv, TypeOK
<1> HIDE DEF t
<1>3. \A F : "none" \notin F => Ended(F)' = IF f \in F THEN Ended(F) \union {t} ELSE Ended(F)
  BY <1>1, <1>2 DEF Ended
<1>4. /\ Ended({"saved"})' = IF f = "saved" THEN Ended({"saved"}) \union {t} ELSE Ended({"saved"})
      /\ Ended(Fates \ {"none", "saved"})' =
           IF f = "saved" THEN Ended(Fates \ {"none", "saved"})
           ELSE Ended(Fates \ {"none", "saved"}) \union {t}
  BY <1>3
<1> QED
  BY <1>1, <1>2, <1>4 DEF Core!Store, Core!Drop, t

\* Whatever was in the channel or with a worker gets the fate of a dropped task.
LEMMA AbandonIsVanish ==
  ASSUME ServiceInv, Abandon
  PROVE  Core!Vanish
<1> DEFINE S == Ended({"saved"})
           D == Ended(Fates \ {"none", "saved"})
<1>0. TypeOK /\ TaskInOnePlace
  BY DEF ServiceInv
<1>1. \A r \in Requests : fate'[r] = IF Queued(r) \/ Held(r) THEN "abandoned" ELSE fate[r]
  BY DEF Abandon, Held
<1>2. \A r \in Requests : Queued(r) \/ Held(r) => fate[r] = "none"
  BY <1>0 DEF TaskInOnePlace, OnePlace
<1>3. Core!Inside \subseteq Requests
  BY <1>0 DEF TypeOK, Core!Inside, Core!Waiting, Core!Taken
<1>4. \A r \in Requests : r \in Core!Inside <=> Queued(r) \/ Held(r)
  BY ServiceAssumption DEF Core!Inside, Core!Waiting, Core!Taken, Queued, Held, Holds
<1>5. S' = S
  BY <1>1, <1>2 DEF Ended
<1>6. D' = D \union Core!Inside
  BY <1>1, <1>2, <1>3, <1>4 DEF Ended, Fates
<1>7. taskChan' = <<>> /\ task' = [w \in Workers |-> NoTask]
  BY DEF Abandon
<1> QED
  BY <1>5, <1>6, <1>7 DEF Core!Vanish, Core!Idle

LEMMA IntakeStep == ServiceInv /\ [Next]_vars => [Core!Next]_(Core!vars)
<1> SUFFICES ASSUME ServiceInv, [Next]_vars PROVE Core!Next \/ UNCHANGED Core!vars
  OBVIOUS
<1>0. TypeOK /\ MainPhase /\ Busy
  BY DEF ServiceInv
<1>1. ASSUME NEW r \in Requests, Receive(r) \/ Handle(r)
      PROVE  Core!Next \/ UNCHANGED Core!vars
  <2>1. CASE Push(r)
    <3>1. Len(taskChan) # BufferSize
      BY <2>1, ServiceAssumption DEF Push
    <3>2. taskChan' = Append(taskChan, r) /\ UNCHANGED <<task, fate>>
      BY <2>1 DEF Push, pool
    <3>3. Core!Push(r)
      BY <3>1, <3>2 DEF Core!Push, Core!Full, Ended
    <3> QED
      BY <3>3 DEF Core!Next
  <2>2. CASE Receive(r) \/ Saturated(r) \/ Accepted(r)
    BY <2>2, IntakeStutters DEF Receive, Arrive, ReadBody, Reject, Saturated, Accepted, chan, pool
  <2> QED
    BY <1>1, <2>1, <2>2 DEF Handle
<1>2. ASSUME NEW w \in Workers, Work(w)
      PROVE  Core!Next \/ UNCHANGED Core!vars
  <2>1. CASE Take(w)
    <3>1. /\ task[w] = NoTask /\ taskChan # <<>>
          /\ task' = [task EXCEPT ![w] = Head(taskChan)]
          /\ taskChan' = Tail(taskChan) /\ fate' = fate
      BY <1>0, <2>1 DEF Take, Busy
    <3>2. Core!Take(w)
      BY <3>1 DEF Core!Take, Ended
    <3> QED
      BY <3>2 DEF Core!Next
  <2>2. CASE Stop(w) \/ SaveDevice(w) \/ Begin(w)
    BY <2>2, IntakeStutters DEF Stop, SaveDevice, Begin, chan
  <2>3. CASE Discard(w) \/ DryRun(w) \/ Commit(w) \/ SaveFails(w)
    <3>1. \E f \in Fates \ {"none"} : Finish(w, f)
      BY <2>3 DEF Discard, DryRun, Commit, SaveFails, Fates
    <3>2. pc[w] \in {"process", "begin", "tx"}
      BY <2>3 DEF Discard, DryRun, Commit, SaveFails
    <3>3. Core!Store(w) \/ Core!Drop(w)
      BY <3>1, <3>2, FinishIsStoreOrDrop
    <3> QED
      BY <3>3 DEF Core!Next
  <2> QED
    BY <1>2, <2>1, <2>2, <2>3 DEF Work
<1>3. CASE Exit \/ Crash
  <2>1. Core!Vanish
    BY <1>3, AbandonIsVanish DEF Exit, Crash
  <2> QED
    BY <2>1 DEF Core!Next
<1>4. CASE Restart
  <2>1. taskChan = <<>> /\ \A w \in Workers : task[w] = NoTask
    BY <1>0, <1>4 DEF Restart, MainPhase, Busy
  <2>2. UNCHANGED <<taskChan, task, fate>>
    BY <1>0, <1>4, <2>1 DEF Restart, TypeOK
  <2> QED
    BY <2>2, IntakeStutters
<1>5. CASE Signal \/ Drained \/ CloseCancels \/ CloseClosesChan \/ DbFlap
  BY <1>5, IntakeStutters
     DEF Signal, Drained, CloseCancels, CloseClosesChan, DbFlap, chan, pool
<1>6. CASE UNCHANGED vars
  BY <1>6, IntakeStutters DEF vars, chan, pool
<1> QED
  BY <1>1, <1>2, <1>3, <1>4, <1>5, <1>6 DEF Next, Shutdown

\* Whatever its handlers, workers, transactions and shutdown do, the service is
\* a bounded line served by workers who have one task each, in the order of
\* arrival, as the telemetry pipeline takes it to be.
THEOREM ServiceKeepsIntake == Spec => KeepsIntake
<1>1. Spec => Core!Init
  BY IntakeInit DEF Spec
<1>2. ServiceInv /\ [Next]_vars => [Core!Next]_(Core!vars)
  BY IntakeStep
<1> QED
  BY <1>1, <1>2, ServiceInvariantHolds, PTL DEF Spec, KeepsIntake, Core!Spec
=============================================================================
