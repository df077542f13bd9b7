---------------------- MODULE TelemetryPipeline_proofs ----------------------
(***************************************************************************)
(* From the scan to the row nothing goes missing between agent and         *)
(* service, for any number of scans, handlers and workers, any buffer and  *)
(* any faults.  The agent's invariant survives the composition; the        *)
(* service adds that it has, or has settled, whatever it accepted.         *)
(***************************************************************************)
EXTENDS PipelineInvariant, AgentDelivery_proofs


-----------------------------------------------------------------------------
(* The agent's half.                                                       *)

\* A late request the service turns away is one the agent has given up on.
LEMMA ForgettingLate ==
  ASSUME AgentInv, late' \subseteq late,
         UNCHANGED <<store, config, pc, hand, wire, pass, signals, up, accepted, again,
                     scans, doubt, lost>>
  PROVE  AgentInv'
<1>0. UNCHANGED <<rows, lastId, mode, client, queue, pc, hand, wire, todo, flushed,
                  signalled, gone, up, accepted, again, scans, doubt, lost>>
  BY DEF store, config, pass, signals
<1>1. TypeOK'
  BY <1>0 DEF AgentInv, Shape, TypeOK, QueueTypeOK, ProcessTypeOK, SendingTypeOK, LedgerTypeOK
<1>2. Grip'
  BY <1>0 DEF AgentInv, Shape, Grip
<1>3. Books'
  BY <1>0 DEF AgentInv, Books, Known, RowsDistinct, OneKeeper
<1>4. SnapshotInOrder'
  BY <1>0 DEF AgentInv, SnapshotInOrder, IsOldest
<1>5. AnswersTrue' /\ KnownOrDoubted'
  BY <1>0 DEF AgentInv, AnswersTrue, KnownOrDoubted, RepeatsOnlyInDoubt
<1>6. NoSilentLoss'
  BY <1>0 DEF AgentInv, NoSilentLoss, Custody, Held, PayloadsOf
<1> QED
  BY <1>1, <1>2, <1>3, <1>4, <1>5, <1>6 DEF AgentInv, Shape

\* What the agent does alone is one of its steps, and so are its answers.
LEMMA AgentMoves ==
  ASSUME PipelineNext
  PROVE  Next \/ UNCHANGED vars \/ \E p \in Payloads : TurnAwayLate(p)
<1>1. CASE Alone(AgentStep)
  BY <1>1 DEF Alone, AgentStep, Next, Environment
<1>2. ASSUME NEW s \in Senders, Answer(s) PROVE Next
  BY <1>2 DEF Answer, Enter, TurnAway, Respond, Next
<1>3. ASSUME NEW p \in Payloads, EnterLate(p) PROVE Next
  BY <1>3 DEF EnterLate, Environment, Next
<1>4. ASSUME NEW w \in Workers, Work(w) PROVE UNCHANGED vars
  BY <1>4 DEF Work, TakeTask, Save, SaveFails
<1>5. ServiceKilled => UNCHANGED vars
  BY DEF ServiceKilled
<1> QED
  BY <1>1, <1>2, <1>3, <1>4, <1>5 DEF PipelineNext

LEMMA AgentHalf == AgentInv /\ [PipelineNext]_pipelineVars => AgentInv'
<1> SUFFICES ASSUME AgentInv, [PipelineNext]_pipelineVars PROVE AgentInv'
  OBVIOUS
<1>1. ASSUME NEW p \in Payloads, TurnAwayLate(p) PROVE AgentInv'
  BY <1>1, ForgettingLate DEF TurnAwayLate
<1>2. UNCHANGED pipelineVars => UNCHANGED vars
  BY DEF pipelineVars
<1> QED
  BY <1>1, <1>2, AgentMoves, AgentInvStep

-----------------------------------------------------------------------------
(* The service's half.                                                     *)

\* A payload that is let in is inside from then on.
LEMMA PushEnters ==
  ASSUME PipelineTypeOK, NEW p \in Payloads, Service!Push(p)
  PROVE  /\ line' \in Seq(Payloads) /\ Len(line') <= BufferSize
         /\ Service!Inside' = Service!Inside \union {p}
         /\ UNCHANGED <<busy, stored, dropped>>
<1>1. /\ line \in Seq(Payloads) /\ Len(line) \in Nat /\ Len(line) <= BufferSize
      /\ Len(line) # BufferSize /\ line' = Append(line, p)
      /\ UNCHANGED <<busy, stored, dropped>>
  BY DEF PipelineTypeOK, Service!Push, Service!Full
<1>2. line' \in Seq(Payloads) /\ Len(line') <= BufferSize
  BY <1>1, PipelineAssumption
<1>3. Service!Waiting' = Service!Waiting \union {p}
  <2>1. /\ DOMAIN line = 1 .. Len(line) /\ DOMAIN line' = 1 .. Len(line) + 1
        /\ \A i \in 1 .. Len(line) : line'[i] = line[i]
        /\ line'[Len(line) + 1] = p
    BY <1>1
  <2>2. \A i \in DOMAIN line' : i \in DOMAIN line \/ i = Len(line) + 1
    BY <1>1, <2>1
  <2>3. DOMAIN line \subseteq DOMAIN line' /\ Len(line) + 1 \in DOMAIN line'
    BY <1>1, <2>1
  <2> QED
    BY <2>1, <2>2, <2>3 DEF Service!Waiting
<1>4. Service!Taken' = Service!Taken
  BY <1>1 DEF Service!Taken
<1> QED
  BY <1>1, <1>2, <1>3, <1>4 DEF Service!Inside

\* Taking a payload moves it within.
LEMMA TakeStaysInside ==
  ASSUME PipelineTypeOK, NEW w \in Workers, Service!Take(w)
  PROVE  /\ line' \in Seq(Payloads) /\ Len(line') <= BufferSize
         /\ busy' \in [Workers -> Payloads \union {NoPayload}]
         /\ Service!Inside' = Service!Inside
         /\ UNCHANGED <<stored, dropped>>
<1> DEFINE h == Head(line)
<1>1. /\ line \in Seq(Payloads) /\ line # <<>> /\ Len(line) \in Nat \ {0}
      /\ h \in Payloads /\ line' = Tail(line) /\ Len(line) <= BufferSize
      /\ busy' = [busy EXCEPT ![w] = h] /\ busy[w] = NoPayload
      /\ busy \in [Workers -> Payloads \union {NoPayload}]
      /\ UNCHANGED <<stored, dropped>>
  BY DEF PipelineTypeOK, Service!Take
<1>2. /\ line' \in Seq(Payloads) /\ Len(line') = Len(line) - 1
      /\ DOMAIN line = 1 .. Len(line) /\ DOMAIN line' = 1 .. Len(line) - 1
      /\ \A i \in 1 .. Len(line) - 1 : line'[i] = line[i + 1]
      /\ line[1] = h
  BY <1>1
<1>3. Len(line') <= BufferSize
  BY <1>1, <1>2, PipelineAssumption
<1>4. h # NoPayload
  BY <1>1, AgentAssumption DEF NoPayload
<1> HIDE DEF h
<1>5. Service!Waiting = Service!Waiting' \union {h}
  <2>1. 1 \in DOMAIN line /\ \A i \in DOMAIN line' : i + 1 \in DOMAIN line
    BY <1>1, <1>2
  <2>2. \A i \in DOMAIN line : i = 1 \/ (i - 1 \in DOMAIN line' /\ line'[i - 1] = line[i])
    BY <1>1, <1>2
  <2>3. ASSUME NEW i \in DOMAIN line PROVE line[i] \in Service!Waiting' \union {h}
    <3>1. CASE i = 1
      BY <1>2, <3>1
    <3>2. CASE i # 1
      BY <2>2, <3>2 DEF Service!Waiting
    <3> QED
      BY <3>1, <3>2
  <2>4. ASSUME NEW i \in DOMAIN line' PROVE line'[i] \in Service!Waiting
    BY <1>2, <2>1 DEF Service!Waiting
  <2>5. h \in Service!Waiting
    BY <1>2, <2>1 DEF Service!Waiting
  <2> QED
    BY <2>3, <2>4, <2>5 DEF Service!Waiting
<1>6. Service!Taken' = Service!Taken \union {h}
  BY <1>1, <1>4 DEF Service!Taken
<1> QED
  BY <1>1, <1>2, <1>3, <1>5, <1>6 DEF Service!Inside

\* What a worker is through with is settled, and nothing else leaves.
LEMMA SettledLeaves ==
  ASSUME PipelineTypeOK, NEW w \in Workers, busy[w] # NoPayload,
         busy' = [busy EXCEPT ![w] = NoPayload], line' = line
  PROVE  /\ busy[w] \in Payloads
         /\ busy' \in [Workers -> Payloads \union {NoPayload}]
         /\ Service!Inside = Service!Inside' \union {busy[w]}
<1>1. busy \in [Workers -> Payloads \union {NoPayload}]
  BY DEF PipelineTypeOK
<1>2. Service!Taken = Service!Taken' \union {busy[w]}
  BY <1>1 DEF Service!Taken
<1>3. Service!Waiting' = Service!Waiting
  BY DEF Service!Waiting
<1> QED
  BY <1>1, <1>2, <1>3 DEF Service!Inside

\* Nothing is left in a process that has ended.
LEMMA VanishEmpties ==
  ASSUME Service!Vanish
  PROVE  Service!Inside' = {}
BY DEF Service!Vanish, Service!Inside, Service!Waiting, Service!Taken, Service!Idle

-----------------------------------------------------------------------------
(* Both halves together.                                                   *)

LEMMA CustodyInvInit == PipelineInit => CustodyInv
<1> SUFFICES ASSUME PipelineInit PROVE CustodyInv
  OBVIOUS
<1>1. AgentInv
  BY ShapeInit, BooksInit, SnapshotInit, AnswersInit DEF PipelineInit, AgentInv
<1>2. /\ line = <<>> /\ busy = [w \in Workers |-> NoPayload]
      /\ stored = {} /\ dropped = {} /\ accepted = {}
      /\ row = NoPayload /\ overtaken = {} /\ deferred = {}
  BY DEF PipelineInit, Init, Service!Init, Service!Idle
<1>3. line \in Seq(Payloads) /\ Len(line) <= BufferSize
  <2>1. <<>> \in Seq(Payloads) /\ Len(<<>>) = 0
    OBVIOUS
  <2> QED
    BY <1>2, <2>1, PipelineAssumption
<1>4. Backed
  BY <1>2 DEF Backed, Service!Inside, Service!Waiting, Service!Taken
<1> QED
  BY <1>1, <1>2, <1>3, <1>4 DEF CustodyInv, PipelineTypeOK

\* The books of who overtook whom hold payloads.
LEMMA HistoryType ==
  ASSUME AgentInv, AgentInv', PipelineTypeOK, PipelineNext
  PROVE  deferred' \subseteq Payloads /\ overtaken' \subseteq Payloads
<1>1. PayloadsOf(rows') \subseteq Payloads /\ late' \subseteq Payloads
  BY DEF AgentInv, Shape, TypeOK, QueueTypeOK, LedgerTypeOK, PayloadsOf, Row
<1>2. Remember => deferred' \subseteq Payloads
  BY <1>1 DEF Remember, PipelineTypeOK
<1>3. \A held \in SUBSET Payloads : \A p : Pass(held, p) => overtaken' \subseteq Payloads
  BY DEF Pass, PipelineTypeOK
<1>4. Held(Scanners) \subseteq Payloads
  BY Kinds DEF AgentInv, Shape, TypeOK, SendingTypeOK, Held
<1>5. Service!Taken \subseteq Payloads
  BY DEF PipelineTypeOK, Service!Taken
<1>6. UNCHANGED overtaken => overtaken' \subseteq Payloads
  BY DEF PipelineTypeOK
<1>7. UNCHANGED deferred => deferred' \subseteq Payloads
  BY DEF PipelineTypeOK
<1>8. CASE Alone(AgentStep)
  BY <1>2, <1>6, <1>8 DEF Alone
<1>9. ASSUME NEW s \in Senders, Answer(s) PROVE deferred' \subseteq Payloads /\ overtaken' \subseteq Payloads
  BY <1>2, <1>3, <1>4, <1>6, <1>9 DEF Answer, Enter, TurnAway
<1>10. ASSUME NEW p \in Payloads, EnterLate(p) \/ TurnAwayLate(p)
       PROVE  deferred' \subseteq Payloads /\ overtaken' \subseteq Payloads
  BY <1>2, <1>3, <1>4, <1>6, <1>10 DEF EnterLate, TurnAwayLate
<1>11. ASSUME NEW w \in Workers, Work(w) PROVE deferred' \subseteq Payloads /\ overtaken' \subseteq Payloads
  BY <1>3, <1>5, <1>6, <1>7, <1>11 DEF Work, TakeTask, Save, SaveFails, history
<1>12. CASE ServiceKilled
  BY <1>6, <1>7, <1>12 DEF ServiceKilled, history
<1> QED
  BY <1>8, <1>9, <1>10, <1>11, <1>12 DEF PipelineNext

\* What the service has is what the agent was told it has.
LEMMA ServiceHalf ==
  ASSUME AgentInv, PipelineTypeOK, Backed, PipelineNext
  PROVE  /\ line' \in Seq(Payloads) /\ Len(line') <= BufferSize
         /\ busy' \in [Workers -> Payloads \union {NoPayload}]
         /\ stored' \subseteq Payloads /\ dropped' \subseteq Payloads
         /\ row' \in Payloads \union {NoPayload}
         /\ Backed'
<1> DEFINE Goal == /\ line' \in Seq(Payloads) /\ Len(line') <= BufferSize
                   /\ busy' \in [Workers -> Payloads \union {NoPayload}]
                   /\ stored' \subseteq Payloads /\ dropped' \subseteq Payloads
                   /\ row' \in Payloads \union {NoPayload}
                   /\ Backed'
<1>1. ASSUME UNCHANGED <<line, busy, stored, dropped, row, accepted>> PROVE Goal
  BY <1>1 DEF PipelineTypeOK, Backed, Service!Inside, Service!Waiting, Service!Taken
\* Only Receive changes what is accepted, and only Receive lets a payload in.
<1>2. ASSUME NEW p \in Payloads, Service!Push(p), Receive(p), UNCHANGED row PROVE Goal
  <2>1. accepted' = accepted \union {p}
    BY <1>2 DEF Receive
  <2> QED
    BY <1>2, <2>1, PushEnters DEF PipelineTypeOK, Backed
<1>3. ASSUME NEW s \in Senders, Answer(s) PROVE Goal
  <2>1. CASE Enter(s)
    <3>1. hand[s] \in Payloads
      BY <2>1 DEF Enter, Accept, AgentInv, Shape, Grip, TypeOK, SendingTypeOK
    <3> QED
      BY <1>2, <2>1, <3>1 DEF Enter, Accept
  <2>2. CASE TurnAway(s)
    BY <1>1, <2>2 DEF TurnAway, Refuse, service, intake, backend
  <2> QED
    BY <1>3, <2>1, <2>2 DEF Answer
<1>4. ASSUME NEW p \in Payloads, EnterLate(p) \/ TurnAwayLate(p) PROVE Goal
  <2>1. CASE EnterLate(p)
    BY <1>2, <2>1 DEF EnterLate, LateArrival
  <2>2. CASE TurnAwayLate(p)
    BY <1>1, <2>2 DEF TurnAwayLate, service, intake
  <2> QED
    BY <1>4, <2>1, <2>2
<1>5. CASE Alone(AgentStep)
  <2>1. UNCHANGED accepted
    BY <1>5 DEF Alone, AgentStep, Collect, Transmit, Flush, backend, Start, Tick,
        ScanRequest, CollectOk, CollectFails, Transmitted, TransmitRefused,
        CacheOffline, Post, DoFails, PollTick, FlusherStop, FlushQuery,
        FlushCancelled, FlushSelect, FlushLoopDone, FlushOk, FlushBreak, FlushDelete,
        Exit, Crash, Halt, Signal, Shutdown, Flap, Disconnect
  <2> QED
    BY <1>1, <1>5, <2>1 DEF Alone, service, intake
<1>6. ASSUME UNCHANGED vars PROVE UNCHANGED accepted
  BY <1>6 DEF vars, backend
<1>7. ASSUME NEW w \in Workers, Work(w) PROVE Goal
  <2>1. CASE TakeTask(w)
    <3>1. Service!Take(w) /\ UNCHANGED <<accepted, row>>
      BY <1>6, <2>1 DEF TakeTask
    <3> QED
      BY <3>1, TakeStaysInside DEF PipelineTypeOK, Backed
  <2>2. CASE Save(w)
    <3>1. /\ busy[w] # NoPayload /\ busy' = [busy EXCEPT ![w] = NoPayload]
          /\ UNCHANGED <<line, dropped, accepted>>
          /\ stored' = stored \union {busy[w]} /\ row' = busy[w]
      BY <1>6, <2>2 DEF Save, Service!Store
    <3> QED
      BY <3>1, SettledLeaves DEF PipelineTypeOK, Backed
  <2>3. CASE SaveFails(w)
    <3>1. /\ busy[w] # NoPayload /\ busy' = [busy EXCEPT ![w] = NoPayload]
          /\ UNCHANGED <<line, stored, accepted, row>>
          /\ dropped' = dropped \union {busy[w]}
      BY <1>6, <2>3 DEF SaveFails, Service!Drop
    <3> QED
      BY <3>1, SettledLeaves DEF PipelineTypeOK, Backed
  <2> QED
    BY <1>7, <2>1, <2>2, <2>3 DEF Work
<1>8. CASE ServiceKilled
  <2>1. /\ dropped' = dropped \union Service!Inside
        /\ line' = <<>> /\ busy' = [w \in Workers |-> NoPayload]
        /\ UNCHANGED <<stored, row, accepted>>
        /\ Service!Inside' = {}
    BY <1>6, <1>8, VanishEmpties DEF ServiceKilled, Service!Vanish, Service!Idle
  <2>2. <<>> \in Seq(Payloads) /\ Len(<<>>) <= BufferSize
    <3>1. <<>> \in Seq(Payloads) /\ Len(<<>>) = 0
      OBVIOUS
    <3> QED
      BY <3>1, PipelineAssumption
  <2>3. Service!Inside \subseteq Payloads
    BY DEF PipelineTypeOK, Service!Inside, Service!Waiting, Service!Taken
  <2> QED
    BY <2>1, <2>2, <2>3 DEF PipelineTypeOK, Backed
<1> QED
  BY <1>3, <1>4, <1>5, <1>7, <1>8 DEF PipelineNext

LEMMA CustodyInvStep == CustodyInv /\ [PipelineNext]_pipelineVars => CustodyInv'
<1> SUFFICES ASSUME CustodyInv, [PipelineNext]_pipelineVars PROVE CustodyInv'
  OBVIOUS
<1>1. AgentInv /\ PipelineTypeOK /\ Backed
  BY DEF CustodyInv
<1>2. AgentInv'
  BY <1>1, AgentHalf
<1>3. CASE PipelineNext
  BY <1>1, <1>2, <1>3, ServiceHalf, HistoryType DEF CustodyInv, PipelineTypeOK
<1>4. CASE UNCHANGED pipelineVars
  <2>1. UNCHANGED <<line, busy, stored, dropped, row, overtaken, deferred, accepted>>
    BY <1>4 DEF pipelineVars, vars, backend, service, intake, history
  <2> QED
    BY <1>1, <1>2, <2>1 DEF CustodyInv, PipelineTypeOK, Backed,
                            Service!Inside, Service!Waiting, Service!Taken
<1> QED
  BY <1>3, <1>4

LEMMA CustodyInvHolds == PipelineSpec => []CustodyInv
BY CustodyInvInit, CustodyInvStep, PTL DEF PipelineSpec

\* Line, workers and row keep their types, and the line its limit, whatever
\* agent and service do to each other.
THEOREM PipelineTypeCorrect == PipelineSpec => []PipelineTypeOK
<1>1. CustodyInv => PipelineTypeOK
  BY DEF CustodyInv
<1> QED
  BY <1>1, CustodyInvHolds, PTL

\* From RunOneShot to SaveDevice no payload goes missing between the agent and
\* the service: what the agent no longer has the service has, or has settled, or
\* one of the two lost it in a way it names.
THEOREM PipelineEndToEnd == PipelineSpec => []EndToEnd
<1>1. CustodyInv => EndToEnd
  BY DEF CustodyInv, Backed, AgentInv, NoSilentLoss, EndToEnd
<1> QED
  BY <1>1, CustodyInvHolds, PTL

-----------------------------------------------------------------------------
(* Who may be older than whom.                                             *)

LEMMA OrderInvInit == PipelineInit => OrderInv
<1> SUFFICES ASSUME PipelineInit PROVE OrderInv
  OBVIOUS
<1>1. /\ line = <<>> /\ busy = [w \in Workers |-> NoPayload]
      /\ accepted = {} /\ row = NoPayload /\ rows = {} /\ late = {}
  BY DEF PipelineInit, Init, QueueInit, Service!Init, Service!Idle
<1>2. Service!Waiting = {} /\ Service!Taken = {}
  BY <1>1 DEF Service!Waiting, Service!Taken
<1>3. Outside
  BY <1>1 DEF Outside, PayloadsOf
<1>4. InLine
  BY <1>1 DEF InLine
<1> QED
  BY <1>1, <1>2, <1>3, <1>4 DEF OrderInv, Behind, PastRow, Service!Inside

\* Nobody's excuse is taken back.
LEMMA ExcusesStay ==
  ASSUME PipelineNext
  PROVE  Excused \subseteq Excused'
<1>1. Remember /\ UNCHANGED overtaken => Excused \subseteq Excused'
  BY DEF Remember, Excused
<1>2. \A held, p : Remember /\ Pass(held, p) => Excused \subseteq Excused'
  BY DEF Remember, Pass, Excused
<1>3. \A held, p : UNCHANGED deferred /\ Pass(held, p) => Excused \subseteq Excused'
  BY DEF Pass, Excused
<1>4. UNCHANGED history => Excused \subseteq Excused'
  BY DEF history, Excused
<1> QED
  BY <1>1, <1>2, <1>3, <1>4
  DEF PipelineNext, Alone, Answer, Enter, TurnAway, EnterLate, TurnAwayLate,
      Work, TakeTask, Save, SaveFails, ServiceKilled

\* The agent's own steps put only the newest payload into anybody's hand.
LEMMA NewHandIsNewest ==
  ASSUME AgentInv, AgentStep
  PROVE  Held(Scanners)' \subseteq Held(Scanners) \union {scans + 1} /\ accepted' = accepted
<1>0. accepted' = accepted
  BY DEF AgentStep, Collect, Transmit, Flush, backend, Start, Tick,
      ScanRequest, CollectOk, CollectFails, Transmitted, TransmitRefused,
      CacheOffline, Post, DoFails, PollTick, FlusherStop, FlushQuery,
      FlushCancelled, FlushSelect, FlushLoopDone, FlushOk, FlushBreak, FlushDelete,
      Exit, Crash, Halt, Signal, Shutdown, Flap, Disconnect
<1>1. hand \in [Senders -> Payloads \union {NoPayload}] /\ Scanners \subseteq Senders
      /\ Flusher \notin Scanners
  BY AgentAssumption DEF AgentInv, Shape, TypeOK, SendingTypeOK, Senders
<1> DEFINE Kept == \A s \in Scanners : hand'[s] \in {hand[s], NoPayload, scans + 1}
<1>2. ASSUME \E m \in Modes, c, q \in BOOLEAN : Start(m, c, q) PROVE Kept
  BY <1>1, <1>2 DEF Start
<1>3. ASSUME Tick \/ Shutdown \/ Signal \/ Flap PROVE Kept
  BY <1>1, <1>3 DEF Tick, Shutdown, Signal, Flap
<1>4. ASSUME \E h \in Handlers : ScanRequest(h) \/ Disconnect(h) PROVE Kept
  BY <1>1, <1>4 DEF ScanRequest, Disconnect
<1>5. ASSUME NEW t \in Scanners, Collect(t) \/ Transmit(t) PROVE Kept
  BY <1>1, <1>5 DEF Collect, CollectOk, CollectFails, Transmit, Transmitted, TransmitRefused,
                    CacheOffline, LetGo
<1>6. ASSUME NEW t \in Senders, Post(t) \/ DoFails(t) PROVE Kept
  BY <1>1, <1>6 DEF Post, DoFails, LetGo
<1>7. ASSUME Flush PROVE Kept
  BY <1>1, <1>7 DEF Flush, PollTick, FlusherStop, FlushQuery, FlushCancelled, FlushSelect,
                    FlushLoopDone, FlushOk, FlushBreak, FlushDelete, LetGo
<1>8. ASSUME Exit \/ Crash PROVE Kept
  BY <1>1, <1>8 DEF Exit, Crash, Halt
<1>9. Kept
  BY <1>2, <1>3, <1>4, <1>5, <1>6, <1>7, <1>8 DEF AgentStep
<1> QED
  BY <1>0, <1>9 DEF Held

LEMMA OutsideStep ==
  ASSUME CustodyInv, CustodyInv', Outside, PipelineNext
  PROVE  Outside'
<1>1. PayloadsOf(rows)' \union late' \subseteq deferred'
  <2>1. CASE Remember
    BY <2>1 DEF Remember, PayloadsOf
  <2>2. CASE UNCHANGED <<vars, deferred>>
    BY <2>2 DEF Outside, vars, store, backend, PayloadsOf
  <2> QED
    BY <2>1, <2>2
    DEF PipelineNext, Alone, Answer, Enter, TurnAway, EnterLate, TurnAwayLate,
        Work, TakeTask, Save, SaveFails, ServiceKilled, history
<1>2. \A p \in Held(Scanners)', q \in accepted' : p < q => p \in Excused'
  <2> SUFFICES ASSUME NEW p \in Held(Scanners)', NEW q \in accepted', p < q
               PROVE  p \in Excused'
    OBVIOUS
  <2>1. ASSUME p \in Held(Scanners), q \in accepted PROVE p \in Excused'
    BY <2>1, ExcusesStay DEF Outside
  <2>2. CASE Alone(AgentStep)
    <3>1. p \in Held(Scanners) \union {scans + 1} /\ q \in accepted
      BY <2>2, NewHandIsNewest DEF Alone, CustodyInv
    <3>2. q <= scans /\ q \in Nat /\ scans \in Nat
      BY <3>1, Kinds DEF CustodyInv, AgentInv, Books, Known, Shape, TypeOK, LedgerTypeOK
    <3>3. p # scans + 1
      BY <3>2
    <3> QED
      BY <2>1, <3>1, <3>3
  <2>3. ASSUME NEW n \in Payloads, Receive(n), UNCHANGED hand, Pass(Held(Scanners), n)
        PROVE  p \in Excused'
    <3>1. p \in Held(Scanners) /\ q \in accepted \union {n}
      BY <2>3 DEF Held, Receive
    <3>2. CASE q = n
      BY <2>3, <3>1, <3>2 DEF Pass, Excused
    <3> QED
      BY <2>1, <3>1, <3>2
  <2>4. ASSUME NEW t \in Senders, Answer(t) PROVE p \in Excused'
    <3>1. CASE Enter(t)
      <4>1. hand[t] \in Payloads
        BY <3>1 DEF Enter, Accept, CustodyInv, AgentInv, Shape, Grip, TypeOK, SendingTypeOK
      <4> QED
        BY <2>3, <3>1, <4>1 DEF Enter, Accept
    <3>2. CASE TurnAway(t)
      BY <2>1, <3>2 DEF TurnAway, Refuse, backend, Held
    <3> QED
      BY <2>4, <3>1, <3>2 DEF Answer
  <2>5. ASSUME NEW n \in Payloads, EnterLate(n) \/ TurnAwayLate(n) PROVE p \in Excused'
    <3>1. CASE EnterLate(n)
      BY <2>3, <3>1 DEF EnterLate, LateArrival
    <3>2. CASE TurnAwayLate(n)
      BY <2>1, <3>2 DEF TurnAwayLate, Held
    <3> QED
      BY <2>5, <3>1, <3>2
  <2>6. ASSUME UNCHANGED vars PROVE p \in Excused'
    BY <2>1, <2>6 DEF vars, backend, Held
  <2> QED
    BY <2>2, <2>4, <2>5, <2>6
    DEF PipelineNext, Work, TakeTask, Save, SaveFails, ServiceKilled
<1> QED
  BY <1>1, <1>2 DEF Outside

\* A payload may come in behind whatever is inside if it is excused for all of it.
LEMMA PushKeepsOrder ==
  ASSUME CustodyInv, OrderInv, Excused \subseteq Excused',
         NEW n \in Payloads, Service!Push(n), UNCHANGED row,
         \A q \in accepted : n < q => n \in Excused'
  PROVE  InLine' /\ Behind' /\ PastRow'
<1>1. /\ line \in Seq(Payloads) /\ Len(line) \in Nat /\ line' = Append(line, n)
      /\ UNCHANGED <<busy, stored, dropped, row>>
      /\ \A i \in 1 .. Len(line) : line'[i] = line[i]
      /\ line'[Len(line) + 1] = n /\ Len(line') = Len(line) + 1
      /\ DOMAIN line = 1 .. Len(line)
  BY DEF CustodyInv, PipelineTypeOK, Service!Push
<1>2. \A i \in 1 .. Len(line) : line[i] \in accepted
  BY <1>1 DEF CustodyInv, Backed, Service!Inside, Service!Waiting
<1>3. Service!Taken \subseteq accepted /\ (row # NoPayload => row \in accepted)
  BY DEF CustodyInv, Backed, Service!Inside, OrderInv, PastRow
<1>4. Service!Waiting' \subseteq Service!Waiting \union {n} /\ Service!Taken' = Service!Taken
      /\ Service!Inside' = Service!Inside \union {n}
  <2>1. ASSUME NEW i \in DOMAIN line' PROVE line'[i] \in Service!Waiting \union {n}
    <3>1. i \in DOMAIN line \/ i = Len(line) + 1
      BY <1>1
    <3> QED
      BY <1>1, <3>1 DEF Service!Waiting
  <2> QED
    BY <1>1, <2>1, PushEnters DEF Service!Waiting, Service!Taken, CustodyInv
<1>5. InLine'
  <2> SUFFICES ASSUME NEW i \in 1 .. Len(line'), NEW j \in 1 .. Len(line'),
                      i < j, line'[j] < line'[i]
               PROVE  line'[j] \in Excused'
    BY DEF InLine
  <2>1. i \in 1 .. Len(line) /\ line'[i] = line[i]
    BY <1>1
  <2>2. CASE j \in 1 .. Len(line)
    BY <1>1, <2>1, <2>2 DEF OrderInv, InLine
  <2>3. CASE j = Len(line) + 1
    BY <1>1, <1>2, <2>1, <2>3
  <2> QED
    BY <1>1, <2>2, <2>3
<1>6. Behind'
  BY <1>3, <1>4 DEF OrderInv, Behind
<1>7. PastRow'
  <2>1. ASSUME n < row PROVE n \in Excused'
    <3>1. row # NoPayload
      BY <2>1, Kinds
    <3> QED
      BY <1>3, <2>1, <3>1
  <2> QED
    BY <1>1, <1>4, <2>1 DEF OrderInv, PastRow
<1> QED
  BY <1>5, <1>6, <1>7

\* The line keeps its order when its first goes to a worker.
LEMMA TakeKeepsOrder ==
  ASSUME CustodyInv, OrderInv, Excused \subseteq Excused',
         NEW w \in Workers, Service!Take(w), UNCHANGED row
  PROVE  InLine' /\ Behind' /\ PastRow'
<1> DEFINE h == Head(line)
<1>1. /\ line \in Seq(Payloads) /\ Len(line) \in Nat \ {0} /\ h = line[1]
      /\ line' = Tail(line) /\ Len(line') = Len(line) - 1
      /\ \A i \in 1 .. Len(line) - 1 : line'[i] = line[i + 1]
      /\ DOMAIN line' = 1 .. Len(line) - 1 /\ DOMAIN line = 1 .. Len(line)
      /\ busy' = [busy EXCEPT ![w] = h] /\ UNCHANGED stored
      /\ busy \in [Workers -> Payloads \union {NoPayload}]
  BY DEF CustodyInv, PipelineTypeOK, Service!Take
<1> HIDE DEF h
<1>2. Service!Taken' \subseteq Service!Taken \union {h}
  BY <1>1 DEF Service!Taken
<1>3. InLine'
  <2> SUFFICES ASSUME NEW i \in 1 .. Len(line'), NEW j \in 1 .. Len(line'),
                      i < j, line'[j] < line'[i]
               PROVE  line'[j] \in Excused'
    BY DEF InLine
  <2>1. /\ i + 1 \in 1 .. Len(line) /\ j + 1 \in 1 .. Len(line) /\ i + 1 < j + 1
        /\ line'[i] = line[i + 1] /\ line'[j] = line[j + 1]
    BY <1>1
  <2> QED
    BY <2>1 DEF OrderInv, InLine
<1>4. Behind'
  <2> SUFFICES ASSUME NEW p \in Service!Waiting', NEW q \in Service!Taken', p < q
               PROVE  p \in Excused'
    BY DEF Behind
  <2>1. PICK j \in DOMAIN line' : p = line'[j]
    BY DEF Service!Waiting
  <2>2. j + 1 \in 1 .. Len(line) /\ 1 < j + 1 /\ p = line[j + 1] /\ 1 \in 1 .. Len(line)
    BY <1>1, <2>1
  <2>3. CASE q = h
    BY <1>1, <2>2, <2>3 DEF OrderInv, InLine
  <2>4. CASE q \in Service!Taken
    BY <1>1, <2>2, <2>4 DEF OrderInv, Behind, Service!Waiting
  <2> QED
    BY <1>2, <2>3, <2>4
<1>5. PastRow'
  BY <1>1, TakeStaysInside DEF OrderInv, PastRow, CustodyInv
<1> QED
  BY <1>3, <1>4, <1>5

\* A worker that is through leaves fewer behind it, and a row that is committed
\* has gone past what the other workers have.
LEMMA SettleKeepsOrder ==
  ASSUME CustodyInv, OrderInv, Excused \subseteq Excused',
         NEW w \in Workers, busy[w] # NoPayload,
         busy' = [busy EXCEPT ![w] = NoPayload], line' = line,
         \/ UNCHANGED <<row, stored>>
         \/ /\ row' = busy[w] /\ stored' = stored \union {busy[w]}
            /\ Pass(Service!Taken, busy[w])
  PROVE  InLine' /\ Behind' /\ PastRow'
<1>1. busy \in [Workers -> Payloads \union {NoPayload}]
  BY DEF CustodyInv, PipelineTypeOK
<1>2. /\ Service!Taken' \subseteq Service!Taken /\ busy[w] \in Service!Taken
      /\ Service!Waiting' = Service!Waiting
  BY <1>1 DEF Service!Taken, Service!Waiting
<1>3. InLine' /\ Behind'
  BY <1>2 DEF OrderInv, InLine, Behind
<1>4. PastRow'
  <2>1. CASE UNCHANGED <<row, stored>>
    BY <1>2, <2>1 DEF OrderInv, PastRow, Service!Inside
  <2>2. CASE /\ row' = busy[w] /\ stored' = stored \union {busy[w]}
             /\ Pass(Service!Taken, busy[w])
    <3>1. ASSUME NEW p \in Service!Waiting, p < busy[w] PROVE p \in Excused'
      BY <1>2, <3>1 DEF OrderInv, Behind
    <3>2. ASSUME NEW p \in Service!Taken, p < busy[w] PROVE p \in Excused'
      BY <2>2, <3>2 DEF Pass, Excused
    <3> QED
      BY <1>2, <2>2, <3>1, <3>2 DEF PastRow, Service!Inside
  <2> QED
    BY <2>1, <2>2
<1> QED
  BY <1>3, <1>4

LEMMA OrderInvStep ==
  ASSUME CustodyInv, CustodyInv', OrderInv, PipelineNext
  PROVE  OrderInv'
<1> DEFINE Goal == InLine' /\ Behind' /\ PastRow'
<1>0. Excused \subseteq Excused'
  BY ExcusesStay
<1>1. ASSUME UNCHANGED service PROVE Goal
  <2>1. UNCHANGED <<line, busy, stored, row>>
    BY <1>1 DEF service, intake
  <2> QED
    BY <1>0, <2>1 DEF OrderInv, InLine, Behind, PastRow,
                      Service!Inside, Service!Waiting, Service!Taken
<1>2. ASSUME NEW t \in Senders, Answer(t) PROVE Goal
  <2>1. CASE Enter(t)
    <3>1. hand[t] \in Payloads /\ wire[t] = "sent" /\ pc[t] = "wait"
      BY <2>1 DEF Enter, Accept, CustodyInv, AgentInv, Shape, Grip, TypeOK, SendingTypeOK
    <3>2. ASSUME NEW q \in accepted, hand[t] < q PROVE hand[t] \in Excused
      <4>1. CASE t \in Scanners
        <5>1. hand[t] \in Held(Scanners)
          BY <3>1, <4>1, Kinds DEF Held
        <5> QED
          BY <3>2, <5>1 DEF OrderInv, Outside
      <4>2. CASE t = Flusher
        <5>1. hand[t] \in PayloadsOf(rows)
          BY <3>1, <4>2 DEF CustodyInv, AgentInv, SnapshotInOrder, PayloadsOf
        <5> QED
          BY <5>1 DEF OrderInv, Outside, Excused
      <4> QED
        BY <4>1, <4>2 DEF Senders
    <3> QED
      BY <1>0, <2>1, <3>1, <3>2, PushKeepsOrder DEF Enter
  <2>2. CASE TurnAway(t)
    BY <1>1, <2>2 DEF TurnAway
  <2> QED
    BY <1>2, <2>1, <2>2 DEF Answer
<1>3. ASSUME NEW n \in Payloads, EnterLate(n) \/ TurnAwayLate(n) PROVE Goal
  <2>1. CASE EnterLate(n)
    <3>1. n \in Excused
      BY <2>1 DEF EnterLate, LateArrival, OrderInv, Outside, Excused
    <3> QED
      BY <1>0, <2>1, <3>1, PushKeepsOrder DEF EnterLate
  <2>2. CASE TurnAwayLate(n)
    BY <1>1, <2>2 DEF TurnAwayLate
  <2> QED
    BY <1>3, <2>1, <2>2
<1>4. ASSUME NEW w \in Workers, Work(w) PROVE Goal
  <2>1. CASE TakeTask(w)
    BY <1>0, <2>1, TakeKeepsOrder DEF TakeTask
  <2>2. CASE Save(w)
    BY <1>0, <2>2, SettleKeepsOrder DEF Save, Service!Store
  <2>3. CASE SaveFails(w)
    BY <1>0, <2>3, SettleKeepsOrder DEF SaveFails, Service!Drop
  <2> QED
    BY <1>4, <2>1, <2>2, <2>3 DEF Work
<1>5. ASSUME ServiceKilled PROVE Goal
  <2>1. /\ line' = <<>> /\ busy' = [w \in Workers |-> NoPayload]
        /\ UNCHANGED <<stored, row>>
    BY <1>5 DEF ServiceKilled, Service!Vanish, Service!Idle
  <2>2. Service!Waiting' = {} /\ Service!Taken' = {} /\ Len(line') = 0
    BY <2>1 DEF Service!Waiting, Service!Taken
  <2> QED
    BY <2>1, <2>2 DEF OrderInv, InLine, Behind, PastRow, Service!Inside
<1>6. ASSUME Alone(AgentStep) PROVE Goal
  BY <1>1, <1>6 DEF Alone
<1>7. Goal
  BY <1>2, <1>3, <1>4, <1>5, <1>6 DEF PipelineNext
<1> QED
  BY <1>7, OutsideStep DEF OrderInv

LEMMA OrderInvHolds == PipelineSpec => [](CustodyInv /\ OrderInv)
<1>1. CustodyInv /\ OrderInv /\ [PipelineNext]_pipelineVars => OrderInv'
  <2> SUFFICES ASSUME CustodyInv, OrderInv, [PipelineNext]_pipelineVars PROVE OrderInv'
    OBVIOUS
  <2>1. CASE PipelineNext
    BY <2>1, CustodyInvStep, OrderInvStep
  <2>2. CASE UNCHANGED pipelineVars
    <3>1. UNCHANGED <<line, busy, stored, row, deferred, overtaken, rows, late, hand, accepted>>
      BY <2>2 DEF pipelineVars, vars, store, backend, service, intake, history
    <3> QED
      BY <3>1 DEF OrderInv, Outside, InLine, Behind, PastRow, Excused, Held, PayloadsOf,
                  Service!Inside, Service!Waiting, Service!Taken
  <2> QED
    BY <2>1, <2>2
<1> QED
  BY <1>1, OrderInvInit, CustodyInvHolds, PTL DEF PipelineSpec

\* The devices row of SaveDevice goes back to an older payload only if that one
\* was cached or late, or in the hands of another worker or -ui handler when the
\* newer one went past: the channel, the answers and main's loop swap nothing.
THEOREM PipelineRowGoesBackOnly == PipelineSpec => RowGoesBackOnly
<1>1. CustodyInv /\ OrderInv /\ [PipelineNext]_pipelineVars =>
        [row' < row => row' \in deferred \union overtaken]_pipelineVars
  <2> SUFFICES ASSUME CustodyInv, OrderInv, PipelineNext, row' < row
               PROVE  row' \in deferred \union overtaken
    OBVIOUS
  <2>1. ~UNCHANGED row
    BY Kinds DEF CustodyInv, PipelineTypeOK
  <2>2. PICK w \in Workers : Save(w)
    BY <2>1 DEF PipelineNext, Alone, Answer, Enter, TurnAway, EnterLate, TurnAwayLate, service,
                Work, TakeTask, SaveFails, ServiceKilled
  <2>3. row' = busy[w] /\ busy[w] \in Service!Inside
    BY <2>2 DEF Save, Service!Store, Service!Inside, Service!Taken
  <2> QED
    BY <2>3 DEF OrderInv, PastRow, Excused
<1> QED
  BY <1>1, OrderInvHolds, PTL DEF PipelineSpec, RowGoesBackOnly

-----------------------------------------------------------------------------
(* Who may be there twice.                                                 *)

LEMMA CopiesInvInit == PipelineInit => CopiesInv
<1> SUFFICES ASSUME PipelineInit PROVE CopiesInv
  OBVIOUS
<1>1. line = <<>> /\ busy = [w \in Workers |-> NoPayload]
  BY DEF PipelineInit, Service!Init, Service!Idle
<1>2. Service!Waiting = {} /\ Service!Taken = {} /\ Len(line) = 0
  BY <1>1 DEF Service!Waiting, Service!Taken
<1> QED
  BY <1>1, <1>2 DEF CopiesInv, LineApart, HandsApart, PlacesApart, Service!Inside

\* A payload that finds itself in the service has been accepted before.
LEMMA PushKeepsCopies ==
  ASSUME CustodyInv, CopiesInv, NEW n \in Payloads, Service!Push(n), Receive(n)
  PROVE  CopiesInv'
<1>1. /\ line \in Seq(Payloads) /\ Len(line) \in Nat /\ line' = Append(line, n)
      /\ UNCHANGED <<busy, stored, dropped>>
      /\ \A i \in 1 .. Len(line) : line'[i] = line[i]
      /\ line'[Len(line) + 1] = n /\ Len(line') = Len(line) + 1
      /\ DOMAIN line = 1 .. Len(line) /\ DOMAIN line' = 1 .. Len(line) + 1
  BY DEF CustodyInv, PipelineTypeOK, Service!Push
<1>2. accepted = Service!Inside \union stored \union dropped
  BY DEF CustodyInv, Backed
<1>3. again \subseteq again' /\ (n \in accepted => n \in again')
  BY DEF Receive
<1>4. Service!Waiting' \subseteq Service!Waiting \union {n} /\ Service!Taken' = Service!Taken
      /\ Service!Inside' = Service!Inside \union {n}
  <2>1. ASSUME NEW i \in DOMAIN line' PROVE line'[i] \in Service!Waiting \union {n}
    <3>1. i \in DOMAIN line \/ i = Len(line) + 1
      BY <1>1
    <3> QED
      BY <1>1, <3>1 DEF Service!Waiting
  <2> QED
    BY <1>1, <2>1, PushEnters DEF Service!Waiting, Service!Taken, CustodyInv
<1>5. LineApart'
  <2>1. \A i \in 1 .. Len(line) : line[i] = n => n \in again'
    BY <1>1, <1>2, <1>3 DEF Service!Inside, Service!Waiting
  <2> SUFFICES ASSUME NEW i \in 1 .. Len(line'), NEW j \in 1 .. Len(line'),
                      i # j, line'[i] = line'[j]
               PROVE  line'[i] \in again'
    BY DEF LineApart
  <2>2. CASE i \in 1 .. Len(line) /\ j \in 1 .. Len(line)
    BY <1>1, <1>3, <2>2 DEF CopiesInv, LineApart
  <2>3. CASE i = Len(line) + 1 \/ j = Len(line) + 1
    BY <1>1, <2>1, <2>3
  <2> QED
    BY <1>1, <2>2, <2>3
<1>6. HandsApart'
  BY <1>1, <1>3 DEF CopiesInv, HandsApart
<1>7. PlacesApart'
  BY <1>1, <1>2, <1>3, <1>4 DEF CopiesInv, PlacesApart, Service!Inside
<1> QED
  BY <1>5, <1>6, <1>7 DEF CopiesInv

LEMMA TakeKeepsCopies ==
  ASSUME CustodyInv, CopiesInv, NEW w \in Workers, Service!Take(w), UNCHANGED again
  PROVE  CopiesInv'
<1> DEFINE h == Head(line)
<1>1. /\ line \in Seq(Payloads) /\ Len(line) \in Nat \ {0} /\ h = line[1]
      /\ line' = Tail(line) /\ Len(line') = Len(line) - 1
      /\ \A i \in 1 .. Len(line) - 1 : line'[i] = line[i + 1]
      /\ DOMAIN line' = 1 .. Len(line) - 1 /\ DOMAIN line = 1 .. Len(line)
      /\ busy' = [busy EXCEPT ![w] = h] /\ busy[w] = NoPayload /\ UNCHANGED <<stored, dropped>>
      /\ busy \in [Workers -> Payloads \union {NoPayload}]
  BY DEF CustodyInv, PipelineTypeOK, Service!Take
<1> HIDE DEF h
<1>2. h \in Service!Waiting
  BY <1>1 DEF Service!Waiting
<1>3. Service!Taken' \subseteq Service!Taken \union {h}
  BY <1>1 DEF Service!Taken
<1>4. \A p \in Service!Waiting' : \E j \in 2 .. Len(line) : p = line[j]
  <2> SUFFICES ASSUME NEW i \in DOMAIN line' PROVE \E j \in 2 .. Len(line) : line'[i] = line[j]
    BY DEF Service!Waiting
  <2>1. i + 1 \in 2 .. Len(line) /\ line'[i] = line[i + 1]
    BY <1>1
  <2> QED
    BY <2>1
<1>5. LineApart'
  <2> SUFFICES ASSUME NEW i \in 1 .. Len(line'), NEW j \in 1 .. Len(line'),
                      i # j, line'[i] = line'[j]
               PROVE  line'[i] \in again
    BY DEF LineApart
  <2>1. /\ i + 1 \in 1 .. Len(line) /\ j + 1 \in 1 .. Len(line) /\ i + 1 # j + 1
        /\ line'[i] = line[i + 1] /\ line'[j] = line[j + 1]
    BY <1>1
  <2> QED
    BY <2>1 DEF CopiesInv, LineApart
<1>6. HandsApart'
  <2>1. ASSUME NEW v \in Workers, busy[v] = h, busy[v] # NoPayload PROVE h \in again
    BY <1>2, <2>1 DEF CopiesInv, PlacesApart, Service!Taken
  <2> QED
    BY <1>1, <2>1 DEF CopiesInv, HandsApart
<1>7. Service!Waiting' \intersect Service!Taken' \subseteq again
  <2> SUFFICES ASSUME NEW p \in Service!Waiting', p \in Service!Taken' PROVE p \in again
    OBVIOUS
  <2>1. PICK j \in 2 .. Len(line) : p = line[j]
    BY <1>4
  <2>2. j \in 1 .. Len(line) /\ 1 \in 1 .. Len(line) /\ j # 1
    BY <1>1
  <2>3. CASE p = h
    BY <1>1, <2>1, <2>2, <2>3 DEF CopiesInv, LineApart
  <2>4. CASE p \in Service!Taken
    BY <1>1, <2>1, <2>2, <2>4 DEF CopiesInv, PlacesApart, Service!Waiting
  <2> QED
    BY <1>3, <2>3, <2>4
<1>8. PlacesApart'
  BY <1>7, TakeStaysInside DEF CopiesInv, PlacesApart, CustodyInv
<1> QED
  BY <1>5, <1>6, <1>8 DEF CopiesInv

\* What is still inside of a payload a worker is through with came in again.
LEMMA SettleKeepsCopies ==
  ASSUME CustodyInv, CopiesInv, NEW w \in Workers, busy[w] # NoPayload, UNCHANGED again,
         busy' = [busy EXCEPT ![w] = NoPayload], line' = line,
         stored' \union dropped' = (stored \union dropped) \union {busy[w]}
  PROVE  CopiesInv'
<1>1. busy \in [Workers -> Payloads \union {NoPayload}]
  BY DEF CustodyInv, PipelineTypeOK
<1>2. /\ Service!Taken' \subseteq Service!Taken /\ busy[w] \in Service!Taken
      /\ Service!Waiting' = Service!Waiting
  BY <1>1 DEF Service!Taken, Service!Waiting
<1>3. LineApart' /\ HandsApart'
  BY <1>1 DEF CopiesInv, LineApart, HandsApart
<1>4. ASSUME busy[w] \in Service!Taken' PROVE busy[w] \in again
  <2>1. PICK v \in Workers : busy'[v] = busy[w] /\ busy'[v] # NoPayload
    BY <1>4 DEF Service!Taken
  <2>2. v # w /\ busy[v] = busy[w]
    BY <1>1, <2>1
  <2> QED
    BY <2>2 DEF CopiesInv, HandsApart
<1>5. PlacesApart'
  BY <1>2, <1>4 DEF CopiesInv, PlacesApart, Service!Inside
<1> QED
  BY <1>3, <1>5 DEF CopiesInv

LEMMA CopiesInvStep ==
  ASSUME CustodyInv, CopiesInv, PipelineNext
  PROVE  CopiesInv'
<1>1. ASSUME UNCHANGED <<line, busy, stored, dropped, again>> PROVE CopiesInv'
  BY <1>1 DEF CopiesInv, LineApart, HandsApart, PlacesApart,
              Service!Inside, Service!Waiting, Service!Taken
<1>2. ASSUME NEW t \in Senders, Answer(t) PROVE CopiesInv'
  <2>1. CASE Enter(t)
    <3>1. hand[t] \in Payloads
      BY <2>1 DEF Enter, Accept, CustodyInv, AgentInv, Shape, Grip, TypeOK, SendingTypeOK
    <3> QED
      BY <2>1, <3>1, PushKeepsCopies DEF Enter, Accept
  <2>2. CASE TurnAway(t)
    BY <1>1, <2>2 DEF TurnAway, Refuse, backend, service, intake
  <2> QED
    BY <1>2, <2>1, <2>2 DEF Answer
<1>3. ASSUME NEW n \in Payloads, EnterLate(n) \/ TurnAwayLate(n) PROVE CopiesInv'
  <2>1. CASE EnterLate(n)
    BY <2>1, PushKeepsCopies DEF EnterLate, LateArrival
  <2>2. CASE TurnAwayLate(n)
    BY <1>1, <2>2 DEF TurnAwayLate, service, intake
  <2> QED
    BY <1>3, <2>1, <2>2
<1>4. ASSUME UNCHANGED vars PROVE UNCHANGED again
  BY <1>4 DEF vars, backend
<1>5. ASSUME NEW w \in Workers, Work(w) PROVE CopiesInv'
  <2>1. CASE TakeTask(w)
    BY <1>4, <2>1, TakeKeepsCopies DEF TakeTask
  <2>2. CASE Save(w)
    BY <1>4, <2>2, SettleKeepsCopies DEF Save, Service!Store
  <2>3. CASE SaveFails(w)
    BY <1>4, <2>3, SettleKeepsCopies DEF SaveFails, Service!Drop
  <2> QED
    BY <1>5, <2>1, <2>2, <2>3 DEF Work
<1>6. ASSUME ServiceKilled PROVE CopiesInv'
  <2>1. line' = <<>> /\ busy' = [w \in Workers |-> NoPayload]
    BY <1>6 DEF ServiceKilled, Service!Vanish, Service!Idle
  <2>2. Service!Waiting' = {} /\ Service!Taken' = {} /\ Len(line') = 0
    BY <2>1 DEF Service!Waiting, Service!Taken
  <2> QED
    BY <2>1, <2>2 DEF CopiesInv, LineApart, HandsApart, PlacesApart, Service!Inside
<1>7. ASSUME Alone(AgentStep) PROVE CopiesInv'
  <2>1. UNCHANGED again
    BY <1>7 DEF Alone, AgentStep, Collect, Transmit, Flush, backend, Start, Tick,
        ScanRequest, CollectOk, CollectFails, Transmitted, TransmitRefused,
        CacheOffline, Post, DoFails, PollTick, FlusherStop, FlushQuery,
        FlushCancelled, FlushSelect, FlushLoopDone, FlushOk, FlushBreak, FlushDelete,
        Exit, Crash, Halt, Signal, Shutdown, Flap, Disconnect
  <2> QED
    BY <1>1, <1>7, <2>1 DEF Alone, service, intake
<1> QED
  BY <1>2, <1>3, <1>5, <1>6, <1>7 DEF PipelineNext

\* The inductive invariant: the agent's, and what agent and service add to each
\* other's: whose payloads are where, which may be older than one that has gone
\* past, and which may be there twice.
THEOREM PipelineInvHolds == PipelineSpec => [](AgentInv /\ PipelineInv)
<1>1. CustodyInv /\ CopiesInv /\ [PipelineNext]_pipelineVars => CopiesInv'
  <2> SUFFICES ASSUME CopiesInv, UNCHANGED pipelineVars PROVE CopiesInv'
    BY CopiesInvStep
  <2>1. UNCHANGED <<line, busy, stored, dropped, again>>
    BY DEF pipelineVars, vars, backend, service, intake
  <2> QED
    BY <2>1 DEF CopiesInv, LineApart, HandsApart, PlacesApart,
                Service!Inside, Service!Waiting, Service!Taken
<1>2. CustodyInv /\ OrderInv /\ CopiesInv => AgentInv /\ PipelineInv
  BY DEF CustodyInv, PipelineInv
<1> QED
  BY <1>1, <1>2, CopiesInvInit, OrderInvHolds, PTL DEF PipelineSpec

\* SaveDevice writes a payload a second time only if the agent went on without
\* knowing an answer: neither restarts, nor a full buffer, nor workers running
\* side by side repeat one whose 2xx was read.
THEOREM PipelineSavesTwiceOnlyInDoubt == PipelineSpec => []SavedTwiceOnlyInDoubt
<1>1. AgentInv /\ PipelineInv => SavedTwiceOnlyInDoubt
  <2> SUFFICES ASSUME AgentInv, PipelineInv PROVE SavedTwiceOnlyInDoubt
    OBVIOUS
  <2>1. again \subseteq doubt
    BY DEF AgentInv, KnownOrDoubted, RepeatsOnlyInDoubt
  <2>2. ASSUME NEW w \in Workers, busy[w] \in stored PROVE busy[w] \in doubt
    <3>1. busy[w] # NoPayload
      BY <2>2, Kinds DEF PipelineInv, PipelineTypeOK
    <3>2. busy[w] \in Service!Inside
      BY <3>1 DEF Service!Inside, Service!Taken
    <3> QED
      BY <2>1, <2>2, <3>2 DEF PipelineInv, CopiesInv, PlacesApart
  <2>3. ASSUME NEW w \in Workers, NEW v \in Workers \ {w}, busy[v] = busy[w], busy[w] # NoPayload
        PROVE  busy[w] \in doubt
    BY <2>1, <2>3 DEF PipelineInv, CopiesInv, HandsApart
  <2> QED
    BY <2>2, <2>3 DEF SavedTwiceOnlyInDoubt
<1> QED
  BY <1>1, PipelineInvHolds, PTL

-----------------------------------------------------------------------------
(* The composition implements both abstract specifications.                *)

\* The agent keeps the promise of Outbox to the payloads it collects when its
\* backend is the ingestion service, with its full buffer and its restarts.
THEOREM PipelineKeepsPromise == PipelineSpec => KeepsPromise
<1>1. PipelineInit => Promise!Init
  BY PromiseInit DEF PipelineInit
<1>2. CustodyInv /\ [PipelineNext]_pipelineVars => [Promise!Next]_Promise!vars
  <2> SUFFICES ASSUME CustodyInv, [PipelineNext]_pipelineVars
               PROVE  [Promise!Next]_Promise!vars
    OBVIOUS
  <2>1. Sound
    BY DEF CustodyInv, AgentInv, Sound
  <2>2. ASSUME NEW p \in Payloads, TurnAwayLate(p) PROVE UNCHANGED Promise!vars
    BY <2>2, Stutter DEF TurnAwayLate, store
  <2>3. UNCHANGED pipelineVars => UNCHANGED vars
    BY DEF pipelineVars
  <2> QED
    BY <2>1, <2>2, <2>3, AgentMoves, StepKeepsPromise
<1> QED
  BY <1>1, <1>2, CustodyInvHolds, PTL DEF PipelineSpec, KeepsPromise, Promise!Spec
=============================================================================
