------------------------- MODULE TelemetryPipeline -------------------------
(***************************************************************************)
(* The endpoint agent and the ingestion service as one system: what the    *)
(* agent calls the backend (AgentDelivery) is here the service's bounded   *)
(* line and its workers (Intake), and behind them the devices row that     *)
(* every payload of this device overwrites (pkg/database, SaveDevice).     *)
(* The n-th scan yields payload n: a smaller number is an older state.     *)
(***************************************************************************)
EXTENDS AgentDelivery, Sequences

CONSTANTS Workers, BufferSize

ASSUME PipelineAssumption ==
  /\ Workers # {}
  /\ BufferSize \in Nat \ {0}

VARIABLES
  line, busy,          \* taskChan, and per worker the task it has
  stored, dropped,     \* payloads once committed; payloads that failed to be
  row,                 \* the payload in the devices row, NoPayload without one
  overtaken,           \* payloads somebody held while a newer one went past
  deferred             \* payloads that were cached or travelled late

intake       == <<line, busy, stored, dropped>>
service      == <<intake, row>>
history      == <<overtaken, deferred>>
pipelineVars == <<vars, service, history>>

Service == INSTANCE Intake WITH Tasks <- Payloads, NoTask <- NoPayload

PipelineTypeOK ==
  /\ line \in Seq(Payloads) /\ Len(line) <= BufferSize
  /\ busy \in [Workers -> Payloads \union {NoPayload}]
  /\ stored \subseteq Payloads /\ dropped \subseteq Payloads
  /\ row \in Payloads \union {NoPayload}
  /\ overtaken \subseteq Payloads /\ deferred \subseteq Payloads

PipelineInit ==
  /\ Init
  /\ Service!Init
  /\ row = NoPayload
  /\ overtaken = {} /\ deferred = {}

\* What deferred and overtaken record of a step.
Remember == deferred' = deferred \union PayloadsOf(rows') \union late'
Pass(held, p) == overtaken' = overtaken \union {q \in held : q < p}

-----------------------------------------------------------------------------
(* The agent's requests, answered by HandleTelemetry.                      *)

\* 202
Enter(s) ==
  /\ Accept(s)
  /\ Service!Push(hand[s])
  /\ Remember /\ Pass(Held(Scanners), hand[s])
  /\ UNCHANGED row

\* Mutant: the line is not asked whether it is full.
TurnAwayAnswersOk(s) ==
  /\ wire[s] = "sent" /\ up /\ Service!Full
  /\ wire' = [wire EXCEPT ![s] = "ok"]
  /\ Receive(hand[s])
  /\ UNCHANGED <<store, config, pc, hand, pass, signals, up, late, scans, doubt, lost>>
  /\ Remember
  /\ UNCHANGED <<service, overtaken>>

\* 503, or 400 for a payload it refuses whenever it comes.
TurnAway(s) ==
  /\ Refuse(s)
  /\ hand[s] \in Poison \/ Service!Full
  /\ Remember
  /\ UNCHANGED <<service, overtaken>>

\* Nobody is left to read the answer.
EnterLate(p) ==
  /\ LateArrival(p)
  /\ Service!Push(p)
  /\ Remember /\ Pass(Held(Scanners), p)
  /\ UNCHANGED row

TurnAwayLate(p) ==
  /\ p \in late /\ Service!Full
  /\ late' = late \ {p}
  /\ UNCHANGED <<store, config, pc, hand, wire, pass, signals, up, accepted, again,
                 scans, doubt, lost>>
  /\ Remember
  /\ UNCHANGED <<service, overtaken>>

-----------------------------------------------------------------------------
(* The workers.                                                            *)

TakeTask(w) ==
  /\ Service!Take(w)
  /\ UNCHANGED <<vars, row, history>>

\* ON CONFLICT DO UPDATE: the last to commit wins, whatever was there before.
Save(w) ==
  /\ Service!Store(w)
  /\ row' = busy[w]
  /\ Pass(Service!Taken, busy[w])
  /\ UNCHANGED <<vars, deferred>>

SaveFails(w) ==
  /\ Service!Drop(w)
  /\ UNCHANGED <<vars, row, history>>

\* The service is killed and started again.
ServiceKilled ==
  /\ "crash" \in Faults
  /\ Service!Vanish
  /\ UNCHANGED <<vars, row, history>>

-----------------------------------------------------------------------------
\* A step of the agent on its own.
Alone(A) == A /\ Remember /\ UNCHANGED <<service, overtaken>>

AgentStep ==
  \/ \E m \in Modes, c, q \in BOOLEAN : Start(m, c, q)
  \/ Tick
  \/ \E h \in Handlers : ScanRequest(h) \/ Disconnect(h)
  \/ \E s \in Scanners : Collect(s) \/ Transmit(s)
  \/ \E s \in Senders : Post(s) \/ DoFails(s)
  \/ Flush \/ Shutdown \/ Exit
  \/ Signal \/ Crash \/ Flap

Answer(s) == Enter(s) \/ TurnAway(s)
Work(w)   == TakeTask(w) \/ Save(w) \/ SaveFails(w)

PipelineNext ==
  \/ Alone(AgentStep)
  \/ \E s \in Senders : Answer(s)
  \/ \E p \in Payloads : EnterLate(p) \/ TurnAwayLate(p)
  \/ \E w \in Workers : Work(w)
  \/ ServiceKilled

PipelineSpec == PipelineInit /\ [][PipelineNext]_pipelineVars

-----------------------------------------------------------------------------
(* Properties.                                                             *)

\* From the scan to the row no payload goes missing between two components:
\* the agent has it, the service has it, it was stored, or it is one of the
\* losses either of them names.  A 2xx on which the agent lets go of a payload
\* is always backed by a place in the service.
EndToEnd ==
  /\ accepted = Service!Inside \union stored \union dropped
  /\ \A p \in 1 .. scans :
       p \in Custody \union Service!Inside \union stored \union dropped \union lost

\* The devices row goes back to an older state of the device only in the ways
\* the code leaves open: the older payload had been cached or was late, or
\* another worker, or another handler of the -ui mode, had it in hand when the
\* newer one went past.  The line, the answers and main's loop swap nothing.
RowGoesBackOnly ==
  [][row' < row => row' \in deferred \union overtaken]_pipelineVars

\* SaveDevice writes a payload twice, by one worker after the other or by two
\* at a time, only if the agent had to go on without knowing the answer to one
\* of its requests: with every answer read, each payload has one upsert, however
\* often the backend was away, its buffer full, or either process started again.
SavedTwiceOnlyInDoubt ==
  \A w \in Workers :
    /\ busy[w] \in stored => busy[w] \in doubt
    /\ \A v \in Workers \ {w} : busy[v] = busy[w] => busy[w] \in doubt \union {NoPayload}
=============================================================================
