---------------------------- MODULE AgentDelivery ----------------------------
(***************************************************************************)
(* The endpoint agent's way from a finished scan to the backend:           *)
(* pkg/agent (RunOneShot, Start), pkg/network (Transmit, cacheOffline,     *)
(* FlushOfflineCache, StartBackgroundFlusher), and cmd/agent's main, which *)
(* decides which of these run in the daemon, one-shot and -ui modes.  The  *)
(* scan itself is one step here; the backend accepts or refuses requests.  *)
(* The process may be signalled or killed at any point and started again   *)
(* on the same offline_payloads table.                                     *)
(***************************************************************************)
EXTENDS OfflineQueue

CONSTANTS
  MaxScans,            \* bound: scans that yield a payload, over all restarts
  Main, Flusher,       \* main's goroutine; the background flusher
  Handlers,            \* concurrent /api/scan handlers of the -ui mode
  Modes,               \* the modes the agent may be started in
  Faults,              \* what may go wrong, by name
  Poison               \* payloads the backend refuses whenever they come

Scanners == {Main} \union Handlers
Senders  == Scanners \union {Flusher}

NoPayload == 0

FaultNames ==
  {"crash", "signal", "disconnect", "late", "busy",
   "enqueue", "query", "delete", "noclient", "noqueue"}

ASSUME AgentAssumption ==
  /\ MaxScans \in Nat
  /\ Payloads = 1 .. MaxScans
  /\ Main \notin Handlers /\ Flusher \notin Scanners
  /\ Modes \subseteq {"daemon", "oneshot", "ui"}
  /\ Faults \subseteq FaultNames
  /\ Poison \subseteq Payloads

VARIABLES
  mode,                \* how the process was started, or "down"
  client, queue,       \* is there an mTLS client, is there a SQLite queue
  pc,                  \* where each goroutine is
  hand,                \* the payload a sender is transmitting
  wire,                \* what has become of a sender's HTTP request
  todo, flushed,       \* the flush pass: snapshot rows left, ids answered 2xx
  signalled,           \* the context of signal.NotifyContext is cancelled
  gone,                \* handlers whose browser has disconnected
  up,                  \* the backend answers before the client's timeout
  late,                \* payloads of abandoned requests that still travel
  scans,               \* payloads collected so far: the n-th scan yields n
  accepted, again,     \* accepted by the backend, accepted more than once
  doubt,               \* accepted perhaps, but the agent went on without knowing
  lost                 \* given up: no client, no room in the cache, or killed

store   == <<rows, lastId>>
config  == <<mode, client, queue>>
pass    == <<todo, flushed>>
signals == <<signalled, gone>>
backend == <<late, accepted, again>>
vars    == <<store, config, pc, hand, wire, pass, signals, up, backend,
             scans, doubt, lost>>

ProcessTypeOK ==
  /\ mode \in Modes \union {"down"}
  /\ client \in BOOLEAN /\ queue \in BOOLEAN
  /\ pc \in [Senders -> {"idle", "collect", "post", "wait", "cache", "drain",
                         "off", "poll", "query", "loop", "delete"}]
  /\ signalled \in BOOLEAN /\ gone \subseteq Handlers

SendingTypeOK ==
  /\ hand \in [Senders -> Payloads \union {NoPayload}]
  /\ wire \in [Senders -> {"none", "sent", "ok", "refused"}]
  /\ todo \subseteq Row /\ flushed \subseteq Nat

LedgerTypeOK ==
  /\ up \in BOOLEAN
  /\ scans \in 0 .. MaxScans
  /\ late \subseteq Payloads
  /\ accepted \subseteq Payloads /\ again \subseteq Payloads
  /\ doubt \subseteq Payloads /\ lost \subseteq Payloads

TypeOK == QueueTypeOK /\ ProcessTypeOK /\ SendingTypeOK /\ LedgerTypeOK

Resting == [s \in Senders |-> IF s = Flusher THEN "off" ELSE "idle"]

Init ==
  /\ QueueInit
  /\ mode = "down" /\ client = FALSE /\ queue = FALSE
  /\ pc = Resting
  /\ hand = [s \in Senders |-> NoPayload]
  /\ wire = [s \in Senders |-> "none"]
  /\ todo = {} /\ flushed = {}
  /\ signalled = FALSE /\ gone = {}
  /\ up = TRUE
  /\ scans = 0
  /\ late = {} /\ accepted = {} /\ again = {}
  /\ doubt = {} /\ lost = {}

\* The context the code passes down: the request's under /api/scan, otherwise
\* the one main's signals cancel.
CtxDone(s) == IF s \in Handlers THEN s \in gone ELSE signalled

Goto(s, label) == pc' = [pc EXCEPT ![s] = label]
LetGo(s)       == hand' = [hand EXCEPT ![s] = NoPayload]
HangUp(s)      == wire' = [wire EXCEPT ![s] = "none"]

\* Payloads the current flush pass has seen accepted; their rows still exist.
FlushedPayloads == PayloadsOf({r \in rows : r.id \in flushed})

-----------------------------------------------------------------------------
(* cmd/agent: starting, and the two loops that start scans.                *)

\* main up to its mode switch.  A certificate that does not load leaves the
\* agent without a client, a database that does not open without a queue.
\* Only Start, the daemon's loop, launches the flusher.
Start(m, c, q) ==
  /\ mode = "down"
  /\ c \/ "noclient" \in Faults
  /\ q \/ "noqueue" \in Faults
  /\ mode' = m /\ client' = c /\ queue' = q
  /\ pc' = [Resting EXCEPT
              ![Main]    = IF m = "ui" THEN "idle" ELSE "collect",
              ![Flusher] = IF m = "daemon" /\ c /\ q THEN "poll" ELSE "off"]
  /\ UNCHANGED <<store, hand, wire, pass, signals, up, backend, scans, doubt, lost>>

\* The ticker fires and the jitter passes.  select does not prefer ctx.Done,
\* so this may happen after the signal.
Tick ==
  /\ mode = "daemon" /\ pc[Main] = "idle"
  /\ Goto(Main, "collect")
  /\ UNCHANGED <<store, config, hand, wire, pass, signals, up, backend, scans, doubt, lost>>

ScanRequest(h) ==
  /\ mode = "ui" /\ pc[Main] = "idle" /\ pc[h] = "idle"
  /\ Goto(h, "collect")
  /\ gone' = gone \ {h}
  /\ UNCHANGED <<store, config, hand, wire, pass, signalled, up, backend, scans, doubt, lost>>

-----------------------------------------------------------------------------
(* RunOneShot and Transmit, run by main or by any handler.                 *)

\* Mutant: the payload is kept in a field all callers share.
CollectShared(s) ==
  /\ pc[s] = "collect" /\ scans < MaxScans /\ client
  /\ scans' = scans + 1
  /\ Goto(s, "post")
  /\ hand' = [t \in Senders |-> IF t = s \/ (t \in Scanners /\ hand[t] # NoPayload)
                               THEN scans + 1 ELSE hand[t]]
  /\ UNCHANGED <<store, config, wire, pass, signals, up, backend, doubt, lost>>

CollectOk(s) ==
  /\ pc[s] = "collect" /\ scans < MaxScans
  /\ scans' = scans + 1
  /\ \/ /\ client
        /\ Goto(s, "post") /\ hand' = [hand EXCEPT ![s] = scans + 1]
        /\ UNCHANGED lost
     \/ /\ ~client
        /\ Goto(s, "idle") /\ lost' = lost \union {scans + 1}
        /\ UNCHANGED hand
  /\ UNCHANGED <<store, config, wire, pass, signals, up, backend, doubt>>

\* Collect, the output handler or json.Marshal fails: there is no payload.
CollectFails(s) ==
  /\ pc[s] = "collect"
  /\ Goto(s, "idle")
  /\ UNCHANGED <<store, config, hand, wire, pass, signals, up, backend, scans, doubt, lost>>

\* httpClient.Do, shared by Transmit and the flush: the request leaves.
Post(s) ==
  /\ pc[s] = "post" /\ up /\ ~CtxDone(s)
  /\ Goto(s, "wait")
  /\ wire' = [wire EXCEPT ![s] = "sent"]
  /\ UNCHANGED <<store, config, hand, pass, signals, up, backend, scans, doubt, lost>>

\* Mutant: the http.Client has no Timeout.
DoFailsNoTimeout(s) ==
  /\ pc[s] \in {"post", "wait"}
  /\ (pc[s] = "post" /\ ~up) \/ CtxDone(s)
  /\ HangUp(s)
  /\ Goto(s, IF s = Flusher THEN "delete" ELSE "cache")
  /\ hand' = IF s = Flusher THEN [hand EXCEPT ![s] = NoPayload] ELSE hand
  /\ UNCHANGED <<store, config, pass, signals, up, backend, scans, doubt, lost>>

\* Mutant: a failed flush makes the flusher's goroutine return.
DoFailsStops(s) ==
  /\ pc[s] \in {"post", "wait"}
  /\ ~up \/ CtxDone(s)
  /\ HangUp(s)
  /\ Goto(s, IF s = Flusher THEN "off" ELSE "cache")
  /\ hand' = IF s = Flusher THEN [hand EXCEPT ![s] = NoPayload] ELSE hand
  /\ UNCHANGED <<store, config, pass, signals, up, backend, scans, doubt, lost>>

\* Do returns an error: no connection, the timeout, or a cancelled context.
\* A request that had left may reach the backend all the same.  Transmit goes
\* on to cache the payload, the flush breaks out of its loop.
DoFails(s) ==
  /\ pc[s] \in {"post", "wait"}
  /\ ~up \/ CtxDone(s)
  /\ HangUp(s)
  /\ doubt' = IF pc[s] = "wait" THEN doubt \union {hand[s]} ELSE doubt
  /\ \/ UNCHANGED late
     \/ /\ "late" \in Faults /\ wire[s] = "sent" /\ hand[s] \notin Poison
        /\ late' = late \union {hand[s]}
  /\ \/ /\ s \in Scanners
        /\ Goto(s, "cache") /\ UNCHANGED hand
     \/ /\ s = Flusher
        /\ Goto(s, "delete") /\ LetGo(s)
  /\ UNCHANGED <<store, config, pass, signals, up, accepted, again, scans, lost>>

\* 2xx
Transmitted(s) ==
  /\ s \in Scanners /\ pc[s] = "wait" /\ wire[s] = "ok"
  /\ Goto(s, "idle") /\ LetGo(s) /\ HangUp(s)
  /\ UNCHANGED <<store, config, pass, signals, up, backend, scans, doubt, lost>>

\* any other status
TransmitRefused(s) ==
  /\ s \in Scanners /\ pc[s] = "wait" /\ wire[s] = "refused"
  /\ Goto(s, "cache") /\ HangUp(s)
  /\ UNCHANGED <<store, config, hand, pass, signals, up, backend, scans, doubt, lost>>

\* Mutant: the document is cached after the buffer was released.
CacheOfflineEmpty(s) ==
  /\ pc[s] = "cache" /\ queue
  /\ Goto(s, "idle") /\ LetGo(s)
  /\ Enqueue(NoPayload)
  /\ UNCHANGED <<config, wire, pass, signals, up, backend, scans, doubt, lost>>

\* A nil queue and an error of Enqueue are both passed over in silence.
CacheOffline(s) ==
  /\ pc[s] = "cache"
  /\ Goto(s, "idle") /\ LetGo(s)
  /\ \/ /\ queue
        /\ Enqueue(hand[s])
        /\ UNCHANGED lost
     \/ /\ ~queue \/ "enqueue" \in Faults
        /\ lost' = lost \union {hand[s]}
        /\ UNCHANGED store
  /\ UNCHANGED <<config, wire, pass, signals, up, backend, scans, doubt>>

-----------------------------------------------------------------------------
(* The background flusher.                                                 *)

EndPass(label) ==
  /\ Goto(Flusher, label)
  /\ todo' = {} /\ flushed' = {}

PollTick ==
  /\ pc[Flusher] = "poll" /\ NonEmpty
  /\ Goto(Flusher, "query")
  /\ UNCHANGED <<store, config, hand, wire, pass, signals, up, backend, scans, doubt, lost>>

FlusherStop ==
  /\ pc[Flusher] = "poll" /\ signalled
  /\ Goto(Flusher, "off")
  /\ UNCHANGED <<store, config, hand, wire, pass, signals, up, backend, scans, doubt, lost>>

FlushQuery ==
  /\ pc[Flusher] = "query"
  /\ \/ Goto(Flusher, "loop") /\ todo' = DequeueAll /\ flushed' = {}
     \/ /\ "query" \in Faults
        /\ Goto(Flusher, "loop") /\ todo' \in DequeueBroken /\ flushed' = {}
     \/ "query" \in Faults /\ EndPass("poll")
  /\ UNCHANGED <<store, config, hand, wire, signals, up, backend, scans, doubt, lost>>

\* ctx.Done at the top of the loop: FlushOfflineCache returns there and then,
\* and the rows it has delivered stay in the table.
FlushCancelled ==
  /\ pc[Flusher] = "loop" /\ todo # {} /\ signalled
  /\ EndPass("poll")
  /\ doubt' = doubt \union FlushedPayloads
  /\ UNCHANGED <<store, config, hand, wire, signals, up, backend, scans, lost>>

FlushSelect ==
  /\ pc[Flusher] = "loop" /\ ~signalled
  /\ \E r \in todo : /\ IsOldest(r, todo)
                     /\ hand' = [hand EXCEPT ![Flusher] = r.payload]
  /\ Goto(Flusher, "post")
  /\ UNCHANGED <<store, config, wire, pass, signals, up, backend, scans, doubt, lost>>

FlushLoopDone ==
  /\ pc[Flusher] = "loop" /\ todo = {}
  /\ Goto(Flusher, "delete")
  /\ UNCHANGED <<store, config, hand, wire, pass, signals, up, backend, scans, doubt, lost>>

FlushOk ==
  /\ pc[Flusher] = "wait" /\ wire[Flusher] = "ok"
  /\ \E r \in todo : /\ IsOldest(r, todo)
                     /\ todo' = todo \ {r}
                     /\ flushed' = flushed \union {r.id}
  /\ Goto(Flusher, "loop") /\ LetGo(Flusher) /\ HangUp(Flusher)
  /\ UNCHANGED <<store, config, signals, up, backend, scans, doubt, lost>>

\* Mutant: continue instead of break.
FlushContinue ==
  /\ pc[Flusher] = "wait" /\ wire[Flusher] = "refused"
  /\ \E r \in todo : IsOldest(r, todo) /\ todo' = todo \ {r}
  /\ Goto(Flusher, "loop") /\ LetGo(Flusher) /\ HangUp(Flusher)
  /\ UNCHANGED <<store, config, flushed, signals, up, backend, scans, doubt, lost>>

\* Mutant: return instead of break.
FlushReturn ==
  /\ pc[Flusher] = "wait" /\ wire[Flusher] = "refused"
  /\ EndPass("poll") /\ LetGo(Flusher) /\ HangUp(Flusher)
  /\ UNCHANGED <<store, config, signals, up, backend, scans, doubt, lost>>

\* The first refusal ends the pass, so a later row never overtakes this one.
FlushBreak ==
  /\ pc[Flusher] = "wait" /\ wire[Flusher] = "refused"
  /\ Goto(Flusher, "delete") /\ LetGo(Flusher) /\ HangUp(Flusher)
  /\ UNCHANGED <<store, config, pass, signals, up, backend, scans, doubt, lost>>

FlushDelete ==
  /\ pc[Flusher] = "delete"
  /\ EndPass("poll")
  /\ \/ Delete(flushed) /\ UNCHANGED doubt
     \/ /\ "delete" \in Faults
        /\ doubt' = doubt \union FlushedPayloads
        /\ UNCHANGED store
  /\ UNCHANGED <<config, hand, wire, signals, up, backend, scans, lost>>

-----------------------------------------------------------------------------
(* How the process ends.                                                   *)

\* What a request on the wire, or an unfinished flush, leaves uncertain.
InDoubt == FlushedPayloads \union {hand[s] : s \in {t \in Senders : pc[t] = "wait"}}

Travelling == {hand[s] : s \in {t \in Senders : wire[t] = "sent"}} \ Poison

Held(S) == {hand[s] : s \in S} \ {NoPayload}

\* Every goroutine stops where it is; only the table survives.
Halt ==
  /\ mode' = "down"
  /\ pc' = Resting
  /\ hand' = [s \in Senders |-> NoPayload]
  /\ wire' = [s \in Senders |-> "none"]
  /\ todo' = {} /\ flushed' = {}
  /\ signalled' = FALSE /\ gone' = {}
  /\ doubt' = doubt \union InDoubt
  /\ \/ UNCHANGED late
     \/ "late" \in Faults /\ late' = late \union Travelling
  /\ UNCHANGED <<store, client, queue, up, accepted, again, scans>>

Signal ==
  /\ "signal" \in Faults
  /\ mode # "down" /\ ~signalled
  /\ signalled' = TRUE
  /\ UNCHANGED <<store, config, pc, hand, wire, pass, gone, up, backend, scans, doubt, lost>>

\* server.Shutdown: no new request is served, the running ones are awaited.
Shutdown ==
  /\ mode = "ui" /\ signalled /\ pc[Main] = "idle"
  /\ Goto(Main, "drain")
  /\ UNCHANGED <<store, config, hand, wire, pass, signals, up, backend, scans, doubt, lost>>

\* Mutant: server.Close instead of server.Shutdown.
MainReturnsAtOnce ==
  \/ mode = "daemon" /\ signalled /\ pc[Main] = "idle"
  \/ mode = "oneshot" /\ pc[Main] = "idle"
  \/ mode = "ui" /\ pc[Main] = "drain"

\* main returns.  Nobody waits for the flusher.
MainReturns ==
  \/ mode = "daemon" /\ signalled /\ pc[Main] = "idle"
  \/ mode = "oneshot" /\ pc[Main] = "idle"
  \/ mode = "ui" /\ pc[Main] = "drain" /\ \A h \in Handlers : pc[h] = "idle"

Exit ==
  /\ MainReturns
  /\ Halt
  /\ UNCHANGED lost

Crash ==
  /\ "crash" \in Faults /\ mode # "down"
  /\ Halt
  /\ lost' = lost \union Held(Scanners)

-----------------------------------------------------------------------------
(* The backend and the network.                                            *)

Receive(p) ==
  /\ accepted' = accepted \union {p}
  /\ again' = again \union ({p} \intersect accepted)

Accept(s) ==
  /\ wire[s] = "sent" /\ up /\ hand[s] \notin Poison
  /\ wire' = [wire EXCEPT ![s] = "ok"]
  /\ Receive(hand[s])
  /\ UNCHANGED <<store, config, pc, hand, pass, signals, up, late, scans, doubt, lost>>

Refuse(s) ==
  /\ wire[s] = "sent" /\ up /\ (hand[s] \in Poison \/ "busy" \in Faults)
  /\ wire' = [wire EXCEPT ![s] = "refused"]
  /\ UNCHANGED <<store, config, pc, hand, pass, signals, up, backend, scans, doubt, lost>>

LateArrival(p) ==
  /\ p \in late
  /\ late' = late \ {p}
  /\ Receive(p)
  /\ UNCHANGED <<store, config, pc, hand, wire, pass, signals, up, scans, doubt, lost>>

Disconnect(h) ==
  /\ "disconnect" \in Faults
  /\ mode = "ui" /\ pc[h] # "idle"
  /\ gone' = gone \union {h}
  /\ UNCHANGED <<store, config, pc, hand, wire, pass, signalled, up, backend, scans, doubt, lost>>

Flap ==
  /\ up' = ~up
  /\ UNCHANGED <<store, config, pc, hand, wire, pass, signals, backend, scans, doubt, lost>>

-----------------------------------------------------------------------------
Collect(s)  == CollectOk(s) \/ CollectFails(s)
Transmit(s) == Transmitted(s) \/ TransmitRefused(s) \/ CacheOffline(s)
Flush ==
  \/ PollTick \/ FlusherStop \/ FlushQuery \/ FlushCancelled \/ FlushSelect
  \/ FlushLoopDone \/ FlushOk \/ FlushBreak \/ FlushDelete
Respond(s) == Accept(s) \/ Refuse(s)
Environment ==
  \/ Signal \/ Crash \/ Flap
  \/ \E p \in Payloads : LateArrival(p)
  \/ \E h \in Handlers : Disconnect(h)

Next ==
  \/ \E m \in Modes, c, q \in BOOLEAN : Start(m, c, q)
  \/ Tick
  \/ \E h \in Handlers : ScanRequest(h)
  \/ \E s \in Scanners : Collect(s) \/ Transmit(s)
  \/ \E s \in Senders : Post(s) \/ DoFails(s) \/ Respond(s)
  \/ Flush
  \/ Shutdown
  \/ Exit
  \/ Environment

Spec == Init /\ [][Next]_vars

\* Goroutines that can run do run, and an up backend answers.  Post, DoFails
\* and the answers are together strongly fair: the client's 30 s timeout ends
\* every wait even when the network flaps.  Exit is, because select chooses at
\* random among ready cases: it will not pick the ticker for ever.
\* Scans, signals, faults and outages are not fair: they may never happen.
Fairness ==
  /\ \A s \in Scanners : WF_vars(Collect(s)) /\ WF_vars(Transmit(s))
  /\ \A s \in Senders : WF_vars(Respond(s)) /\ SF_vars(Post(s) \/ DoFails(s))
  /\ WF_vars(Flush)
  /\ WF_vars(Shutdown)
  /\ SF_vars(Exit)

FairSpec == Spec /\ Fairness

-----------------------------------------------------------------------------
(* Properties.                                                             *)

\* What the agent still has of the payloads it collected.
Custody == Held(Scanners) \union PayloadsOf(rows)

Promise == INSTANCE Outbox
             WITH produced <- 1 .. scans, pending <- Custody, delivered <- accepted

\* Transmit, cacheOffline and the flusher together lose nothing silently:
\* every payload RunOneShot collected is still in the agent's custody, has
\* been accepted, or is one of the losses named where they happen.
NoSilentLoss ==
  \A p \in 1 .. scans : p \in Custody \union accepted \union lost

\* A row leaves offline_payloads only after the backend has accepted its
\* payload: Delete is never reached with the id of a row that was refused,
\* timed out, or was enqueued after the snapshot.
RowsLeaveAccepted ==
  [][\A r \in rows \ rows' : r.payload \in accepted]_vars

\* The flush delivers the backlog oldest first: within a pass no row has been
\* answered 2xx while an older row of the table has not, whatever main enqueues
\* meanwhile and wherever the pass breaks off.
FlushOldestFirst ==
  \A r, q \in rows : r.id \in flushed /\ q.id < r.id => q.id \in flushed

\* The backend is given a payload twice only after the agent had to go on
\* without knowing the answer: a request abandoned, a process gone, a flush cut
\* off before its Delete.  Neither Transmit and the flusher running at the
\* same time nor two passes in a row repeat one that was acknowledged.
RepeatsOnlyInDoubt == again \subseteq doubt

\* The code implements the abstract outbox (module Outbox), whose Lose and
\* Reject steps are the only ways for a payload to go missing.
KeepsPromise == Promise!Spec

\* A poisoned row stops every pass in front of the rows behind it.
Blocked(p) ==
  \E r, q \in rows : r.payload = p /\ q.payload \in Poison /\ q.id <= r.id

Flushable == mode = "daemon" /\ client /\ queue /\ up /\ ~signalled

\* README, Offline Caching: once the backend stays reachable, the running
\* daemon's flusher empties the table up to the first poisoned row.
BacklogDrains ==
  \A p \in Payloads :
    <>[]Flushable => []<>(p \notin PayloadsOf(rows) \/ Blocked(p))

\* A signalled agent ends in every mode, although the -ui mode waits for its
\* handlers, whose requests main's signal does not cancel.
SignalledEnds == signalled ~> mode = "down"

\* FlushOfflineCache's comment: it "flushes them to the backend, and deletes
\* them upon success".  When a pass is over, no row it has delivered is left.
FlushDeletesDelivered ==
  [][ (pc[Flusher] \in {"loop", "delete"} /\ pc'[Flusher] = "poll")
      => \A r \in rows' : r.id \notin flushed ]_vars

\* README, Key Modules: "A background goroutine polls network connectivity and
\* flushes cached payloads upon reconnection."  A running agent that has a
\* client and a queue flushes what it cached, whichever mode it runs in.
CachedIsFlushed ==
  \A p \in Payloads :
    <>[](mode # "down" /\ client /\ queue /\ up /\ ~signalled)
      => []<>(p \notin PayloadsOf(rows) \/ Blocked(p))
=============================================================================
