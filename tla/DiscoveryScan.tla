---------------------------- MODULE DiscoveryScan ----------------------------
(***************************************************************************)
(* One call of Engine.Collect in pkg/collector: hardware, then the process *)
(* table read by a pool of workers over two buffered channels, then the    *)
(* walk of the software roots and of the installed applications, all under *)
(* one context that may be cancelled at any point.  What a process or a    *)
(* tag file says is data here; a tag is known by its file and its key.     *)
(***************************************************************************)
EXTENDS Naturals, Sequences, FiniteSets

CONSTANTS
  Procs,               \* the process table
  PoolWorkers,         \* ProcessCollector.Workers goroutines
  Files, Keys, NoKey,  \* tag files (and applications), and tag keys
  KeyOf,               \* lower-cased tagId or name of a file; NoKey for neither
  Malformed,           \* files ParseSWIDTagFile refuses
  Roots,               \* per root, its tag files in WalkDir's order
  Missing,             \* roots that do not exist
  Apps,                \* what scanInstalledApplications finds, in order
  Runs,                \* pairs <<file, process>>: the process runs that software
  Faults               \* what may go wrong, by name

ASSUME ScanAssumption ==
  /\ IsFiniteSet(Procs)
  /\ PoolWorkers # {}
  /\ NoKey \notin Keys
  /\ KeyOf \in [Files -> Keys \union {NoKey}]
  /\ Malformed \subseteq Files
  /\ Roots \in Seq(Seq(Files)) /\ Roots # <<>>   \* LoadConfig sees to that
  /\ Missing \subseteq DOMAIN Roots
  /\ Apps \in Seq(Files)
  /\ Runs \subseteq Files \X Procs
  /\ Faults \subseteq {"cancel", "hardware", "list"}

VARIABLES
  stage,               \* where Collect is
  cancelled,           \* its ctx
  listed,              \* what process.Processes returned
  procChan,            \* processes not yet taken from the closed channel
  resultsChan,         \* results the workers have sent
  pc, proc,            \* per worker
  root, file,          \* the walk: index of the root, and within it
  inventory,           \* inventory.SWIDTags
  active               \* files whose LastUsed the cross-reference has set

table == <<listed, procChan, resultsChan, pc, proc>>
walk  == <<root, file>>
vars  == <<stage, cancelled, table, walk, inventory, active>>

TypeOK ==
  /\ stage \in {"hardware", "list", "pool", "roots", "walk", "apps", "match", "done", "failed"}
  /\ cancelled \in BOOLEAN
  /\ listed \subseteq Procs /\ procChan \subseteq listed
  /\ resultsChan \in Seq(listed) /\ Len(resultsChan) <= Cardinality(listed)
  /\ pc \in [PoolWorkers -> {"range", "check", "send", "off"}]
  /\ proc \in [PoolWorkers -> SUBSET Procs]
  /\ root \in 1 .. Len(Roots) + 1 /\ file \in Nat
  /\ inventory \in Seq(Files)
  /\ active \subseteq Files

Init ==
  /\ stage = "hardware" /\ cancelled = FALSE
  /\ listed = {} /\ procChan = {} /\ resultsChan = <<>>
  /\ pc = [w \in PoolWorkers |-> "off"] /\ proc = [w \in PoolWorkers |-> {}]
  /\ root = 1 /\ file = 1
  /\ inventory = <<>> /\ active = {}

ElementsOf(s) == {s[i] : i \in DOMAIN s}

-----------------------------------------------------------------------------
Cancel ==
  /\ "cancel" \in Faults /\ ~cancelled
  /\ stage \notin {"done", "failed"}
  /\ cancelled' = TRUE
  /\ UNCHANGED <<stage, table, walk, inventory, active>>

HardwareOk ==
  /\ stage = "hardware"
  /\ stage' = "list"
  /\ UNCHANGED <<cancelled, table, walk, inventory, active>>

\* Only an error of the memory statistics is returned.
HardwareFails ==
  /\ stage = "hardware" /\ "hardware" \in Faults
  /\ stage' = "failed"
  /\ UNCHANGED <<cancelled, table, walk, inventory, active>>

-----------------------------------------------------------------------------
(* ProcessCollector.Collect.                                               *)

\* procChan is filled and closed before any worker starts.
ListProcesses ==
  /\ stage = "list"
  /\ stage' = "pool"
  /\ listed' = Procs /\ procChan' = Procs
  /\ pc' = [w \in PoolWorkers |-> "range"]
  /\ UNCHANGED <<cancelled, resultsChan, proc, walk, inventory, active>>

ListFails ==
  /\ stage = "list" /\ (cancelled \/ "list" \in Faults)
  /\ stage' = "failed"
  /\ UNCHANGED <<cancelled, table, walk, inventory, active>>

TakeProcess(w) ==
  /\ pc[w] = "range"
  /\ \E p \in procChan : procChan' = procChan \ {p} /\ proc' = [proc EXCEPT ![w] = {p}]
  /\ pc' = [pc EXCEPT ![w] = "check"]
  /\ UNCHANGED <<stage, cancelled, listed, resultsChan, walk, inventory, active>>

\* The channel is closed and empty, or the context is cancelled: in that case
\* the process just taken, and those still in the channel, go unreported.
WorkerReturns(w) ==
  /\ \/ pc[w] = "range" /\ procChan = {}
     \/ pc[w] = "check" /\ cancelled
  /\ pc' = [pc EXCEPT ![w] = "off"]
  /\ proc' = [proc EXCEPT ![w] = {}]
  /\ UNCHANGED <<stage, cancelled, listed, procChan, resultsChan, walk, inventory, active>>

\* The attributes are read; each one that cannot be is simply left out.
ReadProcess(w) ==
  /\ pc[w] = "check" /\ ~cancelled
  /\ pc' = [pc EXCEPT ![w] = "send"]
  /\ UNCHANGED <<stage, cancelled, listed, procChan, resultsChan, proc, walk, inventory, active>>

\* Mutant: the channel is sized after the pool, not after the list.
ResultsCapOfPool == Cardinality(PoolWorkers)

ResultsCap == Cardinality(listed)

\* Mutant: the result is sent once more when the worker ends its turn.
SendResultTwice(w) ==
  /\ pc[w] = "send" /\ Len(resultsChan) < ResultsCap
  /\ \E p \in proc[w] : resultsChan' = resultsChan \o <<p, p>>
  /\ pc' = [pc EXCEPT ![w] = "range"]
  /\ proc' = [proc EXCEPT ![w] = {}]
  /\ UNCHANGED <<stage, cancelled, listed, procChan, walk, inventory, active>>

\* Nobody receives before every worker has returned: a full channel blocks.
SendResult(w) ==
  /\ pc[w] = "send" /\ Len(resultsChan) < ResultsCap
  /\ \E p \in proc[w] : resultsChan' = Append(resultsChan, p)
  /\ pc' = [pc EXCEPT ![w] = "range"]
  /\ proc' = [proc EXCEPT ![w] = {}]
  /\ UNCHANGED <<stage, cancelled, listed, procChan, walk, inventory, active>>

\* wg.Wait, then the results are drained; there is never an error.
PoolDone ==
  /\ stage = "pool" /\ \A w \in PoolWorkers : pc[w] = "off"
  /\ stage' = "roots"
  /\ UNCHANGED <<cancelled, table, walk, inventory, active>>

-----------------------------------------------------------------------------
(* SWIDCollector.CollectWithProcesses.                                     *)

\* Mutant: tags are compared by file, not by key.
AddTagOfFile(f) ==
  inventory' = IF KeyOf[f] = NoKey \/ f \in ElementsOf(inventory)
               THEN inventory
               ELSE Append(inventory, f)

\* The first tag of a key stays; one without a key is left out.
AddTag(f) ==
  inventory' = IF KeyOf[f] = NoKey \/ \E g \in ElementsOf(inventory) : KeyOf[g] = KeyOf[f]
               THEN inventory
               ELSE Append(inventory, f)

\* Between roots a cancelled context is an error, ...
RootCancelled ==
  /\ stage = "roots" /\ root <= Len(Roots) /\ cancelled
  /\ stage' = "failed"
  /\ UNCHANGED <<cancelled, table, walk, inventory, active>>

RootMissing ==
  /\ stage = "roots" /\ root <= Len(Roots) /\ ~cancelled /\ root \in Missing
  /\ root' = root + 1
  /\ UNCHANGED <<stage, cancelled, table, file, inventory, active>>

\* Mutant: a root that exists is walked without a look at the context.
RootEnterUnchecked ==
  /\ stage = "roots" /\ root <= Len(Roots) /\ root \notin Missing
  /\ stage' = "walk" /\ file' = 1
  /\ UNCHANGED <<cancelled, table, root, inventory, active>>

RootEnter ==
  /\ stage = "roots" /\ root <= Len(Roots) /\ ~cancelled /\ root \notin Missing
  /\ stage' = "walk" /\ file' = 1
  /\ UNCHANGED <<cancelled, table, root, inventory, active>>

WalkFile ==
  /\ stage = "walk" /\ file <= Len(Roots[root]) /\ ~cancelled
  /\ IF Roots[root][file] \in Malformed THEN UNCHANGED inventory ELSE AddTag(Roots[root][file])
  /\ file' = file + 1
  /\ UNCHANGED <<stage, cancelled, table, root, active>>

\* ... but WalkDir's error is ignored, whether it came from the end of the walk
\* or from a cancelled context in the middle of it.
WalkEnds ==
  /\ stage = "walk" /\ (file > Len(Roots[root]) \/ cancelled)
  /\ stage' = "roots" /\ root' = root + 1 /\ file' = 1
  /\ UNCHANGED <<cancelled, table, inventory, active>>

RootsDone ==
  /\ stage = "roots" /\ root > Len(Roots)
  /\ stage' = "apps"
  /\ UNCHANGED <<cancelled, table, walk, inventory, active>>

ScanApp ==
  /\ stage = "apps" /\ file <= Len(Apps)
  /\ AddTag(Apps[file])
  /\ file' = file + 1
  /\ UNCHANGED <<stage, cancelled, table, root, active>>

\* The directories are through, or (not on Linux) a cancelled context ended
\* the scan: what was found so far is kept.
AppsDone ==
  /\ stage = "apps" /\ (file > Len(Apps) \/ cancelled)
  /\ stage' = "match"
  /\ UNCHANGED <<cancelled, table, walk, inventory, active>>

\* LastUsed of the software that a reported process runs.
CrossReference ==
  /\ stage = "match"
  /\ stage' = "done"
  /\ active' = {f \in ElementsOf(inventory) :
                  \E p \in ElementsOf(resultsChan) : <<f, p>> \in Runs}
  /\ UNCHANGED <<cancelled, table, walk, inventory>>

Pool(w) == TakeProcess(w) \/ WorkerReturns(w) \/ ReadProcess(w) \/ SendResult(w)
Walk == RootCancelled \/ RootMissing \/ RootEnter \/ WalkFile \/ WalkEnds \/ RootsDone
Collect ==
  \/ HardwareOk \/ HardwareFails \/ ListProcesses \/ ListFails \/ PoolDone
  \/ Walk \/ ScanApp \/ AppsDone \/ CrossReference

Next == Collect \/ Cancel \/ \E w \in PoolWorkers : Pool(w)

\* Goroutines that can run do run; a cancellation need not come.
Fairness == WF_vars(Collect) /\ \A w \in PoolWorkers : WF_vars(Pool(w))

Spec == Init /\ [][Next]_vars /\ Fairness

-----------------------------------------------------------------------------
(* Properties.                                                             *)

\* However the workers interleave, no process is reported twice.
NoProcessTwice ==
  \A i, j \in DOMAIN resultsChan : resultsChan[i] = resultsChan[j] => i = j

\* Nobody receives while the workers run, so a worker with a result must find a
\* free slot: the channel has one for every process that was listed.
SendNeverBlocks ==
  \A w \in PoolWorkers : pc[w] = "send" => Len(resultsChan) < ResultsCap

AllProcesses == ElementsOf(resultsChan) = Procs

\* A full discovery pass: every listed process, of every key the first readable
\* tag in the order of the roots and then the applications, and what is running
\* marked so.
Source(i) == IF i > Len(Roots) THEN Apps ELSE IF i \in Missing THEN <<>> ELSE Roots[i]
Positions == UNION {{i} \X DOMAIN Source(i) : i \in 1 .. Len(Roots) + 1}
At(x) == Source(x[1])[x[2]]
Before(x, y) == x[1] < y[1] \/ (x[1] = y[1] /\ x[2] < y[2])
Usable(x) == KeyOf[At(x)] # NoKey /\ (x[1] <= Len(Roots) => At(x) \notin Malformed)
FirstOfKey(x) ==
  Usable(x) /\ \A z \in Positions : Before(z, x) /\ Usable(z) => KeyOf[At(z)] # KeyOf[At(x)]
FirstTags == {At(x) : x \in {y \in Positions : FirstOfKey(y)}}

Complete ==
  /\ AllProcesses
  /\ ElementsOf(inventory) = FirstTags
  /\ Len(inventory) = Cardinality(FirstTags)
  /\ active = {f \in FirstTags : \E p \in Procs : <<f, p>> \in Runs}

\* A scan that nobody cancelled and that returns a payload is complete: the
\* pool has dropped nothing, and duplicates were settled in favour of the
\* first root, then against the applications.
CompleteUnlessCancelled == stage = "done" /\ ~cancelled => Complete

\* Wherever the context is cancelled, a payload that is returned without an error
\* has every process once, and of all roots but the last every tag that is the
\* first of its key: a pool or a walk cut short earlier becomes an error before
\* the next root, although neither reports it.
OnlyLastRootCut ==
  stage = "done" =>
    /\ AllProcesses /\ NoProcessTwice
    /\ \A x \in Positions : x[1] < Len(Roots) /\ FirstOfKey(x) => At(x) \in ElementsOf(inventory)

\* Collect always returns: no worker is left blocked on a channel, whoever
\* returns early on a cancelled context.
CollectReturns == <>(stage \in {"done", "failed"})

\* Collect's comment: it "executes a full discovery pass".  A payload that it
\* returns without an error is complete.
PayloadIsComplete == stage = "done" => Complete
=============================================================================
