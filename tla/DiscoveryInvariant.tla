------------------------- MODULE DiscoveryInvariant -------------------------
(* Why a scan is complete unless it was cancelled, and what it has even    *)
(* then: inductive invariants of the process pool and of the walk.         *)
EXTENDS DiscoveryScan

Starting == stage \in {"hardware", "list"}

\* Before the list is there, nothing of the pool is; after it nobody works.
PoolAtRest ==
  /\ Starting => listed = {} /\ resultsChan = <<>>
  /\ stage # "pool" => \A w \in PoolWorkers : pc[w] = "off"

\* A worker has one process while it reads or sends it, and none otherwise.
InHand ==
  \A w \in PoolWorkers :
    IF pc[w] \in {"check", "send"}
    THEN \E p \in listed : proc[w] = {p}
    ELSE proc[w] = {}

\* A listed process is in the channel, or with one worker, or reported.
Apart ==
  /\ \A w \in PoolWorkers : proc[w] \intersect procChan = {}
  /\ \A v, w \in PoolWorkers : v # w => proc[v] \intersect proc[w] = {}
  /\ \A i \in DOMAIN resultsChan :
       /\ resultsChan[i] \notin procChan
       /\ \A w \in PoolWorkers : resultsChan[i] \notin proc[w]
  /\ NoProcessTwice

\* Only a cancelled context makes one go missing.
Conserved ==
  ~cancelled =>
    /\ \A p \in listed :
         \/ p \in procChan
         \/ \E w \in PoolWorkers : p \in proc[w]
         \/ \E i \in DOMAIN resultsChan : resultsChan[i] = p
    /\ ~Starting /\ procChan # {} => \A w \in PoolWorkers : pc[w] # "off"
    /\ stage \notin {"hardware", "list", "failed"} => listed = Procs

\* The walk is within a root that exists, and counts its files from one.
WalkInBounds ==
  /\ stage = "walk" => root <= Len(Roots) /\ root \notin Missing
  /\ file >= 1

PoolInv ==
  /\ TypeOK
  /\ WalkInBounds
  /\ PoolAtRest
  /\ InHand
  /\ Apart
  /\ Conserved

-----------------------------------------------------------------------------
\* The walk has come past a place: root and file are its position in every stage.
Past(x) == x[1] < root \/ (x[1] = root /\ x[2] < file)

WalkPosition ==
  /\ stage \in {"hardware", "list", "pool", "roots"} => file = 1
  /\ stage \in {"apps", "match", "done"} => root = Len(Roots) + 1
  /\ stage \in {"match", "done"} /\ ~cancelled => file > Len(Apps)

KeysDistinct ==
  \A i, j \in DOMAIN inventory : KeyOf[inventory[i]] = KeyOf[inventory[j]] => i = j

\* The inventory is what a full pass would have up to here.
UpToHere ==
  /\ \A f \in ElementsOf(inventory) : \E x \in Positions : Past(x) /\ FirstOfKey(x) /\ At(x) = f
  /\ \A x \in Positions : Past(x) /\ FirstOfKey(x) => At(x) \in ElementsOf(inventory)
  /\ \A x \in Positions : Past(x) /\ Usable(x) =>
       \E g \in ElementsOf(inventory) : KeyOf[g] = KeyOf[At(x)]

InUse ==
  stage = "done" =>
    active = {f \in ElementsOf(inventory) :
                \E p \in ElementsOf(resultsChan) : <<f, p>> \in Runs}

TagInv ==
  /\ WalkPosition
  /\ KeysDistinct
  /\ ~cancelled => UpToHere
  /\ InUse

\* The walks before this root were followed by a look at the context that found
\* it in order; the last one that has ended was not, until the next root begins.
Certain(x) == x[1] < IF stage = "walk" THEN root ELSE root - 1

RootsInv ==
  /\ stage \in {"hardware", "list", "pool"} => root = 1
  /\ stage = "walk" \/ root > 1 => AllProcesses
  /\ \A x \in Positions : Certain(x) /\ FirstOfKey(x) => At(x) \in ElementsOf(inventory)

ScanInv == PoolInv /\ TagInv /\ RootsInv
=============================================================================
