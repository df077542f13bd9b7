------------------------ MODULE DiscoveryScan_proofs ------------------------
(***************************************************************************)
(* A scan, for any process table, number of workers and tag files.  The    *)
(* pool: nothing is reported twice, and a result always finds a free slot. *)
(* The walk: of every key the first tag.  Together: a payload is complete  *)
(* unless the context was cancelled, and even then but for the last root   *)
(* and the applications.                                                   *)
(***************************************************************************)
EXTENDS DiscoveryInvariant, FiniteSetTheorems, TLAPS

\* Distinct results out of a finite set that misses a process of it are fewer
\* than its members: the pigeonhole principle.
LEMMA FewerResults ==
  ASSUME NEW S, IsFiniteSet(S), NEW p \in S, NEW s \in Seq(S),
         \A i \in DOMAIN s : s[i] # p,
         \A i, j \in DOMAIN s : s[i] = s[j] => i = j
  PROVE  Len(s) < Cardinality(S)
<1>1. /\ Len(s) \in Nat /\ DOMAIN s = 1 .. Len(s)
      /\ s \in [1 .. Len(s) -> S \ {p}]
  OBVIOUS
<1>2. /\ IsFiniteSet(S \ {p}) /\ Cardinality(S \ {p}) = Cardinality(S) - 1
      /\ Cardinality(S) \in Nat
  BY FS_RemoveElement, FS_CardinalityType
<1>3. IsFiniteSet(1 .. Len(s)) /\ Cardinality(1 .. Len(s)) = Len(s)
  <2>1. IsFiniteSet(1 .. Len(s)) /\ Cardinality(1 .. Len(s)) = IF 1 > Len(s) THEN 0 ELSE Len(s) - 1 + 1
    BY <1>1, FS_Interval
  <2> QED
    BY <1>1, <2>1
<1>4. ~(Cardinality(S \ {p}) < Len(s))
  BY <1>1, <1>2, <1>3, FS_PigeonHole
<1> QED
  BY <1>1, <1>2, <1>4

\* A sequence without repetition has as many members as places.
LEMMA CountMembers ==
  ASSUME NEW S, NEW s \in Seq(S), \A i, j \in DOMAIN s : s[i] = s[j] => i = j
  PROVE  Cardinality(ElementsOf(s)) = Len(s)
<1>1. Len(s) \in Nat /\ DOMAIN s = 1 .. Len(s) /\ s \in [1 .. Len(s) -> ElementsOf(s)]
  BY DEF ElementsOf
<1>2. s \in Surjection(1 .. Len(s), ElementsOf(s)) /\ s \in Injection(1 .. Len(s), ElementsOf(s))
  BY <1>1 DEF Surjection, Injection, IsInjective, ElementsOf
<1>3. IsFiniteSet(1 .. Len(s)) /\ Cardinality(1 .. Len(s)) = IF 1 > Len(s) THEN 0 ELSE Len(s) - 1 + 1
  BY <1>1, FS_Interval
<1>4. Cardinality(ElementsOf(s)) = Cardinality(1 .. Len(s))
  BY <1>2, <1>3, FS_Surjection
<1> QED
  BY <1>1, <1>3, <1>4

LEMMA NoResultsYet ==
  ASSUME NEW S, IsFiniteSet(S)
  PROVE  <<>> \in Seq(S) /\ Len(<<>>) <= Cardinality(S)
<1>1. <<>> \in Seq(S) /\ Len(<<>>) = 0
  OBVIOUS
<1> QED
  BY <1>1, FS_CardinalityType

\* Any part of the process table is finite.
LEMMA Finite ==
  ASSUME NEW S \in SUBSET Procs
  PROVE  IsFiniteSet(S)
BY ScanAssumption, FS_Subset

-----------------------------------------------------------------------------
(* Types, and the walk's indices.                                          *)

LEMMA TypeInit == Init => TypeOK /\ WalkInBounds
<1> SUFFICES ASSUME Init PROVE TypeOK /\ WalkInBounds
  OBVIOUS
<1>1. resultsChan \in Seq(listed) /\ Len(resultsChan) <= Cardinality(listed)
  BY FS_EmptySet, NoResultsYet DEF Init
<1>2. root \in 1 .. Len(Roots) + 1 /\ Len(Roots) \in Nat
  BY ScanAssumption DEF Init
<1>3. inventory \in Seq(Files)
  BY DEF Init
<1>4. /\ pc \in [PoolWorkers -> {"range", "check", "send", "off"}]
      /\ proc \in [PoolWorkers -> SUBSET Procs]
      /\ listed \subseteq Procs /\ procChan \subseteq listed /\ active \subseteq Files
  BY DEF Init
<1>5. file = 1 /\ stage = "hardware" /\ cancelled \in BOOLEAN
  BY DEF Init
<1> QED
  BY <1>1, <1>2, <1>3, <1>4, <1>5 DEF TypeOK, WalkInBounds

\* The cross-reference, the pool and the walk each leave the others alone.
LEMMA TypeStep ==
  TypeOK /\ WalkInBounds /\ PoolAtRest /\ InHand /\ [Next]_vars => TypeOK' /\ WalkInBounds'
<1> SUFFICES ASSUME TypeOK, WalkInBounds, PoolAtRest, InHand, [Next]_vars
             PROVE  TypeOK' /\ WalkInBounds'
  OBVIOUS
<1> USE DEF TypeOK, WalkInBounds
<1>0. /\ Len(Roots) \in Nat /\ root \in Nat /\ file \in Nat /\ Roots \in Seq(Seq(Files))
      /\ DOMAIN Roots = 1 .. Len(Roots) /\ KeyOf \in [Files -> Keys \union {NoKey}]
  BY ScanAssumption
<1>1. CASE HardwareOk \/ HardwareFails \/ ListFails \/ PoolDone \/ Cancel
  BY <1>1 DEF HardwareOk, HardwareFails, ListFails, PoolDone, Cancel, table, walk
<1>2. CASE ListProcesses
  <2>1. resultsChan' \in Seq(listed') /\ Len(resultsChan') <= Cardinality(listed')
    BY <1>2, Finite, NoResultsYet DEF ListProcesses, PoolAtRest, Starting
  <2> QED
    BY <1>2, <2>1 DEF ListProcesses, walk
<1>3. ASSUME NEW w \in PoolWorkers, Pool(w) PROVE TypeOK' /\ WalkInBounds'
  <2>1. CASE TakeProcess(w)
    BY <2>1 DEF TakeProcess, walk
  <2>2. CASE WorkerReturns(w) \/ ReadProcess(w)
    BY <2>2 DEF WorkerReturns, ReadProcess, walk
  <2>3. CASE SendResult(w)
    <3>1. PICK p \in listed : resultsChan' = Append(resultsChan, p)
      BY <2>3 DEF SendResult, InHand
    <3>2. Cardinality(listed) \in Nat /\ Len(resultsChan) < Cardinality(listed)
      BY <2>3, Finite, FS_CardinalityType DEF SendResult, ResultsCap
    <3>3. resultsChan' \in Seq(listed) /\ Len(resultsChan') <= Cardinality(listed)
      BY <3>1, <3>2
    <3> QED
      BY <2>3, <3>3 DEF SendResult, walk
  <2> QED
    BY <1>3, <2>1, <2>2, <2>3 DEF Pool
<1>4. ASSUME NEW f \in Files, AddTag(f) PROVE inventory' \in Seq(Files)
  BY <1>4 DEF AddTag
<1>5. CASE Walk
  <2>1. CASE RootCancelled \/ RootEnter \/ RootsDone
    BY <1>0, <2>1 DEF RootCancelled, RootEnter, RootsDone, table, walk
  <2>2. CASE RootMissing \/ WalkEnds
    <3>1. root <= Len(Roots) /\ root' = root + 1
      BY <2>2 DEF RootMissing, WalkEnds
    <3>2. root' \in 1 .. Len(Roots) + 1
      BY <1>0, <3>1
    <3> QED
      BY <1>0, <2>2, <3>2 DEF RootMissing, WalkEnds, table, walk
  <2>3. CASE WalkFile
    <3>1. Roots[root] \in Seq(Files)
      BY <1>0, <2>3 DEF WalkFile
    <3>2. Roots[root][file] \in Files
      BY <1>0, <2>3, <3>1 DEF WalkFile
    <3>3. inventory' \in Seq(Files)
      BY <1>4, <2>3, <3>2 DEF WalkFile
    <3> QED
      BY <1>0, <2>3, <3>3 DEF WalkFile, table
  <2> QED
    BY <1>5, <2>1, <2>2, <2>3 DEF Walk
<1>6. CASE ScanApp
  <2>1. Apps[file] \in Files
    BY <1>0, <1>6, ScanAssumption DEF ScanApp
  <2> QED
    BY <1>0, <1>4, <1>6, <2>1 DEF ScanApp, table
<1>7. CASE AppsDone
  BY <1>7 DEF AppsDone, table, walk
<1>8. CASE CrossReference
  <2>1. active' \subseteq Files
    BY <1>8 DEF CrossReference, ElementsOf
  <2> QED
    BY <1>8, <2>1 DEF CrossReference, table, walk
<1>9. CASE UNCHANGED vars
  BY <1>9 DEF vars, table, walk
<1> QED
  BY <1>1, <1>2, <1>3, <1>5, <1>6, <1>7, <1>8, <1>9 DEF Next, Collect

-----------------------------------------------------------------------------
(* The pool.                                                               *)

LEMMA PoolInit == Init => PoolAtRest /\ InHand /\ Apart /\ Conserved
BY DEF Init, PoolAtRest, Starting, InHand, Apart, NoProcessTwice, Conserved

\* Outside the pool's own steps and the list, only the stage matters to it.
LEMMA StageStep ==
  ASSUME PoolInv, UNCHANGED table, cancelled => cancelled',
         \/ stage' = stage
         \/ stage = "hardware" /\ stage' = "list"
         \/ Starting /\ stage' = "failed"
         \/ ~Starting /\ ~Starting' /\ (stage = "pool" => \A w \in PoolWorkers : pc[w] = "off")
            /\ stage # "failed"
  PROVE  PoolAtRest' /\ InHand' /\ Apart' /\ Conserved'
<1>1. InHand' /\ Apart'
  BY DEF PoolInv, table, InHand, Apart, NoProcessTwice
<1>2. Starting => procChan = {}
  BY DEF PoolInv, TypeOK, PoolAtRest
<1>3. stage \in {"hardware", "list", "pool", "roots", "walk", "apps", "match", "done", "failed"}
  BY DEF PoolInv, TypeOK
<1>4. PoolAtRest'
  BY <1>3 DEF PoolInv, table, PoolAtRest, Starting
<1>5. Conserved'
  BY <1>2, <1>3 DEF PoolInv, table, Conserved, Starting
<1> QED
  BY <1>1, <1>4, <1>5

LEMMA PoolStep == PoolInv /\ [Next]_vars => PoolAtRest' /\ InHand' /\ Apart' /\ Conserved'
<1> SUFFICES ASSUME PoolInv, [Next]_vars
             PROVE  PoolAtRest' /\ InHand' /\ Apart' /\ Conserved'
  OBVIOUS
<1>0. TypeOK /\ PoolAtRest /\ InHand /\ Apart /\ Conserved /\ NoProcessTwice
  BY DEF PoolInv, Apart
<1>1. CASE HardwareOk \/ HardwareFails \/ ListFails \/ PoolDone \/ Cancel
  BY <1>1, StageStep DEF HardwareOk, HardwareFails, ListFails, PoolDone, Cancel, Starting
<1>2. CASE Walk \/ ScanApp \/ AppsDone \/ CrossReference
  BY <1>2, StageStep DEF Walk, RootCancelled, RootMissing, RootEnter, WalkFile, WalkEnds,
                         RootsDone, ScanApp, AppsDone, CrossReference, Starting
<1>3. CASE UNCHANGED vars
  BY <1>3, StageStep DEF vars
<1>4. CASE ListProcesses
  <2>1. /\ listed' = Procs /\ procChan' = Procs /\ resultsChan' = <<>> /\ proc' = proc
        /\ stage' = "pool" /\ \A w \in PoolWorkers : pc'[w] = "range" /\ proc[w] = {}
    BY <1>0, <1>4 DEF ListProcesses, PoolAtRest, Starting, InHand
  <2> QED
    BY <2>1 DEF PoolAtRest, Starting, InHand, Apart, NoProcessTwice, Conserved
<1>5. ASSUME NEW w \in PoolWorkers, Pool(w)
      PROVE  PoolAtRest' /\ InHand' /\ Apart' /\ Conserved'
  <2>1. PoolAtRest' /\ ~Starting
    BY <1>0, <1>5 DEF Pool, TakeProcess, WorkerReturns, ReadProcess, SendResult, PoolAtRest, Starting
  <2>2. CASE TakeProcess(w)
    <3>1. PICK p \in procChan : procChan' = procChan \ {p} /\ proc' = [proc EXCEPT ![w] = {p}]
      BY <2>2 DEF TakeProcess
    <3>2. /\ pc[w] = "range" /\ pc' = [pc EXCEPT ![w] = "check"] /\ proc[w] = {}
          /\ p \in listed
          /\ UNCHANGED <<stage, cancelled, listed, resultsChan>>
      BY <1>0, <2>2 DEF TakeProcess, TypeOK, InHand
    <3>3. \A v \in PoolWorkers : /\ proc'[v] = IF v = w THEN {p} ELSE proc[v]
                                 /\ pc'[v] = IF v = w THEN "check" ELSE pc[v]
      BY <1>0, <3>1, <3>2 DEF TypeOK
    <3>4. InHand'
      BY <1>0, <3>2, <3>3 DEF InHand
    <3>5. Apart'
      BY <1>0, <3>1, <3>2, <3>3 DEF Apart, NoProcessTwice
    <3>6. Conserved'
      BY <1>0, <3>1, <3>2, <3>3 DEF Conserved, Starting
    <3> QED
      BY <2>1, <3>4, <3>5, <3>6
  <2>3. CASE WorkerReturns(w)
    <3>1. /\ UNCHANGED <<stage, cancelled, listed, procChan, resultsChan>>
          /\ \/ pc[w] = "range" /\ procChan = {}
             \/ cancelled
          /\ \A v \in PoolWorkers : /\ proc'[v] = IF v = w THEN {} ELSE proc[v]
                                    /\ pc'[v] = IF v = w THEN "off" ELSE pc[v]
      BY <1>0, <2>3 DEF WorkerReturns, TypeOK
    <3>2. InHand'
      BY <1>0, <3>1 DEF InHand
    <3>3. Apart'
      BY <1>0, <3>1 DEF Apart, NoProcessTwice
    <3>4. pc[w] = "range" => proc[w] = {}
      BY <1>0 DEF InHand
    <3>5. Conserved'
      BY <1>0, <3>1, <3>4 DEF Conserved, Starting
    <3> QED
      BY <2>1, <3>2, <3>3, <3>5
  <2>4. CASE ReadProcess(w)
    <3>1. /\ UNCHANGED <<stage, cancelled, listed, procChan, resultsChan, proc>>
          /\ pc[w] = "check"
          /\ \A v \in PoolWorkers : pc'[v] = IF v = w THEN "send" ELSE pc[v]
      BY <1>0, <2>4 DEF ReadProcess, TypeOK
    <3>2. InHand' /\ Apart'
      BY <1>0, <3>1 DEF InHand, Apart, NoProcessTwice
    <3>3. Conserved'
      BY <1>0, <3>1 DEF Conserved, Starting
    <3> QED
      BY <2>1, <3>2, <3>3
  <2>5. CASE SendResult(w)
    <3>1. PICK p \in listed : proc[w] = {p}
      BY <1>0, <2>5 DEF SendResult, InHand
    <3>2. /\ resultsChan' = Append(resultsChan, p)
          /\ pc[w] = "send"
          /\ UNCHANGED <<stage, cancelled, listed, procChan>>
          /\ \A v \in PoolWorkers : /\ proc'[v] = IF v = w THEN {} ELSE proc[v]
                                    /\ pc'[v] = IF v = w THEN "range" ELSE pc[v]
      BY <1>0, <2>5, <3>1 DEF SendResult, TypeOK
    <3>3. /\ resultsChan \in Seq(listed) /\ Len(resultsChan) \in Nat
          /\ DOMAIN resultsChan = 1 .. Len(resultsChan)
          /\ DOMAIN resultsChan' = 1 .. Len(resultsChan) + 1
          /\ \A i \in 1 .. Len(resultsChan) : resultsChan'[i] = resultsChan[i]
          /\ resultsChan'[Len(resultsChan) + 1] = p
      BY <1>0, <3>2 DEF TypeOK
    <3>4. \A i \in DOMAIN resultsChan' :
            \/ i \in DOMAIN resultsChan /\ resultsChan'[i] = resultsChan[i]
            \/ i = Len(resultsChan) + 1 /\ resultsChan'[i] = p
      BY <3>3
    <3>5. \A i \in DOMAIN resultsChan : i \in DOMAIN resultsChan' /\ resultsChan'[i] = resultsChan[i]
      BY <3>3
    <3>6. Len(resultsChan) + 1 \in DOMAIN resultsChan'
      BY <3>3
    <3>7. InHand'
      BY <1>0, <3>2 DEF InHand
    <3>8. p \notin procChan /\ \A v \in PoolWorkers : v # w => p \notin proc[v]
      BY <1>0, <3>1 DEF Apart
    <3>9. \A i \in DOMAIN resultsChan : resultsChan[i] # p
      BY <1>0, <3>1 DEF Apart
    <3>10. NoProcessTwice'
      BY <1>0, <3>4, <3>9 DEF NoProcessTwice
    <3>11. Apart'
      BY <1>0, <3>2, <3>4, <3>8, <3>10 DEF Apart
    <3>12. Conserved'
      BY <1>0, <3>1, <3>2, <3>3, <3>5, <3>6 DEF Conserved, Starting
    <3> QED
      BY <2>1, <3>7, <3>11, <3>12
  <2> QED
    BY <1>5, <2>2, <2>3, <2>4, <2>5 DEF Pool
<1> QED
  BY <1>1, <1>2, <1>3, <1>4, <1>5 DEF Next, Collect

-----------------------------------------------------------------------------
(* The walk.                                                               *)

LEMMA Sources == \A i \in 1 .. Len(Roots) + 1 : Source(i) \in Seq(Files)
<1>1. Len(Roots) \in Nat /\ \A i \in 1 .. Len(Roots) : Roots[i] \in Seq(Files)
  BY ScanAssumption
<1>2. Apps \in Seq(Files) /\ <<>> \in Seq(Files)
  BY ScanAssumption
<1> QED
  BY <1>1, <1>2 DEF Source

LEMMA PositionsAre ==
  ASSUME NEW x
  PROVE  x \in Positions <=>
           \E i \in 1 .. Len(Roots) + 1 : \E j \in DOMAIN Source(i) : x = <<i, j>>
BY DEF Positions

LEMMA Places ==
  /\ \A x \in Positions : /\ x[1] \in 1 .. Len(Roots) + 1 /\ x[2] \in DOMAIN Source(x[1])
                          /\ x[1] \in Nat /\ x[2] \in Nat \ {0} /\ At(x) \in Files
  /\ \A x, y \in Positions : x[1] = y[1] /\ x[2] = y[2] => x = y
<1>0. Len(Roots) \in Nat
  BY ScanAssumption
<1>1. ASSUME NEW i \in 1 .. Len(Roots) + 1, NEW j \in DOMAIN Source(i)
      PROVE  i \in Nat /\ j \in Nat \ {0} /\ Source(i)[j] \in Files
  <2>1. Source(i) \in Seq(Files)
    BY Sources
  <2> QED
    BY <1>0, <2>1
<1> QED
  BY <1>1, PositionsAre DEF At

\* One place further.
LEMMA OnePlaceFurther ==
  ASSUME root \in Nat, file \in Nat, NEW y \in Positions, y = <<root, file>>,
         root' = root, file' = file + 1
  PROVE  \A x \in Positions : /\ Past(x) <=> Before(x, y)
                             /\ Past(x)' <=> Past(x) \/ x = y
<1> SUFFICES ASSUME NEW x \in Positions
             PROVE  (Past(x) <=> Before(x, y)) /\ (Past(x)' <=> Past(x) \/ x = y)
  OBVIOUS
<1>1. y[1] = root /\ y[2] = file /\ x[1] \in Nat /\ x[2] \in Nat
  BY Places
<1>2. x = y <=> x[1] = root /\ x[2] = file
  BY <1>1, Places
<1> QED
  BY <1>1, <1>2 DEF Past, Before

LEMMA AddTagDistinct ==
  ASSUME inventory \in Seq(Files), KeysDistinct, NEW f \in Files, AddTag(f)
  PROVE  KeysDistinct'
<1>1. CASE inventory' = inventory
  BY <1>1 DEF KeysDistinct
<1>2. CASE inventory' = Append(inventory, f) /\ \A g \in ElementsOf(inventory) : KeyOf[g] # KeyOf[f]
  <2>1. /\ Len(inventory) \in Nat /\ DOMAIN inventory = 1 .. Len(inventory)
        /\ DOMAIN inventory' = 1 .. Len(inventory) + 1
        /\ \A i \in 1 .. Len(inventory) : inventory'[i] = inventory[i]
        /\ inventory'[Len(inventory) + 1] = f
    BY <1>2
  <2>2. \A i \in DOMAIN inventory' :
          \/ i \in DOMAIN inventory /\ inventory'[i] = inventory[i]
          \/ i = Len(inventory) + 1 /\ inventory'[i] = f
    BY <2>1
  <2>3. \A i \in DOMAIN inventory : KeyOf[inventory[i]] # KeyOf[f]
    BY <1>2 DEF ElementsOf
  <2> QED
    BY <2>2, <2>3 DEF KeysDistinct
<1> QED
  BY <1>1, <1>2 DEF AddTag

LEMMA ElementsOfAppend ==
  ASSUME NEW S, NEW s \in Seq(S), NEW f \in S
  PROVE  ElementsOf(Append(s, f)) = ElementsOf(s) \union {f}
<1> DEFINE t == Append(s, f)
<1>1. /\ Len(s) \in Nat /\ DOMAIN s = 1 .. Len(s) /\ DOMAIN t = 1 .. Len(s) + 1
      /\ \A i \in 1 .. Len(s) : t[i] = s[i]
      /\ t[Len(s) + 1] = f
  OBVIOUS
<1> HIDE DEF t
<1>2. /\ \A i \in DOMAIN t : i \in DOMAIN s \/ t[i] = f
      /\ \A i \in DOMAIN s : i \in DOMAIN t
      /\ Len(s) + 1 \in DOMAIN t
  BY <1>1
<1>3. ElementsOf(t) = ElementsOf(s) \union {f}
  BY <1>1, <1>2 DEF ElementsOf
<1> QED
  BY <1>3 DEF t

\* Whatever the walk does with the tag at y, it does what a full pass wants.
LEMMA VisitStep ==
  ASSUME UpToHere, inventory \in Seq(Files), NEW y \in Positions,
         \A x \in Positions : (Past(x) <=> Before(x, y)) /\ (Past(x)' <=> Past(x) \/ x = y),
         \/ inventory' = inventory /\ ~Usable(y)
         \/ AddTag(At(y)) /\ (Usable(y) <=> KeyOf[At(y)] # NoKey)
  PROVE  UpToHere'
<1> DEFINE Taken == \E g \in ElementsOf(inventory) : KeyOf[g] = KeyOf[At(y)]
<1>1. At(y) \in Files
  BY Places
<1>2. Taken <=> \E z \in Positions : Before(z, y) /\ Usable(z) /\ KeyOf[At(z)] = KeyOf[At(y)]
  BY DEF UpToHere, FirstOfKey
<1>3. FirstOfKey(y) <=> Usable(y) /\ ~Taken
  BY <1>2 DEF FirstOfKey
<1>4. CASE FirstOfKey(y)
  <2>1. inventory' = Append(inventory, At(y))
    BY <1>3, <1>4 DEF AddTag
  <2>2. ElementsOf(inventory') = ElementsOf(inventory) \union {At(y)}
    BY <1>1, <2>1, ElementsOfAppend
  <2>3. ElementsOf(inventory)' = ElementsOf(inventory')
    BY DEF ElementsOf
  <2>4. \A f \in ElementsOf(inventory)' : \E x \in Positions : Past(x)' /\ FirstOfKey(x) /\ At(x) = f
    BY <1>4, <2>2, <2>3 DEF UpToHere
  <2>5. \A x \in Positions : Past(x)' /\ FirstOfKey(x) => At(x) \in ElementsOf(inventory)'
    BY <2>2, <2>3 DEF UpToHere
  <2>6. \A x \in Positions : Past(x)' /\ Usable(x) =>
          \E g \in ElementsOf(inventory)' : KeyOf[g] = KeyOf[At(x)]
    BY <2>2, <2>3 DEF UpToHere
  <2> QED
    BY <2>4, <2>5, <2>6 DEF UpToHere
<1>5. CASE ~FirstOfKey(y)
  <2>1. inventory' = inventory
    BY <1>3, <1>5 DEF AddTag
  <2>2. ElementsOf(inventory)' = ElementsOf(inventory)
    BY <2>1 DEF ElementsOf
  <2>3. \A f \in ElementsOf(inventory)' : \E x \in Positions : Past(x)' /\ FirstOfKey(x) /\ At(x) = f
    BY <2>2 DEF UpToHere
  <2>4. \A x \in Positions : Past(x)' /\ FirstOfKey(x) => At(x) \in ElementsOf(inventory)'
    BY <1>5, <2>2 DEF UpToHere
  <2>5. \A x \in Positions : Past(x)' /\ Usable(x) =>
          \E g \in ElementsOf(inventory)' : KeyOf[g] = KeyOf[At(x)]
    BY <1>3, <1>5, <2>2 DEF UpToHere
  <2> QED
    BY <2>3, <2>4, <2>5 DEF UpToHere
<1> QED
  BY <1>4, <1>5

\* Moving on without a visit: no place lies in between.
LEMMA MoveStep ==
  ASSUME UpToHere, UNCHANGED inventory, \A x \in Positions : Past(x)' <=> Past(x)
  PROVE  UpToHere'
<1>1. ElementsOf(inventory)' = ElementsOf(inventory)
  BY DEF ElementsOf
<1> QED
  BY <1>1 DEF UpToHere

LEMMA TagInit == Init => TagInv
<1> SUFFICES ASSUME Init PROVE TagInv
  OBVIOUS
<1>1. \A x \in Positions : ~Past(x)
  BY Places DEF Init, Past
<1>2. inventory = <<>> /\ ElementsOf(inventory) = {} /\ DOMAIN inventory = {}
  BY DEF Init, ElementsOf
<1>3. UpToHere
  BY <1>1, <1>2 DEF UpToHere
<1> QED
  BY <1>2, <1>3 DEF Init, TagInv, WalkPosition, KeysDistinct, InUse

LEMMA TagStep ==
  TypeOK /\ WalkInBounds /\ PoolAtRest /\ TagInv /\ [Next]_vars => TagInv'
<1> SUFFICES ASSUME TypeOK, WalkInBounds, PoolAtRest, TagInv, [Next]_vars
             PROVE  TagInv'
  OBVIOUS
<1>0. /\ Len(Roots) \in Nat /\ root \in 1 .. Len(Roots) + 1 /\ root \in Nat
      /\ file \in Nat \ {0} /\ inventory \in Seq(Files)
  BY ScanAssumption DEF TypeOK, WalkInBounds
<1>1. WalkPosition /\ KeysDistinct /\ (~cancelled => UpToHere) /\ InUse
  BY DEF TagInv
<1>2. ASSUME UNCHANGED <<inventory, walk>>, cancelled => cancelled', stage' # "done",
             WalkPosition'
      PROVE  TagInv'
  <2>1. KeysDistinct' /\ InUse'
    BY <1>1, <1>2 DEF KeysDistinct, InUse
  <2>2. \A x \in Positions : Past(x)' <=> Past(x)
    BY <1>2 DEF Past, walk
  <2> QED
    BY <1>1, <1>2, <2>1, <2>2, MoveStep DEF TagInv
<1>3. CASE HardwareOk \/ HardwareFails \/ ListFails \/ PoolDone \/ ListProcesses
            \/ RootCancelled \/ RootsDone \/ AppsDone
  <2>1. /\ UNCHANGED <<inventory, walk, cancelled>> /\ stage' # "done"
    BY <1>3 DEF HardwareOk, HardwareFails, ListFails, PoolDone, ListProcesses, RootCancelled,
                RootsDone, AppsDone
  <2>2. WalkPosition'
    BY <1>0, <1>1, <1>3 DEF HardwareOk, HardwareFails, ListFails, PoolDone, ListProcesses,
         RootCancelled, RootsDone, AppsDone, WalkPosition, walk
  <2> QED
    BY <1>2, <2>1, <2>2
<1>4. CASE Cancel
  BY <1>1, <1>2, <1>4 DEF Cancel, WalkPosition, walk
<1>5. ASSUME NEW w \in PoolWorkers, Pool(w) PROVE TagInv'
  \* After the pool is done its workers are off: the results stand.
  <2>1. UNCHANGED <<stage, cancelled, walk, inventory, active>>
    BY <1>5 DEF Pool, TakeProcess, WorkerReturns, ReadProcess, SendResult
  <2>2. \A x \in Positions : Past(x)' <=> Past(x)
    BY <2>1 DEF Past, walk
  <2>3. KeysDistinct' /\ WalkPosition' /\ (~cancelled' => UpToHere')
    BY <1>1, <2>1, <2>2, MoveStep DEF KeysDistinct, WalkPosition, walk
  <2>4. stage # "done"
    BY <1>5 DEF PoolAtRest, Pool, TakeProcess, WorkerReturns, ReadProcess, SendResult
  <2>5. InUse'
    BY <2>1, <2>4 DEF InUse
  <2> QED
    BY <2>3, <2>5 DEF TagInv
<1>6. CASE RootMissing \/ RootEnter \/ WalkEnds
  <2>1. UNCHANGED <<inventory, cancelled>> /\ stage' # "done" /\ stage # "done"
    BY <1>6 DEF RootMissing, RootEnter, WalkEnds
  <2>2. WalkPosition'
    BY <1>1, <1>6 DEF RootMissing, RootEnter, WalkEnds, WalkPosition
  <2>3. KeysDistinct' /\ InUse'
    BY <1>1, <2>1 DEF KeysDistinct, InUse
  <2>4. ASSUME ~cancelled, NEW x \in Positions PROVE Past(x)' <=> Past(x)
    <3>1. /\ x[1] \in Nat /\ x[2] \in Nat \ {0} /\ x[2] \in DOMAIN Source(x[1])
      BY Places
    <3>2. CASE RootEnter
      BY <1>1, <3>2 DEF RootEnter, WalkPosition, Past
    <3>3. CASE RootMissing
      <4>1. Source(root) = <<>> /\ root' = root + 1 /\ file = 1 /\ file' = file
        BY <1>0, <1>1, <3>3 DEF RootMissing, Source, WalkPosition
      <4>2. x[1] # root
        BY <3>1, <4>1
      <4> QED
        BY <1>0, <3>1, <4>1, <4>2 DEF Past
    <3>4. CASE WalkEnds
      <4>1. root <= Len(Roots) /\ file > Len(Roots[root]) /\ root' = root + 1 /\ file' = 1
        BY <2>4, <3>4 DEF WalkEnds, WalkInBounds
      <4>2. Roots[root] \in Seq(Files) /\ Len(Roots[root]) \in Nat
        BY <1>0, <4>1, ScanAssumption
      <4>3. x[1] = root => x[2] <= Len(Roots[root])
        BY <1>0, <3>1, <4>1, <4>2 DEF Source
      <4> QED
        BY <1>0, <3>1, <4>1, <4>2, <4>3 DEF Past
    <3> QED
      BY <1>6, <3>2, <3>3, <3>4
  <2> QED
    BY <1>1, <2>1, <2>2, <2>3, <2>4, MoveStep DEF TagInv
<1>7. ASSUME WalkFile \/ ScanApp PROVE TagInv'
  <2>0. /\ <<root, file>> \in Positions
        /\ WalkFile => At(<<root, file>>) = Roots[root][file] /\ root <= Len(Roots)
        /\ ScanApp => At(<<root, file>>) = Apps[file] /\ ~(root <= Len(Roots))
    <3>1. CASE WalkFile
      <4>1. root <= Len(Roots) /\ file <= Len(Roots[root])
        BY <3>1 DEF WalkFile, WalkInBounds
      <4>2. Roots[root] \in Seq(Files) /\ (stage = "walk")
        BY <1>0, <3>1, <4>1, ScanAssumption DEF WalkFile
      <4>3. file \in DOMAIN Roots[root] /\ Roots[root][file] \in Files
        BY <1>0, <4>1, <4>2
      <4>4. root \notin Missing
        BY <3>1 DEF WalkFile, WalkInBounds
      <4> QED
        BY <1>0, <3>1, <4>1, <4>2, <4>3, <4>4, PositionsAre, Places DEF Source, At, ScanApp
    <3>2. CASE ScanApp
      <4>1. root = Len(Roots) + 1 /\ file <= Len(Apps) /\ Apps \in Seq(Files) /\ stage = "apps"
        BY <1>1, <3>2, ScanAssumption DEF ScanApp, WalkPosition
      <4>2. file \in DOMAIN Apps /\ Apps[file] \in Files /\ root > Len(Roots)
        BY <1>0, <4>1
      <4> QED
        BY <1>0, <3>2, <4>1, <4>2, PositionsAre, Places DEF Source, At, WalkFile
    <3> QED
      BY <1>7, <3>1, <3>2
  <2>1. PICK y \in Positions :
          /\ y = <<root, file>> /\ y[1] = root /\ At(y) \in Files
          /\ WalkFile => At(y) = Roots[root][file] /\ root <= Len(Roots)
          /\ ScanApp => At(y) = Apps[file] /\ ~(root <= Len(Roots))
    BY <2>0, Places
  <2>2. root' = root /\ file' = file + 1 /\ cancelled' = cancelled /\ stage' = stage
        /\ stage \in {"walk", "apps"}
    BY <1>7 DEF WalkFile, ScanApp
  <2>3. \/ inventory' = inventory /\ ~Usable(y)
        \/ AddTag(At(y)) /\ (Usable(y) <=> KeyOf[At(y)] # NoKey)
    BY <1>7, <2>1 DEF WalkFile, ScanApp, Usable
  <2>4. \A x \in Positions : (Past(x) <=> Before(x, y)) /\ (Past(x)' <=> Past(x) \/ x = y)
    <3>1. root \in Nat /\ file \in Nat /\ y = <<root, file>> /\ root' = root /\ file' = file + 1
      BY <1>0, <2>1, <2>2
    <3> QED
      BY <3>1, OnePlaceFurther DEF Past, Before
  <2>5. ~cancelled' => UpToHere'
    BY <1>0, <1>1, <2>1, <2>2, <2>3, <2>4, VisitStep
  <2>6. KeysDistinct'
    <3>1. CASE inventory' = inventory
      BY <1>1, <3>1 DEF KeysDistinct
    <3>2. CASE AddTag(At(y))
      BY <1>0, <1>1, <2>1, <3>2, AddTagDistinct
    <3> QED
      BY <2>3, <3>1, <3>2
  <2>7. WalkPosition' /\ InUse'
    BY <1>1, <2>2 DEF WalkPosition, InUse
  <2> QED
    BY <2>5, <2>6, <2>7 DEF TagInv
<1>8. CASE CrossReference
  <2>1. /\ UNCHANGED <<inventory, cancelled, root, file, resultsChan>> /\ stage' = "done" /\ stage = "match"
        /\ active' = {f \in ElementsOf(inventory) : \E p \in ElementsOf(resultsChan) : <<f, p>> \in Runs}
    BY <1>8 DEF CrossReference, walk, table
  <2>2. ElementsOf(inventory)' = ElementsOf(inventory) /\ ElementsOf(resultsChan)' = ElementsOf(resultsChan)
    BY <2>1 DEF ElementsOf
  <2>3. InUse'
    BY <2>1, <2>2 DEF InUse
  <2>4. WalkPosition' /\ KeysDistinct'
    BY <1>1, <2>1 DEF WalkPosition, KeysDistinct
  <2>5. \A x \in Positions : Past(x)' <=> Past(x)
    BY <2>1 DEF Past
  <2> QED
    BY <1>1, <2>1, <2>3, <2>4, <2>5, MoveStep DEF TagInv
<1>9. CASE UNCHANGED vars
  <2>1. \A x \in Positions : Past(x)' <=> Past(x)
    BY <1>9 DEF Past, vars, walk
  <2> QED
    BY <1>1, <1>9, <2>1, MoveStep DEF vars, walk, table, TagInv, WalkPosition, KeysDistinct, InUse, ElementsOf
<1> QED
  BY <1>3, <1>4, <1>5, <1>6, <1>7, <1>8, <1>9 DEF Next, Collect, Walk

-----------------------------------------------------------------------------
(* What a cancelled scan has all the same.                                 *)

\* The results of a pool that nobody cancelled: no process is left in procChan
\* or in the hands of a worker that has returned.
LEMMA AllReported ==
  ASSUME PoolInv, stage \in {"roots", "walk", "done"}, ~cancelled
  PROVE  AllProcesses
<1>1. listed = Procs /\ \A w \in PoolWorkers : pc[w] = "off" /\ proc[w] = {}
  BY DEF PoolInv, PoolAtRest, Conserved, InHand
<1>2. procChan = {}
  BY <1>1, ScanAssumption DEF PoolInv, Conserved, Starting
<1>3. \A p \in Procs : \E i \in DOMAIN resultsChan : resultsChan[i] = p
  BY <1>1, <1>2 DEF PoolInv, Conserved
<1>4. \A i \in DOMAIN resultsChan : resultsChan[i] \in Procs
  BY <1>1 DEF PoolInv, TypeOK
<1> QED
  BY <1>3, <1>4 DEF AllProcesses, ElementsOf

LEMMA RootsInit == Init => RootsInv
<1> SUFFICES ASSUME Init PROVE RootsInv
  OBVIOUS
<1>1. root = 1 /\ stage = "hardware"
  BY DEF Init
<1>2. \A x \in Positions : ~Certain(x)
  BY <1>1, Places DEF Certain
<1> QED
  BY <1>1, <1>2 DEF RootsInv

\* While no root is left or entered, what was certain stays so.
LEMMA CertainStays ==
  ASSUME TypeOK, RootsInv, root' = root, stage' = "walk" <=> stage = "walk",
         ElementsOf(inventory) \subseteq ElementsOf(inventory)'
  PROVE  \A x \in Positions : Certain(x)' /\ FirstOfKey(x) => At(x) \in ElementsOf(inventory)'
BY DEF RootsInv, Certain

LEMMA RootsStep == ScanInv /\ [Next]_vars => RootsInv'
<1> SUFFICES ASSUME ScanInv, [Next]_vars PROVE RootsInv'
  OBVIOUS
<1>0. /\ TypeOK /\ PoolAtRest /\ PoolInv /\ RootsInv /\ WalkPosition
      /\ ~cancelled => UpToHere
      /\ Len(Roots) \in Nat /\ root \in Nat \ {0} /\ inventory \in Seq(Files)
  BY ScanAssumption DEF ScanInv, PoolInv, TagInv, TypeOK
<1>1. ASSUME UNCHANGED <<root, resultsChan>>, stage' = "walk" <=> stage = "walk",
             stage' \in {"hardware", "list", "pool"} => stage \in {"hardware", "list", "pool"},
             ElementsOf(inventory) \subseteq ElementsOf(inventory)'
      PROVE  RootsInv'
  <2>1. AllProcesses' <=> AllProcesses
    BY <1>1 DEF AllProcesses, ElementsOf
  <2> QED
    BY <1>0, <1>1, <2>1, CertainStays DEF RootsInv
<1>2. CASE \/ HardwareOk \/ HardwareFails \/ ListFails \/ ListProcesses \/ PoolDone \/ Cancel
           \/ RootCancelled \/ RootsDone \/ AppsDone \/ CrossReference \/ UNCHANGED vars
  <2>1. ElementsOf(inventory)' = ElementsOf(inventory)
    BY <1>2 DEF HardwareOk, HardwareFails, ListFails, ListProcesses, PoolDone, Cancel,
       RootCancelled, RootsDone, AppsDone, CrossReference, vars, ElementsOf
  <2> QED
    BY <1>1, <1>2, <2>1 DEF HardwareOk, HardwareFails, ListFails, ListProcesses, PoolDone, Cancel,
       RootCancelled, RootsDone, AppsDone, CrossReference, vars, table, walk
<1>3. ASSUME NEW w \in PoolWorkers, Pool(w) PROVE RootsInv'
  \* The workers run only before the first root.
  <2>1. UNCHANGED <<stage, root, inventory>> /\ pc[w] # "off"
    BY <1>3 DEF Pool, TakeProcess, WorkerReturns, ReadProcess, SendResult, walk
  <2>2. stage = "pool" /\ root = 1
    BY <1>0, <2>1 DEF PoolAtRest, RootsInv
  <2>3. ElementsOf(inventory)' = ElementsOf(inventory)
    BY <2>1 DEF ElementsOf
  <2> QED
    BY <1>0, <2>1, <2>2, <2>3, CertainStays DEF RootsInv
<1>4. CASE WalkFile \/ ScanApp
  <2>1. \/ inventory' = inventory
        \/ \E f \in Files : inventory' = Append(inventory, f)
    <3>1. CASE WalkFile
      <4>1. Roots[root] \in Seq(Files) /\ file \in DOMAIN Roots[root]
        BY <1>0, <3>1, ScanAssumption DEF ScanInv, PoolInv, WalkInBounds, WalkFile, TypeOK
      <4> QED
        BY <3>1, <4>1 DEF WalkFile, AddTag
    <3>2. CASE ScanApp
      <4>1. Apps[file] \in Files
        BY <1>0, <3>2, ScanAssumption DEF ScanInv, PoolInv, WalkInBounds, ScanApp, TypeOK
      <4> QED
        BY <3>2, <4>1 DEF ScanApp, AddTag
    <3> QED
      BY <1>4, <3>1, <3>2
  <2>2. ElementsOf(inventory) \subseteq ElementsOf(inventory')
    <3>1. CASE inventory' = inventory
      BY <3>1
    <3>2. ASSUME NEW f \in Files, inventory' = Append(inventory, f)
          PROVE  ElementsOf(inventory') = ElementsOf(inventory) \union {f}
      BY <1>0, <3>2, ElementsOfAppend
    <3> QED
      BY <2>1, <3>1, <3>2
  <2>3. ElementsOf(inventory)' = ElementsOf(inventory')
    BY DEF ElementsOf
  <2> QED
    BY <1>1, <1>4, <2>2, <2>3 DEF WalkFile, ScanApp, table
<1>5. CASE RootEnter \/ RootMissing
  \* The context was found in order: the pool and all walks so far were complete.
  <2>1. /\ ~cancelled /\ stage = "roots" /\ UNCHANGED <<inventory, resultsChan>>
        /\ \/ stage' = "walk" /\ root' = root
           \/ stage' = "roots" /\ root' = root + 1
    BY <1>5 DEF RootEnter, RootMissing, table
  <2>2. AllProcesses /\ (AllProcesses' <=> AllProcesses)
    BY <1>0, <2>1, AllReported DEF AllProcesses, ElementsOf
  <2>3. ASSUME NEW x \in Positions, Certain(x)' PROVE Past(x)
    BY <1>0, <2>1, <2>3, Places DEF Certain, Past
  <2>4. ElementsOf(inventory)' = ElementsOf(inventory)
    BY <2>1 DEF ElementsOf
  <2> QED
    BY <1>0, <2>1, <2>2, <2>3, <2>4 DEF RootsInv, UpToHere
<1>6. CASE WalkEnds
  <2>1. /\ stage = "walk" /\ stage' = "roots" /\ root' = root + 1
        /\ UNCHANGED <<inventory, resultsChan>>
    BY <1>6 DEF WalkEnds, table
  <2>2. AllProcesses /\ (AllProcesses' <=> AllProcesses)
    BY <1>0, <2>1 DEF RootsInv, AllProcesses, ElementsOf
  <2>3. \A x \in Positions : Certain(x)' <=> Certain(x)
    BY <1>0, <2>1, Places DEF Certain
  <2>4. ElementsOf(inventory)' = ElementsOf(inventory)
    BY <2>1 DEF ElementsOf
  <2> QED
    BY <1>0, <2>1, <2>2, <2>3, <2>4 DEF RootsInv
<1> QED
  BY <1>2, <1>3, <1>4, <1>5, <1>6 DEF Next, Collect, Walk

-----------------------------------------------------------------------------
(* The theorems.                                                           *)

\* The pool's invariant holds in every state of a scan.
THEOREM PoolInvariantHolds == Spec => []PoolInv
<1>1. Init => PoolInv
  BY TypeInit, PoolInit DEF PoolInv
<1>2. PoolInv /\ [Next]_vars => PoolInv'
  BY TypeStep, PoolStep DEF PoolInv
<1> QED
  BY <1>1, <1>2, PTL DEF Spec

\* The scan keeps its types, the indices of the walk included.
THEOREM ScanTypeCorrect == Spec => []TypeOK
<1>1. PoolInv => TypeOK
  BY DEF PoolInv
<1> QED
  BY <1>1, PoolInvariantHolds, PTL

\* resultsChan, made with one slot per listed process, never blocks a worker
\* although it is drained only after all of them have returned.
THEOREM ScanSendNeverBlocks == Spec => []SendNeverBlocks
<1>1. PoolInv => SendNeverBlocks
  <2> SUFFICES ASSUME PoolInv, NEW w \in PoolWorkers, pc[w] = "send"
               PROVE  Len(resultsChan) < Cardinality(listed)
    BY DEF SendNeverBlocks, ResultsCap
  <2>1. PICK p \in listed : proc[w] = {p}
    BY DEF PoolInv, InHand
  <2>2. /\ \A i \in DOMAIN resultsChan : resultsChan[i] # p
        /\ \A i, j \in DOMAIN resultsChan : resultsChan[i] = resultsChan[j] => i = j
    BY <2>1 DEF PoolInv, Apart, NoProcessTwice
  <2>3. IsFiniteSet(listed) /\ resultsChan \in Seq(listed)
    BY Finite DEF PoolInv, TypeOK
  <2> QED
    BY <2>2, <2>3, FewerResults
<1> QED
  BY <1>1, PoolInvariantHolds, PTL

\* The invariant of the pool and of the walk holds in every state of a scan.
THEOREM ScanInvariantHolds == Spec => []ScanInv
<1>1. Init => ScanInv
  BY TypeInit, PoolInit, TagInit, RootsInit DEF ScanInv, PoolInv
<1>2. ScanInv /\ [Next]_vars => ScanInv'
  BY TypeStep, PoolStep, TagStep, RootsStep DEF ScanInv, PoolInv
<1> QED
  BY <1>1, <1>2, PTL DEF Spec

\* A payload misses no process and no first tag of a root before the last, even
\* if the context was cancelled while it was collected.
THEOREM ScanOnlyLastRootCut == Spec => []OnlyLastRootCut
<1>1. ScanInv => OnlyLastRootCut
  <2> SUFFICES ASSUME ScanInv, stage = "done"
               PROVE  /\ AllProcesses /\ NoProcessTwice
                      /\ \A x \in Positions : x[1] < Len(Roots) /\ FirstOfKey(x) =>
                                               At(x) \in ElementsOf(inventory)
    BY DEF OnlyLastRootCut
  <2>1. root = Len(Roots) + 1 /\ Len(Roots) \in Nat \ {0}
    BY ScanAssumption DEF ScanInv, TagInv, WalkPosition
  <2>2. \A x \in Positions : x[1] < Len(Roots) => Certain(x)
    BY <2>1 DEF Certain
  <2> QED
    BY <2>1, <2>2 DEF ScanInv, PoolInv, Apart, RootsInv
<1> QED
  BY <1>1, ScanInvariantHolds, PTL

\* The walk has come past every place, the last of the applications included.
LEMMA AllPast ==
  ASSUME PoolInv, TagInv, stage = "done", ~cancelled
  PROVE  \A x \in Positions : Past(x)
<1> SUFFICES ASSUME NEW x \in Positions PROVE Past(x)
  OBVIOUS
<1>1. /\ Len(Roots) \in Nat /\ root = Len(Roots) + 1 /\ file \in Nat /\ file > Len(Apps)
      /\ Apps \in Seq(Files)
  BY ScanAssumption DEF PoolInv, TypeOK, TagInv, WalkPosition
<1>2. x[1] \in 1 .. Len(Roots) + 1 /\ x[2] \in DOMAIN Source(x[1])
  BY Places
<1>3. x[1] = Len(Roots) + 1 => x[2] \in 1 .. Len(Apps)
  BY <1>1, <1>2 DEF Source
<1> QED
  BY <1>1, <1>2, <1>3 DEF Past

\* A payload of a scan that nobody cancelled has every listed process, of every
\* key the first readable tag in the order of the roots and then of the
\* applications, nothing twice, and exactly the running software in use.
THEOREM ScanCompleteUnlessCancelled == Spec => []CompleteUnlessCancelled
<1>1. ScanInv => CompleteUnlessCancelled
  <2> SUFFICES ASSUME ScanInv, stage = "done", ~cancelled PROVE Complete
    BY DEF CompleteUnlessCancelled
  <2>1. PoolInv /\ TagInv /\ inventory \in Seq(Files)
    BY DEF ScanInv, PoolInv, TypeOK
  <2>2. AllProcesses
    BY <2>1, AllReported
  <2>3. ElementsOf(inventory) = FirstTags
    BY <2>1, AllPast DEF TagInv, UpToHere, FirstTags
  <2>4. \A i, j \in DOMAIN inventory : inventory[i] = inventory[j] => i = j
    BY <2>1 DEF TagInv, KeysDistinct
  <2>5. Len(inventory) = Cardinality(FirstTags)
    BY <2>1, <2>3, <2>4, CountMembers
  <2>6. active = {f \in FirstTags : \E p \in Procs : <<f, p>> \in Runs}
    BY <2>1, <2>2, <2>3 DEF TagInv, InUse, AllProcesses
  <2> QED
    BY <2>2, <2>3, <2>5, <2>6 DEF Complete
<1> QED
  BY <1>1, ScanInvariantHolds, PTL
=============================================================================
