------------------------- MODULE PipelineInvariant -------------------------
(* Why TelemetryPipeline's properties hold: an inductive invariant.        *)
EXTENDS TelemetryPipeline, AgentInvariant

\* The service has a place for every payload it answered with 2xx, and has no
\* other payload.
Backed == accepted = Service!Inside \union stored \union dropped

\* Agent and service between them have every payload.
CustodyInv == AgentInv /\ PipelineTypeOK /\ Backed

-----------------------------------------------------------------------------
(* Who may be older than whom.                                             *)

Excused == deferred \union overtaken

\* What has been cached or abandoned is deferred, and a scanner that holds an
\* older payload than one the backend has, has seen it go past.
Outside ==
  /\ PayloadsOf(rows) \union late \subseteq deferred
  /\ \A p \in Held(Scanners), q \in accepted : p < q => p \in Excused

\* The same for a payload in the service and one in front of it there.
InLine  == \A i, j \in 1 .. Len(line) : i < j /\ line[j] < line[i] => line[j] \in Excused
Behind  == \A p \in Service!Waiting, q \in Service!Taken : p < q => p \in Excused
PastRow ==
  /\ row # NoPayload => row \in stored
  /\ \A p \in Service!Inside : p < row => p \in Excused

OrderInv == Outside /\ InLine /\ Behind /\ PastRow

-----------------------------------------------------------------------------
(* Who may be there twice.                                                 *)

\* A payload is in one place of the service, unless it came in again.
LineApart   == \A i, j \in 1 .. Len(line) : i # j /\ line[i] = line[j] => line[i] \in again
HandsApart  == \A w, v \in Workers : w # v /\ busy[w] = busy[v] /\ busy[w] # NoPayload => busy[w] \in again
PlacesApart ==
  /\ Service!Waiting \intersect Service!Taken \subseteq again
  /\ Service!Inside \intersect (stored \union dropped) \subseteq again

CopiesInv == LineApart /\ HandsApart /\ PlacesApart

\* What the composition adds to AgentInv; the two together are inductive.
PipelineInv == PipelineTypeOK /\ Backed /\ OrderInv /\ CopiesInv
=============================================================================
