---------------------------- MODULE MCStandalone ----------------------------
(* The parts that share nothing with each other at run time, in one run:    *)
(* Init picks one of them, and only that one takes steps.                   *)
EXTENDS AgentSchedule, Dashboard, GraphBackoff, EnvelopeCrypto, CloudScan

VARIABLE part

MCIntervals == {Missing, Empty, Malformed, 0, 2, 5}
MCJitters   == {Missing, Empty, Malformed, 0, 3}

Parts == {"schedule", "dashboard", "backoff", "crypto", "cloud"}

\* A part that was not picked has one initial state.
PartInit ==
  /\ part \in Parts
  /\ ScheduleInit /\ DashboardInit /\ BackoffInit /\ CryptoInit /\ CloudInit
  /\ part # "schedule" => ~verify /\ file = [readable |-> TRUE, complete |-> TRUE,
                                             interval |-> 2, jitter |-> 0]
  /\ part # "crypto" => kms

PartNext ==
  \/ part = "schedule" /\ ScheduleNext
     /\ UNCHANGED <<part, dashboardVars, backoffVars, cryptoVars, cloudVars>>
  \/ part = "dashboard" /\ DashboardNext
     /\ UNCHANGED <<part, scheduleVars, backoffVars, cryptoVars, cloudVars>>
  \/ part = "backoff" /\ BackoffNext
     /\ UNCHANGED <<part, scheduleVars, dashboardVars, cryptoVars, cloudVars>>
  \/ part = "crypto" /\ CryptoNext
     /\ UNCHANGED <<part, scheduleVars, dashboardVars, backoffVars, cloudVars>>
  \/ part = "cloud" /\ CloudNext
     /\ UNCHANGED <<part, scheduleVars, dashboardVars, backoffVars, cryptoVars>>

PartSpec == PartInit /\ [][PartNext]_<<part, scheduleVars, dashboardVars, backoffVars,
                                      cryptoVars, cloudVars>>

\* The inductive invariants of the parts, their types among them.
PartInv == ScheduleInv /\ PageInv /\ BackoffInv /\ CryptoInv /\ CloudInv
=============================================================================
