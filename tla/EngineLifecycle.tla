-------------------------- MODULE EngineLifecycle --------------------------
(***************************************************************************)
(* What an engine promises to the program that commands it and to the      *)
(* listener behind the virtual cable, without threads, queues or flags:    *)
(* one lifecycle, at most one output session at a time, one session per    *)
(* run, frames only inside the session of the current run, and a Stopped   *)
(* or a new run only after the session has been closed.                    *)
(***************************************************************************)
EXTENDS Naturals

VARIABLES
  phase,      \* the lifecycle state shown to the user
  current,    \* the number of runs launched so far, 0 before the first
  session,    \* the run whose output session is open, 0 for none
  opened,     \* the current run has opened its session
  delivered   \* frames the output accepted in the current run

lifecycleVars == <<phase, current, session, opened, delivered>>

Init ==
  /\ phase = "Stopped"
  /\ current = 0
  /\ session = 0
  /\ opened = FALSE
  /\ delivered = 0

\* An explicit start of a stopped or failed engine, with nothing left open.
Launch ==
  /\ phase \in {"Stopped", "Failed"}
  /\ session = 0
  /\ phase' = "Starting"
  /\ current' = current + 1
  /\ opened' = FALSE
  /\ delivered' = 0
  /\ UNCHANGED session

OpenSession ==
  /\ phase \in {"Starting", "Failed"}
  /\ ~opened
  /\ session = 0
  /\ session' = current
  /\ opened' = TRUE
  /\ UNCHANGED <<phase, current, delivered>>

Deliver ==
  /\ session = current
  /\ phase # "Stopped"
  /\ delivered' = delivered + 1
  /\ UNCHANGED <<phase, current, session, opened>>

CloseSession ==
  /\ session # 0
  /\ session' = 0
  /\ UNCHANGED <<phase, current, opened, delivered>>

Ready ==
  /\ phase = "Starting"
  /\ session = current
  /\ phase' = "Running"
  /\ UNCHANGED <<current, session, opened, delivered>>

FailRun ==
  /\ phase \in {"Starting", "Running", "Stopping"}
  /\ phase' = "Failed"
  /\ UNCHANGED <<current, session, opened, delivered>>

RequestStop ==
  /\ phase \in {"Starting", "Running", "Failed"}
  /\ phase' = "Stopping"
  /\ UNCHANGED <<current, session, opened, delivered>>

FinishStop ==
  /\ phase \in {"Stopping", "Failed"}
  /\ session = 0
  /\ phase' = "Stopped"
  /\ UNCHANGED <<current, session, opened, delivered>>

Next ==
  \/ Launch \/ OpenSession \/ Deliver \/ CloseSession
  \/ Ready \/ FailRun \/ RequestStop \/ FinishStop

Spec == Init /\ [][Next]_lifecycleVars
=============================================================================
