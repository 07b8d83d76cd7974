------------------------------ MODULE MCBypass ------------------------------
(* Instances of BypassEngine for TLC. *)
EXTENDS BypassEngine

OneCaller == {"ui"}
TwoCallers == {"menu", "poll"}
NoFaults == {}
Spawn == {"spawn"}
SlowJoin == {"slow_join"}
SpawnAndSlowReady == {"spawn", "slow_ready"}
=============================================================================
