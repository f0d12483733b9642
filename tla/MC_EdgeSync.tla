----------------------------- MODULE MC_EdgeSync -----------------------------
(* Instances of EdgeSync for TLC: the environments the runs assume.        *)
EXTENDS EdgeSync

\* Everything that can fail, fails
AllFaults == FaultKinds

\* Everything may fail but the statements of a Postgres session once connected
PostgresSound == FaultKinds \ RollbackFaults
=============================================================================
