----------------------------- MODULE MCMonitor -----------------------------
(***************************************************************************)
(* Small instances of Monitor for TLC.                                     *)
(***************************************************************************)
EXTENDS Monitor, TLC

(* One of a kind is a problem.                                             *)
Thresholds == [s \in Signals |-> 1]

(* One query of the database, one of Redis.                                *)
TwoQueries == {{"failedMessages", "failedEvents", "pendingBacklog"}, {"aiErrors"}}
MonitorSymmetry == Permutations(Errors) \cup Permutations(Checks)
=============================================================================
