---------------------------- MODULE MCStatsEvents ----------------------------
(* The instance of StatsEvents for TLC. *)
EXTENDS StatsEvents

\* Not configured (the batch is kRequestsCountMax) or one record per report.
Counts == {0, 1}
=============================================================================
