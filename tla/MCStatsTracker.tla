--------------------------- MODULE MCStatsTracker ---------------------------
(* StatsTracker on small instances.                                        *)
EXTENDS StatsTracker
=============================================================================
