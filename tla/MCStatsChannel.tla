--------------------------- MODULE MCStatsChannel ---------------------------
(* A small instance of StatsChannel: the constants are given in the cfg. *)
EXTENDS StatsChannel
=============================================================================
