-------------------------- MODULE MCYearDiscovery --------------------------
(* TLC instance of YearDiscovery. *)
EXTENDS YearDiscovery

mc_FirstSplits == {1, 3, 5}
=============================================================================
