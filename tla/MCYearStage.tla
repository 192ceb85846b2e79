---------------------------- MODULE MCYearStage ----------------------------
(* Small instances of YearStage for TLC. *)
EXTENDS YearStage

CONSTANTS a, b, old, new

MCCaptures == {a, b}
============================================================================
