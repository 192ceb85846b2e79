---------------------------- MODULE MCWarcStage ----------------------------
(* Small instances of WarcStage for TLC. *)
EXTENDS WarcStage

CONSTANTS a, b, c

MCCaptures == {a, b, c}
============================================================================
