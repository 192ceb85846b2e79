-------------------------- MODULE MCCaptureBatch ---------------------------
(* Small instances of CaptureBatch for TLC. *)
EXTENDS CaptureBatch

CONSTANTS w1, w2, w3

MCWorkers == {w1, w2, w3}
============================================================================
