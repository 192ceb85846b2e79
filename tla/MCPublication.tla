--------------------------- MODULE MCPublication ---------------------------
(* Small instances of Publication for TLC. *)
EXTENDS Publication

CONSTANTS w1, w2, cache

OneWarc == {w1}
TwoWarcs == {w1, w2}
OneCache == {cache}
NoCaches == {}
============================================================================
