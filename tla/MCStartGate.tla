---------------------------- MODULE MCStartGate ----------------------------
(* Small instances of StartGate for TLC. *)
EXTENDS StartGate, TLC

CONSTANTS p1, p2, cdx

MCPlayback == {p1, p2}
MCCdx == {cdx}
MCSymmetry == Permutations(MCPlayback)
============================================================================
