---------------------------- MODULE MCNavigator ----------------------------
(* TLC instance of Navigator.  No id differs from another, so the first    *)
(* entry's bucket answers with one chosen id, until it changes: TLC's own  *)
(* SYMMETRY is not sound for the liveness properties.                      *)
EXTENDS Navigator

ChosenId == CHOOSE x \in Ids : TRUE
InitUpToNames == Init /\ live[1] = ChosenId
SpecUpToNames == InitUpToNames /\ [][Next]_vars /\ Fairness
=============================================================================
