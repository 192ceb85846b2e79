---------------------------- MODULE YearCatalog ----------------------------
(***************************************************************************)
(* What one year's transaction promises its readers.  A year serves a set  *)
(* of records.  A transaction is decided at one instant and then takes     *)
(* effect as a whole: an update only adds records; a replacement may first *)
(* withdraw everything, and then serves exactly what was decided.          *)
(***************************************************************************)
CONSTANTS Records, Nothing

VARIABLES
    served,     \* the records a reader can retrieve
    decided     \* the transaction taking effect, or Nothing

catalogVars == <<served, decided>>

Transactions == [replace : BOOLEAN, catalog : SUBSET Records]

Init == served \subseteq Records /\ decided = Nothing

Decide(t) ==
    /\ decided = Nothing
    /\ t.replace \/ served \subseteq t.catalog
    /\ decided' = t
    /\ UNCHANGED served

Withdraw ==
    /\ decided # Nothing /\ decided.replace
    /\ served' = {}
    /\ UNCHANGED decided

Install ==
    /\ decided # Nothing
    /\ served' = decided.catalog
    /\ UNCHANGED decided

Finish ==
    /\ decided # Nothing /\ served = decided.catalog
    /\ decided' = Nothing
    /\ UNCHANGED served

Next ==
    \/ \E t \in Transactions : Decide(t)
    \/ Withdraw \/ Install \/ Finish

Spec == Init /\ [][Next]_catalogVars
============================================================================
