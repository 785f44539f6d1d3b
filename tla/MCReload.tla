------------------------------- MODULE MCReload -------------------------------
(* Bounds for Reload: two sessions with a silent client, one session with  *)
(* one line still to come, or none with all of them.                       *)
EXTENDS Reload

MCInit == Init /\ Cardinality(registered) <= sent

MCSpec == MCInit /\ [][Next]_vars /\ Fairness
=============================================================================
