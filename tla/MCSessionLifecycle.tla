------------------------- MODULE MCSessionLifecycle -------------------------
(***************************************************************************)
(* SessionLifecycle with two concurrent session_stop calls.                *)
(***************************************************************************)
EXTENDS SessionLifecycle, TLC

CONSTANTS c1, c2

MCStops   == {c1, c2}
Callers   == Permutations(MCStops)
=============================================================================
