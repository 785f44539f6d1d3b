--------------------------- MODULE SessionRegistry ---------------------------
(***************************************************************************)
(* What a session handle promises its callers: it is Starting, then        *)
(* Running, then Terminal, in that order, then cleared, and what ended it  *)
(* is told apart from what never let it begin. A handle whose start failed *)
(* never ran; one that ran ends dead, stopped or expired and keeps that    *)
(* status. No locks, calls or disk here: SessionLifecycle implements it.   *)
(***************************************************************************)
EXTENDS SessionPhases

VARIABLES
  phase,    \* "Starting", "Running", "Terminal" or "Gone"
  status    \* the terminal status, "none" before the handle ends

vars == <<phase, status>>

Init == phase = "Starting" /\ status = "none"

Publish == phase = "Starting" /\ phase' = "Running" /\ UNCHANGED status

(* A start that failed; a stop that abandons it may name the other kind.   *)
FailStart(s) ==
  /\ phase = "Starting" \/ (phase = "Terminal" /\ status \in StartStatuses)
  /\ s \in StartStatuses
  /\ phase' = "Terminal" /\ status' = s

EndDesktop(s) ==
  /\ phase = "Running"
  /\ s \in DesktopStatuses
  /\ phase' = "Terminal" /\ status' = s

(* Rejected parameters: the caller never received the ID.                  *)
Forget == phase = "Starting" /\ phase' = "Gone" /\ UNCHANGED status

Clear == phase = "Terminal" /\ phase' = "Gone" /\ status' = "none"

Next ==
  \/ Publish
  \/ \E s \in Statuses : FailStart(s) \/ EndDesktop(s)
  \/ Forget
  \/ Clear

Spec == Init /\ [][Next]_vars
=============================================================================
