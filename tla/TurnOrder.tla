------------------------------ MODULE TurnOrder ------------------------------
(***************************************************************************)
(* What the server promises about ordered calls (README.md: "Input         *)
(* requests retain arrival order within a desktop"), without tickets or    *)
(* wake-ups: a call that arrives remembers the calls of its desktop that   *)
(* are still ahead of it, is admitted once none of them is left, and one   *)
(* that gives up before its turn holds nobody back.                        *)
(***************************************************************************)
CONSTANTS
  Calls,    \* the calls that take a turn
  Desktop   \* the desktop each one is for

VARIABLES
  stage,    \* where each call is: "away", "waiting", "admitted" or "left"
  ahead     \* the calls each waiting call still has to let go first

vars == <<stage, ahead>>

Present(c) == stage[c] \in {"waiting", "admitted"}

Init ==
  /\ stage = [c \in Calls |-> "away"]
  /\ ahead = [c \in Calls |-> {}]

Arrive(c) ==
  /\ stage[c] = "away"
  /\ stage' = [stage EXCEPT ![c] = "waiting"]
  /\ ahead' = [ahead EXCEPT ![c] =
                 {d \in Calls : Present(d) /\ Desktop[d] = Desktop[c]}]

Admit(c) ==
  /\ stage[c] = "waiting"
  /\ ahead[c] = {}
  /\ stage' = [stage EXCEPT ![c] = "admitted"]
  /\ UNCHANGED ahead

Leave(c) ==
  /\ Present(c)
  /\ stage' = [stage EXCEPT ![c] = "left"]
  /\ ahead' = [d \in Calls |-> IF d = c THEN {} ELSE ahead[d] \ {c}]

Next == \E c \in Calls : Arrive(c) \/ Admit(c) \/ Leave(c)

Spec == Init /\ [][Next]_vars
=============================================================================
