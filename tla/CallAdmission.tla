---------------------------- MODULE CallAdmission ----------------------------
(***************************************************************************)
(* How a tool call reaches its desktop (SessionRouter::call_tool in        *)
(* src/main.rs) and everything it may wait for on the way:                 *)
(*                                                                         *)
(*   its turn     arrival order, taken at stdin (InputOrder)               *)
(*   input_gate   one ordered call or viewer change per desktop            *)
(*   a permit     the shared Tower limit on running calls                  *)
(*   start_gate   one lifecycle call per desktop, waited for 20 s          *)
(*                                                                         *)
(* An ordered call takes turn, input_gate and permit in that order; a      *)
(* viewer_open or viewer_close runs under its permit and takes start_gate  *)
(* and input_gate there. Calls forwarded from another server arrive over   *)
(* the control socket and have no turn; calls for another server's desktop *)
(* take a turn here and the rest over there.                               *)
(***************************************************************************)
EXTENDS InputOrder, FiniteSets

CONSTANTS
  Requests,   \* every tool call, ordered or not
  Kind,       \* what each one is
  Permits     \* the size of the shared limit: the machine's thread count

Kinds == {"input", "clipboard", "forwarded", "remote", "read", "viewer", "stop"}

ASSUME AdmissionAssumption ==
  /\ "free" \notin Requests
  /\ Kind \in [Requests -> Kinds]
  /\ Desktop \in [Requests -> Desktops]
  /\ Permits \in Nat \ {0}
  /\ Calls = {c \in Requests : Kind[c] \in {"input", "clipboard", "remote"}}
  /\ \A c \in Requests : Kind[c] = "remote" <=> Desktop[c] \in Remote

VARIABLES
  at,          \* where call_tool is for each request
  inputGate,   \* who holds input_gate, per desktop
  startGate,   \* who holds start_gate
  permitted    \* the requests that hold a permit

vars == <<orderVars, at, inputGate, startGate, permitted>>

Free == "free"
HasTurn(c)    == c \in Calls
TakesGate(c)  == Kind[c] \in {"input", "clipboard", "forwarded"}
AgentInput(c) == Kind[c] \in {"input", "forwarded"}
Lifecycle(c)  == Kind[c] \in {"viewer", "stop"}

Places == {"away", "arrived", "turn", "gate", "pause", "permit", "lifecycle",
           "viewer", "running", "returning", "answered", "closing", "replied"}

Goto(c, from, to) == at[c] = from /\ at' = [at EXCEPT ![c] = to]

(* After the turn, or without one: ordered calls go for input_gate, the    *)
(* others straight for a permit.                                           *)
AfterTurn(c) == IF TakesGate(c) THEN "gate" ELSE "permit"

Init ==
  /\ OrderInit
  /\ at = [c \in Requests |-> "away"]
  /\ inputGate = [o \in Desktops |-> Free]
  /\ startGate = [o \in Desktops |-> Free]
  /\ permitted = {}

-----------------------------------------------------------------------------
(* Arrival, and what call_tool decides before it waits.                    *)

(* stdin, or the control socket, hands the request over; its turn is taken *)
(* in the same critical section as the line.                               *)
Arrive(c) ==
  /\ Goto(c, "away", "arrived")
  /\ IF HasTurn(c) THEN Enqueue(c) ELSE UNCHANGED orderVars
  /\ UNCHANGED <<inputGate, startGate, permitted>>

(* The desktop died, is still starting or is unknown: an error reply       *)
(* before any wait. Stops skip these checks; remote calls are never asked. *)
RefuseEarly(c) ==
  /\ Kind[c] \notin {"stop", "remote"}
  /\ Goto(c, "arrived", "closing")
  /\ UNCHANGED <<orderVars, inputGate, startGate, permitted>>

Proceed(c) ==
  /\ Goto(c, "arrived", IF HasTurn(c) THEN "turn" ELSE AfterTurn(c))
  /\ IF HasTurn(c) THEN Enable(c) ELSE UNCHANGED orderVars
  /\ UNCHANGED <<inputGate, startGate, permitted>>

-----------------------------------------------------------------------------
(* Waiting for the turn. A remote call is sent to its owner once served    *)
(* and keeps the turn until the answer is back.                            *)
CheckTurn(c) ==
  /\ HasTurn(c) /\ at[c] = "turn"
  /\ Check(c)
  /\ at' = IF wait'[c] # "admitted" THEN at
           ELSE [at EXCEPT ![c] = IF Kind[c] = "remote" THEN "running" ELSE "gate"]
  /\ UNCHANGED <<inputGate, startGate, permitted>>

WaitOn(c) ==
  /\ HasTurn(c) /\ at[c] = "turn"
  /\ Await(c) \/ Enable(c)
  /\ UNCHANGED <<at, inputGate, startGate, permitted>>

-----------------------------------------------------------------------------
(* The gates and the permit.                                               *)

LockInput(c) ==
  /\ inputGate[Desktop[c]] = Free
  /\ inputGate' = [inputGate EXCEPT ![Desktop[c]] = c]

TakeInputGate(c) ==
  /\ Goto(c, "gate", IF AgentInput(c) THEN "pause" ELSE "permit")
  /\ LockInput(c)
  /\ UNCHANGED <<orderVars, startGate, permitted>>

(* viewer_active_pause: the viewer was quiet for a second, or agent input  *)
(* is refused with a retry-safe error.                                     *)
ViewerQuiet(c) ==
  /\ Goto(c, "pause", "permit")
  /\ UNCHANGED <<orderVars, inputGate, startGate, permitted>>

RefuseForViewer(c) ==
  /\ Goto(c, "pause", "answered")
  /\ UNCHANGED <<orderVars, inputGate, startGate, permitted>>

TakePermit(c) ==
  /\ Goto(c, "permit", IF Lifecycle(c) THEN "lifecycle" ELSE "running")
  /\ Cardinality(permitted) < Permits
  /\ permitted' = permitted \cup {c}
  /\ UNCHANGED <<orderVars, inputGate, startGate>>

(* lifecycle_gate: the lock, or after SESSION_START_HARD_TIMEOUT an error. *)
TakeStartGate(c) ==
  /\ Goto(c, "lifecycle", IF Kind[c] = "viewer" THEN "viewer" ELSE "running")
  /\ startGate[Desktop[c]] = Free
  /\ startGate' = [startGate EXCEPT ![Desktop[c]] = c]
  /\ UNCHANGED <<orderVars, inputGate, permitted>>

StartGateForever(c) == FALSE /\ c \in Requests /\ UNCHANGED vars

StartGateTimeout(c) ==
  /\ Goto(c, "lifecycle", "returning")
  /\ startGate[Desktop[c]] # Free
  /\ UNCHANGED <<orderVars, inputGate, startGate, permitted>>

ViewerGateUnheeded(c) ==
  /\ Goto(c, "viewer", "running")
  /\ UNCHANGED <<orderVars, inputGate, startGate, permitted>>

(* viewer_open and viewer_close lock input_gate without a deadline.        *)
TakeViewerGate(c) ==
  /\ Goto(c, "viewer", "running")
  /\ LockInput(c)
  /\ UNCHANGED <<orderVars, startGate, permitted>>

-----------------------------------------------------------------------------
(* The way back: the tool's own guards, the permit, input_gate, the turn.  *)

Release(gates, c) == [o \in Desktops |-> IF gates[o] = c THEN Free ELSE gates[o]]

(* The tool returns, or viewer input interrupts agent input and the call   *)
(* is dropped: either way the guards its body took go with it.             *)
Finish(c) ==
  /\ Goto(c, "running", IF Kind[c] = "remote" THEN "closing" ELSE "returning")
  /\ startGate' = Release(startGate, c)
  /\ inputGate' = IF Kind[c] = "viewer" THEN Release(inputGate, c) ELSE inputGate
  /\ UNCHANGED <<orderVars, permitted>>

ReturnPermit(c) ==
  /\ Goto(c, "returning", "answered")
  /\ permitted' = permitted \ {c}
  /\ UNCHANGED <<orderVars, inputGate, startGate>>

OpenInputGate(c) ==
  /\ Goto(c, "answered", "closing")
  /\ inputGate' = Release(inputGate, c)
  /\ UNCHANGED <<orderVars, startGate, permitted>>

(* The last copy of the turn goes when call_tool returns.                  *)
RetireTurn(c) ==
  /\ HasTurn(c) /\ at[c] = "closing"
  /\ Retire(c)
  /\ UNCHANGED <<at, inputGate, startGate, permitted>>

NotifyTurn(c) ==
  /\ HasTurn(c)
  /\ Goto(c, "closing", "replied")
  /\ Notify(c)
  /\ UNCHANGED <<inputGate, startGate, permitted>>

Reply(c) ==
  /\ ~HasTurn(c)
  /\ Goto(c, "closing", "replied")
  /\ UNCHANGED <<orderVars, inputGate, startGate, permitted>>

Works(c) ==
  \/ RefuseEarly(c) \/ Proceed(c) \/ CheckTurn(c) \/ WaitOn(c)
  \/ TakeInputGate(c) \/ ViewerQuiet(c) \/ RefuseForViewer(c)
  \/ TakePermit(c) \/ TakeStartGate(c) \/ StartGateTimeout(c) \/ TakeViewerGate(c)
  \/ Finish(c) \/ ReturnPermit(c) \/ OpenInputGate(c)
  \/ RetireTurn(c) \/ NotifyTurn(c) \/ Reply(c)

(* Every request has its reply: nothing is left to do.                     *)
AllReplied ==
  /\ \A c \in Requests : at[c] = "replied"
  /\ UNCHANGED vars

Next == (\E c \in Requests : Arrive(c) \/ Works(c)) \/ AllReplied

Spec == Init /\ [][Next]_vars

(* The runtime polls every ready task, its mutexes and semaphore are FIFO  *)
(* and every tool ends, so a call that can move on does. Nothing makes a   *)
(* client send.                                                            *)
Fairness == \A c \in Requests : WF_vars(Works(c))

FairSpec == Spec /\ Fairness

-----------------------------------------------------------------------------
TypeOK ==
  /\ OrderTypeOK
  /\ at \in [Requests -> Places]
  /\ inputGate \in [Desktops -> Requests \cup {Free}]
  /\ startGate \in [Desktops -> Requests \cup {Free}]
  /\ permitted \subseteq Requests

(* Two calls never drive one desktop's input together, and none does while *)
(* its viewer is being opened or closed: an ordered call reaches input_gate*)
(* before its permit and a viewer call under it.                           *)
DrivesInput(c) == at[c] = "running" /\ (TakesGate(c) \/ Kind[c] = "viewer")

OneDriver ==
  \A c, d \in Requests :
    (DrivesInput(c) /\ DrivesInput(d) /\ Desktop[c] = Desktop[d]) => c = d

(* Every call that reaches the server is answered.                         *)
EveryCallAnswered ==
  \A c \in Requests : at[c] = "arrived" ~> at[c] = "replied"

(* "Queued input waits outside the global limit so it cannot starve reads" *)
(* (src/main.rs:19852): a read that arrived gets its answer.               *)
ReadsNotStarved ==
  \A c \in Requests : (Kind[c] = "read" /\ at[c] = "arrived") ~> at[c] = "replied"
=============================================================================
