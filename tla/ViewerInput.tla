------------------------------ MODULE ViewerInput ------------------------------
(***************************************************************************)
(* What a viewer window forwards to the session, and how agent input gives *)
(* way to it (forward_input in src/bin/kwin-viewer.rs; viewer_active_pause *)
(* and the router's call in src/main.rs).                                  *)
(*                                                                         *)
(* The user's keyboard, mouse and touch screen are real devices: the       *)
(* window sees a key only while it has the focus, and sees a button or a   *)
(* finger to its end once it went down on it. One pointer of the session   *)
(* serves mouse and touch. Before every operation that is forwarded the    *)
(* viewer sets the time of its activity marker. The server reads the       *)
(* marker before an input call and on a timer during one.                  *)
(***************************************************************************)
EXTENDS Naturals, FiniteSets

CONSTANTS
  Keys, Fingers,
  Left, Right,   \* the mouse buttons; a finger is the left one
  NoFinger,
  Quiet,         \* VIEWER_INPUT_QUIET_PERIOD, in intervals between two checks
  MaxCalls       \* bound on the agent's input calls

Buttons == {Left, Right}

ASSUME ViewerInputAssumption ==
  /\ Left # Right /\ NoFinger \notin Fingers
  /\ Keys \cap Buttons = {} /\ Fingers \cap (Keys \cup Buttons) = {}
  /\ Quiet \in Nat \ {0} /\ MaxCalls \in Nat

VARIABLES
  focus,        \* the window has the keyboard
  down,         \* the keys, buttons and fingers that the user holds down
  heldKeys,     \* held_keys
  heldButtons,  \* held_buttons, a count
  activeTouch,
  pressed,      \* what is down in the session for the viewer
  stray,        \* a button once went down during a touch (history)
  quietFor,     \* the marker's age, up to Quiet + 1
  call,         \* the agent's input call: "none" or "running"
  unchecked,    \* since the marker was last read for it: 0 or 1 intervals
  calls

user   == <<focus, down>>
window == <<heldKeys, heldButtons, activeTouch, pressed, stray>>
agent  == <<call, unchecked, calls>>
vars   == <<user, window, quietFor, agent>>

Init ==
  /\ focus = FALSE /\ down = {}
  /\ heldKeys = {} /\ heldButtons = 0 /\ activeTouch = NoFinger
  /\ pressed = {} /\ stray = FALSE
  /\ quietFor = Quiet + 1     \* the marker is made with the time 0
  /\ call = "none" /\ unchecked = 0 /\ calls = 0

(* InputOut::send: the marker first, then the session.                     *)
Mark == quietFor' = 0
Send(now) == pressed' = now /\ Mark /\ UNCHANGED agent

(* Operations that leave nothing pressed or released: motion and wheel.    *)
SendMotion == Send(pressed)
SendNothing == UNCHANGED <<pressed, quietFor, agent>>

-----------------------------------------------------------------------------
(* forward_input *)

FocusGained ==
  /\ ~focus /\ focus' = TRUE
  /\ SendNothing
  /\ UNCHANGED <<stray, down, heldKeys, heldButtons, activeTouch>>

(* Only the touch is lifted.                                               *)
FocusLostKeepsKeys ==
  /\ focus /\ focus' = FALSE
  /\ IF activeTouch = NoFinger THEN SendNothing ELSE Send(pressed \ {Left})
  /\ activeTouch' = NoFinger
  /\ UNCHANGED <<stray, down, heldButtons, heldKeys>>

FocusLost ==
  /\ focus /\ focus' = FALSE
  /\ LET lifted == IF activeTouch = NoFinger THEN {} ELSE {Left} IN
       IF lifted \cup heldKeys = {} THEN SendNothing ELSE Send(pressed \ (lifted \cup heldKeys))
  /\ activeTouch' = NoFinger /\ heldKeys' = {}
  /\ UNCHANGED <<stray, down, heldButtons>>

KeyDown(k) ==
  /\ k \notin down /\ down' = down \cup {k}
  /\ IF focus THEN heldKeys' = heldKeys \cup {k} /\ Send(pressed \cup {k})
     ELSE UNCHANGED heldKeys /\ SendNothing
  /\ UNCHANGED <<stray, focus, heldButtons, activeTouch>>

(* The session repeats a held key by itself: key_op forwards no repeat.    *)
KeyRepeats(k) ==
  /\ focus /\ k \in down
  /\ heldKeys' = heldKeys \cup {k}
  /\ SendNothing
  /\ UNCHANGED <<stray, focus, down, heldButtons, activeTouch>>

KeyUp(k) ==
  /\ k \in down /\ down' = down \ {k}
  /\ IF focus THEN heldKeys' = heldKeys \ {k} /\ Send(pressed \ {k})
     ELSE UNCHANGED heldKeys /\ SendNothing
  /\ UNCHANGED <<stray, focus, heldButtons, activeTouch>>

ButtonDown(b) ==
  /\ b \notin down /\ down' = down \cup {b}
  /\ stray' = (stray \/ activeTouch # NoFinger)
  /\ IF activeTouch = NoFinger
     THEN heldButtons' = heldButtons + 1 /\ Send(pressed \cup {b})
     ELSE UNCHANGED heldButtons /\ SendNothing
  /\ UNCHANGED <<focus, heldKeys, activeTouch>>

ButtonUp(b) ==
  /\ b \in down /\ down' = down \ {b}
  /\ IF activeTouch = NoFinger
     THEN /\ heldButtons' = (IF heldButtons = 0 THEN 0 ELSE heldButtons - 1)
          /\ Send(pressed \ {b})
     ELSE UNCHANGED heldButtons /\ SendNothing
  /\ UNCHANGED <<stray, focus, heldKeys, activeTouch>>

(* Hovering is not forwarded, dragging is.                                 *)
PointerMoves ==
  /\ IF heldButtons = 0 THEN SendNothing ELSE SendMotion
  /\ UNCHANGED <<stray, user, heldKeys, heldButtons, activeTouch>>

Wheel == SendMotion /\ UNCHANGED <<stray, user, heldKeys, heldButtons, activeTouch>>

(* A finger takes the pointer from the mouse.                              *)
MayBegin == activeTouch = NoFinger /\ heldButtons = 0

FingerDown(f) ==
  /\ f \notin down /\ down' = down \cup {f}
  /\ \/ MayBegin /\ activeTouch' = f /\ Send(pressed \cup {Left})
     \/ UNCHANGED activeTouch /\ SendNothing    \* beside the picture, or not begun
  /\ UNCHANGED <<stray, focus, heldKeys, heldButtons>>

FingerMoves(f) ==
  /\ f \in down
  /\ IF activeTouch = f THEN SendMotion ELSE SendNothing
  /\ UNCHANGED <<stray, user, heldKeys, heldButtons, activeTouch>>

(* Lifted or cancelled.                                                    *)
FingerUp(f) ==
  /\ f \in down /\ down' = down \ {f}
  /\ IF activeTouch = f THEN activeTouch' = NoFinger /\ Send(pressed \ {Left})
     ELSE UNCHANGED activeTouch /\ SendNothing
  /\ UNCHANGED <<stray, focus, heldKeys, heldButtons>>

-----------------------------------------------------------------------------
(* The agent *)

RecentInput == quietFor <= Quiet

CallStarts ==
  /\ call = "none" /\ calls < MaxCalls /\ ~RecentInput
  /\ call' = "running" /\ unchecked' = 0 /\ calls' = calls + 1
  /\ UNCHANGED <<user, window, quietFor>>

(* The call's tool sends its events one by one until it ends.              *)
CallEnds ==
  /\ call = "running" /\ call' = "none"
  /\ UNCHANGED <<user, window, quietFor, unchecked, calls>>

(* The marker is read, and its age compared with the last check's.         *)
CheckViewerOnce ==
  /\ call = "running"
  /\ call' = IF quietFor = 0 THEN "none" ELSE "running"
  /\ unchecked' = 0
  /\ UNCHANGED <<user, window, quietFor, calls>>

(* The timer: the call goes on, or is dropped with what it still holds.    *)
CheckViewer ==
  /\ call = "running"
  /\ call' = IF RecentInput THEN "none" ELSE "running"
  /\ unchecked' = 0
  /\ UNCHANGED <<user, window, quietFor, calls>>

(* An interval passes; a running call is checked before the next one.      *)
Tick ==
  /\ call = "running" => unchecked = 0
  /\ quietFor' = (IF quietFor > Quiet THEN quietFor ELSE quietFor + 1)
  /\ unchecked' = (IF call = "running" THEN 1 ELSE 0)
  /\ UNCHANGED <<user, window, call, calls>>

Next ==
  \/ FocusGained \/ FocusLost
  \/ \E k \in Keys : KeyDown(k) \/ KeyRepeats(k) \/ KeyUp(k)
  \/ \E b \in Buttons : ButtonDown(b) \/ ButtonUp(b)
  \/ PointerMoves \/ Wheel
  \/ \E f \in Fingers : FingerDown(f) \/ FingerMoves(f) \/ FingerUp(f)
  \/ CallStarts \/ CallEnds \/ CheckViewer \/ Tick

Spec == Init /\ [][Next]_vars

-----------------------------------------------------------------------------
(* What is down in the session is down under the user's hands, the keys    *)
(* only while the window has the focus: no modifier and no button is left  *)
(* pressed by a release that the window did not see or that was another    *)
(* device's. A button that went down during a touch was not counted, and   *)
(* after that the count tells nothing.                                     *)
NothingIsStuck ==
  /\ pressed \cap Keys \subseteq down /\ (~focus => pressed \cap Keys = {})
  /\ stray \/ pressed \cap Buttons \subseteq
                down \cup (IF activeTouch = NoFinger THEN {} ELSE {Left})

(* An input call runs beside the viewer's user for less than one interval  *)
(* between two checks, and no call starts in the quiet period.             *)
AgentGivesWay == call = "running" => quietFor > Quiet \/ quietFor <= 1

(* Does not hold. kwin-viewer.rs:1576: "Currently-held mouse buttons.      *)
(* Non-empty means we're in a drag and pointer motions should be forwarded *)
(* so the drag actually drags." A button that goes down during a touch is  *)
(* not counted, and its release is.                                        *)
PressedIsHeld == heldButtons = 0 /\ activeTouch = NoFinger => pressed \cap Buttons = {}
=============================================================================
