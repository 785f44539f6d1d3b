----------------------------- MODULE DesktopInput -----------------------------
(***************************************************************************)
(* What reaches a desktop and is shown of it, in four parts that share no  *)
(* state: the input that a viewer's window forwards (ViewerInput), the     *)
(* window's life and its reports (ViewerWindow), the clipboards between    *)
(* the desktop and the host (Clipboards), and the agent's own input        *)
(* (SentInput).                                                            *)
(***************************************************************************)
EXTENDS ViewerInput

CONSTANTS
  Stale, MaxBeats,
  AgentTexts, UserText, HostText, Nothing, MaxChanges,
  Shift, Ctrl, Key, Letter, Button, Texts, MaxOps

VARIABLES
  at, report, written, temporary, status, shutdown, feed, surface, frame, queued, ready,
  submitted, shown, beats, rested,
  session, host, generation, app, chord, restore, served, store, marked, viewer, mine,
  lent, disturbed, newer,
  kwinDown, queue, socket, held, op, plan, keys, logCall, attempted, keptDown, ops

Window == INSTANCE ViewerWindow

Clip == INSTANCE Clipboards

Sent == INSTANCE SentInput WITH down <- kwinDown, call <- logCall, pressed <- keptDown

(* The properties of the instances, see there.                             *)
ReadyIsTrue                == Window!ReadyIsTrue
AgentTextComesBack         == Clip!AgentTextComesBack
ShortcutsCarryTheUsersText == Clip!ShortcutsCarryTheUsersText
ReloadOverwritesNothing    == Clip!ReloadOverwritesNothing
NothingLeftPressed         == Sent!NothingLeftPressed
TextIsNoShortcut           == Sent!TextIsNoShortcut

(* Do not hold, see there.                                                 *)
OwnershipSurvivesReload == Clip!OwnershipSurvivesReload
HeldUntilReleased       == Sent!HeldUntilReleased
=============================================================================
