------------------------------- MODULE MCDesktop -------------------------------
(***************************************************************************)
(* The parts of a desktop's input: in every behaviour one of them is used. *)
(***************************************************************************)
EXTENDS DesktopInput

CONSTANTS f1, f2

VARIABLE part

(* A capital after a small letter: shift goes down and up within a text.   *)
MCTexts == {<<FALSE, TRUE>>}

ASSUME Window!ViewerWindowAssumption
ASSUME Clip!ClipboardsAssumption
ASSUME Sent!SentInputAssumption

windowVars == <<at, report, written, temporary, status, shutdown, feed, surface, frame, queued,
                ready, submitted, shown, beats, rested>>
clipVars   == <<session, host, generation, app, chord, restore, served, store, marked,
                viewer, mine, lent, disturbed, newer>>
sentVars   == <<kwinDown, queue, socket, held, op, plan, keys, logCall, attempted, keptDown,
                ops>>

MCInit ==
  /\ part \in {"viewer", "window", "clipboards", "input"}
  /\ Init /\ Window!Init /\ Clip!Init /\ Sent!Init

MCNext ==
  \/ part = "viewer" /\ Next /\ UNCHANGED <<part, windowVars, clipVars, sentVars>>
  \/ part = "window" /\ Window!Next /\ UNCHANGED <<part, vars, clipVars, sentVars>>
  \/ part = "clipboards" /\ Clip!Next /\ UNCHANGED <<part, vars, windowVars, sentVars>>
  \/ part = "input" /\ Sent!Next /\ UNCHANGED <<part, vars, windowVars, clipVars>>

MCSpec == MCInit /\ [][MCNext]_<<part, vars, windowVars, clipVars, sentVars>>
=============================================================================
