-------------------------- MODULE DesktopInputProofs --------------------------
(***************************************************************************)
(* The parts of a desktop's input, for any keys, fingers, texts and any    *)
(* number of steps. The viewer leaves nothing pressed in the session that  *)
(* the user has let go of, and the agent's input gives way to the user's   *)
(* (ViewerInput); it is called ready only when it is (ViewerWindow); its   *)
(* clipboard bridge and the server's store, which share the session's      *)
(* clipboard, lose none of the agent's text (Clipboards). The agent's own  *)
(* input leaves nothing pressed that the log does not take for held, and   *)
(* no text of it becomes a shortcut (SentInput).                           *)
(***************************************************************************)
EXTENDS DesktopInput, DataInduction, SequenceTheorems

USE ViewerInputAssumption

Down(b) == IF b \in down THEN 1 ELSE 0

TypeInv ==
  /\ focus \in BOOLEAN /\ stray \in BOOLEAN
  /\ heldButtons \in Nat /\ activeTouch \in Fingers \cup {NoFinger}

(* A key that is down in the session is one the window holds, and it holds *)
(* none without the focus.                                                 *)
KeysInv ==
  /\ pressed \cap Keys \subseteq heldKeys
  /\ heldKeys \subseteq down \cap Keys
  /\ ~focus => heldKeys = {}

(* Until a button went down during a touch the count is right, and no      *)
(* button is down while a finger has the pointer.                          *)
ButtonsInv ==
  ~stray =>
    /\ heldButtons = Down(Left) + Down(Right)
    /\ activeTouch # NoFinger => heldButtons = 0
    /\ pressed \cap Buttons \subseteq
         down \cup (IF activeTouch = NoFinger THEN {} ELSE {Left})

(* Between its checks a running call has seen the user quiet, or the user  *)
(* began since.                                                            *)
AgentInv ==
  /\ quietFor \in Nat /\ unchecked \in {0, 1}
  /\ call = "running" =>
       \/ quietFor > Quiet
       \/ quietFor = 0
       \/ quietFor = 1 /\ unchecked = 1

IInv == TypeInv /\ KeysInv /\ ButtonsInv /\ AgentInv

LEMMA InitIInv == Init => IInv
<1> SUFFICES ASSUME Init PROVE IInv
  OBVIOUS
<1>1. TypeInv /\ KeysInv
  BY DEF Init, TypeInv, KeysInv
<1>2. ButtonsInv
  BY DEF Init, ButtonsInv, Down
<1>3. AgentInv
  BY DEF Init, AgentInv
<1> QED BY <1>1, <1>2, <1>3 DEF IInv

-----------------------------------------------------------------------------
(* The agent *)

(* Whatever the window does, it marks before it sends, or it sends nothing.*)
LEMMA SendKeepsAgent ==
  ASSUME AgentInv, UNCHANGED agent, Mark \/ UNCHANGED quietFor
  PROVE  AgentInv'
  BY DEF AgentInv, agent, Mark

LEMMA WindowSends ==
  ASSUME \/ FocusGained \/ FocusLost
         \/ \E k \in Keys : KeyDown(k) \/ KeyRepeats(k) \/ KeyUp(k)
         \/ \E b \in Buttons : ButtonDown(b) \/ ButtonUp(b)
         \/ PointerMoves \/ Wheel
         \/ \E f \in Fingers : FingerDown(f) \/ FingerMoves(f) \/ FingerUp(f)
  PROVE  UNCHANGED agent /\ (Mark \/ UNCHANGED quietFor)
<1> USE DEF Send, SendNothing, SendMotion
<1>1. CASE FocusGained \/ FocusLost
  BY <1>1 DEF FocusGained, FocusLost
<1>2. CASE \E k \in Keys : KeyDown(k) \/ KeyRepeats(k) \/ KeyUp(k)
  BY <1>2 DEF KeyDown, KeyRepeats, KeyUp
<1>3. CASE \E b \in Buttons : ButtonDown(b) \/ ButtonUp(b)
  BY <1>3 DEF ButtonDown, ButtonUp
<1>4. CASE PointerMoves \/ Wheel
  BY <1>4 DEF PointerMoves, Wheel
<1>5. CASE \E f \in Fingers : FingerDown(f) \/ FingerMoves(f) \/ FingerUp(f)
  BY <1>5 DEF FingerDown, FingerMoves, FingerUp
<1> QED BY <1>1, <1>2, <1>3, <1>4, <1>5

LEMMA StepAgent ==
  ASSUME AgentInv, [Next]_vars
  PROVE  AgentInv'
<1>1. CASE \/ FocusGained \/ FocusLost
           \/ \E k \in Keys : KeyDown(k) \/ KeyRepeats(k) \/ KeyUp(k)
           \/ \E b \in Buttons : ButtonDown(b) \/ ButtonUp(b)
           \/ PointerMoves \/ Wheel
           \/ \E f \in Fingers : FingerDown(f) \/ FingerMoves(f) \/ FingerUp(f)
  BY <1>1, WindowSends, SendKeepsAgent
<1>2. CASE CallStarts \/ CallEnds
  BY <1>2 DEF CallStarts, CallEnds, RecentInput, AgentInv
<1>3. CASE CheckViewer
  BY <1>3 DEF CheckViewer, RecentInput, AgentInv
<1>4. CASE Tick
  BY <1>4 DEF Tick, AgentInv
<1>5. CASE UNCHANGED vars
  BY <1>5 DEF vars, agent, AgentInv
<1> QED BY <1>1, <1>2, <1>3, <1>4, <1>5 DEF Next

-----------------------------------------------------------------------------
(* The window *)

LEMMA StepWindow ==
  ASSUME TypeInv, KeysInv, ButtonsInv, [Next]_vars
  PROVE  TypeInv' /\ KeysInv' /\ ButtonsInv'
<1> USE DEF TypeInv, KeysInv, ButtonsInv, Down, Buttons, Send, SendNothing
<1>1. CASE FocusGained
  BY <1>1 DEF FocusGained
<1>2. CASE FocusLost
  <2>1. TypeInv' /\ KeysInv'
    BY <1>2 DEF FocusLost
  <2>2. ButtonsInv'
    BY <1>2 DEF FocusLost
  <2> QED BY <2>1, <2>2
<1>3. ASSUME NEW k \in Keys, KeyDown(k) \/ KeyRepeats(k) \/ KeyUp(k)
      PROVE  TypeInv' /\ KeysInv' /\ ButtonsInv'
  <2>1. k \notin {Left, Right}
    OBVIOUS
  <2>2. CASE KeyDown(k)
    BY <2>1, <2>2 DEF KeyDown
  <2>3. CASE KeyRepeats(k)
    BY <2>1, <2>3 DEF KeyRepeats
  <2>4. CASE KeyUp(k)
    BY <2>1, <2>4 DEF KeyUp
  <2> QED BY <1>3, <2>2, <2>3, <2>4
<1>4. ASSUME NEW b \in Buttons, ButtonDown(b) \/ ButtonUp(b)
      PROVE  TypeInv' /\ KeysInv' /\ ButtonsInv'
  <2>1. b \notin Keys /\ b \in {Left, Right}
    OBVIOUS
  <2>2. CASE ButtonDown(b)
    <3>1. TypeInv' /\ KeysInv'
      BY <2>1, <2>2 DEF ButtonDown
    <3>2. CASE activeTouch # NoFinger
      BY <2>2, <3>2 DEF ButtonDown
    <3>3. CASE activeTouch = NoFinger
      <4>1. b = Left => Down(Left)' = Down(Left) + 1 /\ Down(Right)' = Down(Right)
        BY <2>2 DEF ButtonDown
      <4>2. b = Right => Down(Right)' = Down(Right) + 1 /\ Down(Left)' = Down(Left)
        BY <2>2 DEF ButtonDown
      <4>3. ~stray' => heldButtons' = Down(Left)' + Down(Right)'
        BY <2>1, <2>2, <3>3, <4>1, <4>2 DEF ButtonDown
      <4>4. ~stray' => pressed' \cap Buttons \subseteq down'
        BY <2>1, <2>2, <3>3 DEF ButtonDown
      <4> HIDE DEF Down
      <4> QED BY <2>2, <3>3, <4>3, <4>4 DEF ButtonDown
    <3> QED BY <3>1, <3>2, <3>3
  <2>3. CASE ButtonUp(b)
    <3>1. TypeInv' /\ KeysInv'
      BY <2>1, <2>3 DEF ButtonUp
    <3>2. ButtonsInv'
      BY <2>1, <2>3 DEF ButtonUp
    <3> QED BY <3>1, <3>2
  <2> QED BY <1>4, <2>2, <2>3
<1>5. CASE PointerMoves \/ Wheel
  BY <1>5 DEF PointerMoves, Wheel, SendMotion, user
<1>6. ASSUME NEW f \in Fingers, FingerDown(f) \/ FingerMoves(f) \/ FingerUp(f)
      PROVE  TypeInv' /\ KeysInv' /\ ButtonsInv'
  <2>1. f \notin Keys /\ f \notin {Left, Right} /\ f # NoFinger /\ Left \notin Keys
    OBVIOUS
  <2>2. CASE FingerDown(f)
    BY <2>1, <2>2 DEF FingerDown, MayBegin
  <2>3. CASE FingerMoves(f)
    BY <2>1, <2>3 DEF FingerMoves, SendMotion, user
  <2>4. CASE FingerUp(f)
    BY <2>1, <2>4 DEF FingerUp
  <2> QED BY <1>6, <2>2, <2>3, <2>4
<1>7. CASE CallStarts \/ CallEnds \/ CheckViewer \/ Tick \/ UNCHANGED vars
  BY <1>7 DEF CallStarts, CallEnds, CheckViewer, Tick, user, window, vars
<1> QED
  BY <1>1, <1>2, <1>3, <1>4, <1>5, <1>6, <1>7 DEF Next

LEMMA IInvHolds == Spec => []IInv
<1>1. IInv /\ [Next]_vars => IInv'
  BY StepAgent, StepWindow DEF IInv
<1> QED BY <1>1, InitIInv, PTL DEF Spec

(* Whatever the order of keys, buttons, fingers and focus changes, nothing *)
(* stays pressed in the session after the user let go of it                *)
(* (forward_input, held_keys, held_buttons, active_touch).                 *)
THEOREM UserLetsGo == Spec => []NothingIsStuck
<1>1. IInv => NothingIsStuck
  BY DEF IInv, TypeInv, KeysInv, ButtonsInv, NothingIsStuck, Buttons
<1> QED BY <1>1, IInvHolds, PTL

(* For any quiet period and number of calls, an agent's input call shares  *)
(* the desktop with its user for less than one interval between two checks *)
(* of the marker (viewer_active_pause, call_tool's select).                *)
THEOREM GivesWay == Spec => []AgentGivesWay
<1>1. IInv => AgentGivesWay
  BY DEF IInv, AgentInv, AgentGivesWay
<1> QED BY <1>1, IInvHolds, PTL

-----------------------------------------------------------------------------
(* The window's life and what the server tells of it.                      *)

States  == {"none", "starting", "ready", "failed", "closed"}
Reports == [who : {"nobody", "local", "remote"}, state : States, age : Nat]

WindowTypeOK ==
  /\ report \in [Window!Threads -> States]
  /\ temporary \in Reports /\ status \in Reports
  /\ rested \in Nat /\ shown \in BOOLEAN /\ queued \in BOOLEAN /\ ready \in BOOLEAN
  /\ frame \in BOOLEAN

(* A report that the local viewer is ready was written after the event     *)
(* loop ran with a frame in the window: it has rested no longer since than *)
(* the report is old, as long as the report is fresh.                      *)
Honest(file) ==
  file.who # "remote" /\ file.state = "ready" =>
    shown /\ (file.age <= Stale => rested <= file.age)

WindowInv ==
  /\ WindowTypeOK
  /\ ready => shown
  /\ report["local"] = "ready" => shown
  /\ Honest(temporary) /\ Honest(status)

LEMMA WindowInit == ASSUME Window!ViewerWindowAssumption, Window!Init PROVE WindowInv
BY DEF Window!Init, WindowInv, WindowTypeOK, Honest, Reports, States, Window!Threads, Window!NoFile

LEMMA WindowStep ==
  ASSUME Window!ViewerWindowAssumption, WindowInv, [Window!Next]_(Window!vars)
  PROVE  WindowInv'
<1> USE DEF WindowInv, WindowTypeOK, Window!Threads, Window!ViewerWindowAssumption
<1>1. ASSUME NEW t \in Window!Threads, Window!WriteTemporary(t)
      PROVE  WindowInv'
  <2>1. temporary' \in Reports
    BY <1>1 DEF Window!WriteTemporary, Window!Process, Reports
  <2>2. Honest(temporary)' /\ Honest(status)'
    BY <1>1 DEF Window!WriteTemporary, Window!Process, Honest, Reports
  <2>. QED
    BY <1>1, <2>1, <2>2 DEF Window!WriteTemporary
<1>2. ASSUME NEW t \in Window!Threads, Window!Rename(t)
      PROVE  WindowInv'
  <2>1. Honest(temporary)' /\ Honest(status)' /\ temporary' \in Reports /\ status' \in Reports
    BY <1>2 DEF Window!Rename, Window!NoFile, Window!files, Window!screen, Honest, Reports, States
  <2>. QED
    BY <1>2, <2>1 DEF Window!Rename, Window!screen, States
<1>3. ASSUME Honest(temporary), Honest(status), UNCHANGED <<temporary, status>>,
             shown => shown', rested' \in {0, rested}
      PROVE  Honest(temporary)' /\ Honest(status)'
  BY <1>3 DEF Honest, Reports
<1> USE DEF Window!Runs, Window!Goes, Window!files, Window!threads, Window!screen
<1>4. CASE \/ Window!Connect \/ Window!ConnectFails \/ Window!DrawLeaves \/ Window!DrawTimesOut
           \/ Window!DrawPanics \/ Window!CloseRequested \/ Window!Close
  <2>1. /\ UNCHANGED <<temporary, status, shown, ready, queued, frame>> /\ rested' = 0
        /\ \E what \in States \ {"ready"} : report' = [report EXCEPT !["local"] = what]
    BY <1>4 DEF Window!Connect, Window!ConnectFails, Window!DrawLeaves, Window!DrawTimesOut,
       Window!DrawPanics, Window!CloseRequested, Window!Close, Window!LeaveWindow, States
  <2>2. report' \in [Window!Threads -> States] /\ report'["local"] # "ready"
    BY <2>1
  <2>. QED
    BY <1>3, <2>1, <2>2
<1>5. CASE Window!FrameArrives \/ Window!FeedEnds \/ Window!SurfaceChanges \/ UNCHANGED Window!vars
  <2>1. /\ UNCHANGED <<report, temporary, status, shown, ready, queued, rested>>
        /\ frame' \in BOOLEAN
    BY <1>5 DEF Window!FrameArrives, Window!FeedEnds, Window!SurfaceChanges, Window!vars
  <2>. QED
    BY <1>3, <2>1
<1>6. CASE Window!Draw \/ Window!Heartbeat
  <2>1. /\ UNCHANGED <<temporary, status>> /\ rested' = 0
        /\ shown' \in BOOLEAN /\ queued' \in BOOLEAN /\ ready' \in BOOLEAN /\ frame' \in BOOLEAN
        /\ (shown => shown') /\ (ready' => shown')
    <3>1. CASE Window!Draw
      <4>1. /\ queued' \in BOOLEAN /\ frame' = FALSE /\ ready' = queued'
            /\ shown' = (shown \/ queued')
        BY <3>1 DEF Window!Draw
      <4>2. UNCHANGED <<temporary, status>> /\ rested' = 0
        BY <3>1 DEF Window!Draw
      <4>. QED
        BY <4>1, <4>2
    <3>2. CASE Window!Heartbeat
      BY <3>2 DEF Window!Heartbeat
    <3>. QED
      BY <1>6, <3>1, <3>2
  <2>2. \/ report' = [report EXCEPT !["local"] = "ready"] /\ ready'
        \/ report' = [report EXCEPT !["local"] = "none"]
    BY <1>6 DEF Window!Draw, Window!Heartbeat
  <2>3. report' \in [Window!Threads -> States]
    BY <2>2 DEF States
  <2>4. CASE report' = [report EXCEPT !["local"] = "ready"] /\ ready'
    BY <1>3, <2>1, <2>3, <2>4
  <2>5. CASE report' = [report EXCEPT !["local"] = "none"]
    <3>1. report'["local"] # "ready"
      BY <2>5
    <3>. QED
      BY <1>3, <2>1, <2>3, <3>1
  <2>. QED
    BY <2>2, <2>4, <2>5
<1>7. CASE \/ Window!RemoteStarts \/ Window!RemoteConnects \/ Window!RemoteConnectFails
           \/ Window!RemotePresents \/ Window!RecordsEnd \/ Window!RemoteFeedEnds
           \/ Window!RemoteLeaves \/ Window!RemoteReports
  <2>1. /\ UNCHANGED <<temporary, status, shown, ready, queued, frame, rested>>
        /\ \/ UNCHANGED report
           \/ \E t \in {"remote", "records"}, what \in States :
                report' = [report EXCEPT ![t] = what]
    BY <1>7 DEF Window!RemoteStarts, Window!RemoteConnects, Window!RemoteConnectFails,
       Window!RemotePresents, Window!RecordsEnd, Window!RemoteFeedEnds, Window!RemoteLeaves,
       Window!RemoteReports, Window!RemoteGoes, States
  <2>2. report' \in [Window!Threads -> States] /\ report'["local"] = report["local"]
    BY <2>1
  <2>. QED
    BY <1>3, <2>1, <2>2
<1>8. CASE Window!Tick
  <2>1. /\ temporary' \in Reports /\ status' \in Reports
        /\ Honest(temporary)' /\ Honest(status)'
    BY <1>8 DEF Window!Tick, Window!NoFile, Honest, Reports
  <2>. QED
    BY <1>8, <2>1 DEF Window!Tick
<1>. QED
  BY <1>1, <1>2, <1>4, <1>5, <1>6, <1>7, <1>8 DEF Window!Next

(* While the server calls its viewer ready, the session's picture is in    *)
(* that window and its event loop ran within the time after which a report *)
(* is stale, whatever the remote viewer writes to the same two files in    *)
(* between (viewer_report, write_status).                                  *)
THEOREM ReadyTellsTheTruth ==
  ASSUME Window!ViewerWindowAssumption
  PROVE  Window!Spec => []ReadyIsTrue
<1>1. WindowInv => ReadyIsTrue
  BY DEF WindowInv, WindowTypeOK, ReadyIsTrue, Window!ReadyIsTrue, Window!Report, Honest, Reports,
     Window!ViewerWindowAssumption
<1>2. Window!Init => WindowInv
  BY WindowInit
<1>3. WindowInv /\ [Window!Next]_(Window!vars) => WindowInv'
  BY WindowStep
<1>. QED
  BY <1>1, <1>2, <1>3, PTL DEF Window!Spec

-----------------------------------------------------------------------------
(* The two clipboards.                                                     *)

ClipTexts      == AgentTexts \cup {UserText, HostText, Nothing}
Selections == [text : ClipTexts, owner : {"nobody", "app", "server", "viewer"}]
Handoffs   == [at : {"idle", "join", "agent", "generation", "host", "lend", "forward",
                     "waiting", "copied", "toHost", "reading", "putBack"},
               kind : {"none", "copy", "paste"}, agent : ClipTexts, text : ClipTexts, before : Nat]

ClipTypeOK ==
  /\ session \in Selections /\ host \in Selections /\ generation \in Nat
  /\ chord \in Handoffs /\ restore \in Handoffs
  /\ store \in [at : {"idle", "applied", "frozen", "restoring"}, text : ClipTexts,
                saved : [change : Nat, text : ClipTexts]]
  /\ mine \in ClipTexts
  /\ lent \in BOOLEAN /\ disturbed \in BOOLEAN /\ newer \in BOOLEAN

(* The input thread is past its wait for the restore thread, which has     *)
(* counted the changes before it started.                                  *)
JoinInv ==
  /\ chord.at \in {"agent", "generation", "host", "lend"} => restore = Clip!Idle
  /\ restore.before <= generation /\ chord.before <= generation

(* An undisturbed handoff remembers the agent's text from its reading on,  *)
(* and the session holds that text whenever no handoff has changed it. A   *)
(* reload in between is to bring the text back itself.                     *)
BackInv ==
  ~disturbed /\ store.at # "restoring" =>
    /\ restore = Clip!Idle => session.text = mine
    /\ restore # Clip!Idle => restore.agent = mine
    /\ restore.at = "waiting" /\ generation = restore.before => session.text = mine
    /\ chord.at \in {"generation", "host", "lend"} => chord.agent = mine

(* What a handoff that nothing came in between carries.                    *)
LentInv ==
  lent =>
    /\ restore.at = "waiting" /\ generation > restore.before => session.text = UserText
    /\ restore.at = "copied" => session.text = UserText
    /\ restore.at = "toHost" => restore.text = UserText
    /\ restore.at = "reading" => session.text = restore.text

(* Past its write the store knows of no later change; at rest it remembers *)
(* a change that is not the last one if there was a later one.             *)
StoreInv ==
  /\ store.saved.change <= generation
  /\ store.at \in {"frozen", "restoring"} => store.saved.text = Nothing
  /\ store.at \in {"applied", "restoring"} => ~newer
  /\ store.at = "frozen" /\ store.text # Nothing => ~newer
  /\ store.at = "idle" /\ store.saved.text # Nothing /\ newer =>
       generation > store.saved.change

ClipInv == ClipTypeOK /\ JoinInv /\ BackInv /\ LentInv /\ StoreInv

USE DEF Clip!desktops, Clip!viewers, Clip!servers, Clip!history, Clip!ChordGoes,
        Clip!RestoreGoes, Clip!AppActs, Clip!Write, Clip!Selection, Clip!Idle, Clip!NoSaved

LEMMA ClipInit == ASSUME Clip!Init PROVE ClipInv
<1>1. ClipTypeOK
  <2>1. chord \in Handoffs /\ restore \in Handoffs
    BY DEF Clip!Init, Handoffs, ClipTexts
  <2>2. session \in Selections /\ host \in Selections
    BY DEF Clip!Init, Selections, ClipTexts
  <2>3. store \in [at : {"idle", "applied", "frozen", "restoring"}, text : ClipTexts,
                  saved : [change : Nat, text : ClipTexts]]
    BY DEF Clip!Init, ClipTexts
  <2>. QED
    BY <2>1, <2>2, <2>3 DEF Clip!Init, ClipTypeOK, ClipTexts
<1>2. JoinInv /\ BackInv /\ LentInv
  BY DEF Clip!Init, JoinInv, BackInv, LentInv
<1>3. StoreInv
  BY DEF Clip!Init, StoreInv
<1>. QED
  BY <1>1, <1>2, <1>3 DEF ClipInv

LEMMA ClipTypeStep ==
  ASSUME ClipTypeOK, [Clip!Next]_(Clip!vars)
  PROVE  ClipTypeOK'
<1> USE DEF ClipTypeOK
<1>t. UserText \in ClipTexts /\ HostText \in ClipTexts /\ Nothing \in ClipTexts
  BY DEF ClipTexts
<1>1. ASSUME NEW text \in ClipTexts, NEW who \in {"nobody", "app", "server", "viewer"}
      PROVE  Clip!Selection(text, who) \in Selections
  BY <1>1 DEF Selections
<1> HIDE DEF Clip!Selection
<1>2. session.text \in ClipTexts /\ host.text \in ClipTexts
  BY DEF Selections
<1>3. CASE Clip!Chord \/ Clip!HandoffFails \/ \E kind \in {"copy", "paste"} : Clip!Press(kind)
  <2>1. chord' \in Handoffs /\ restore' \in Handoffs
    <3> USE DEF Handoffs
    <3>1. CASE Clip!Join \/ Clip!ForwardKey \/ Clip!HandoffFails
      BY <1>t, <3>1 DEF Clip!Join, Clip!ForwardKey, Clip!HandoffFails
    <3>2. CASE Clip!ReadAgent
      BY <1>2, <3>2 DEF Clip!ReadAgent
    <3>3. CASE Clip!ReadGeneration
      BY <3>3 DEF Clip!ReadGeneration
    <3>4. CASE Clip!ReadHost
      BY <1>2, <3>4 DEF Clip!ReadHost
    <3>5. CASE Clip!LendHost
      BY <3>5 DEF Clip!LendHost
    <3>6. ASSUME NEW kind \in {"copy", "paste"}, Clip!Press(kind)
          PROVE  chord' \in Handoffs /\ restore' \in Handoffs
      BY <1>t, <3>6 DEF Clip!Press
    <3>. QED
      BY <1>3, <3>1, <3>2, <3>3, <3>4, <3>5, <3>6 DEF Clip!Chord
  <2>2. session' \in Selections /\ generation' \in Nat /\ UNCHANGED <<host, store, mine, disturbed>>
    BY <1>1, <1>3 DEF Clip!Chord, Clip!Join, Clip!ReadAgent, Clip!ReadGeneration, Clip!ReadHost,
       Clip!LendHost, Clip!ForwardKey, Clip!HandoffFails, Clip!Press, Handoffs
  <2>3. lent' \in BOOLEAN /\ newer' \in BOOLEAN
    BY <1>3 DEF Clip!Chord, Clip!Join, Clip!ReadAgent, Clip!ReadGeneration, Clip!ReadHost,
       Clip!LendHost, Clip!ForwardKey, Clip!HandoffFails, Clip!Press, Clip!Later
  <2>. QED
    BY <2>1, <2>2, <2>3
<1>4. CASE Clip!Restore
  <2>1. chord' \in Handoffs /\ restore' \in Handoffs
    <3> USE DEF Handoffs
    <3>1. CASE Clip!SeeChange \/ Clip!WriteHost \/ Clip!StopReading
      BY <3>1 DEF Clip!SeeChange, Clip!WriteHost, Clip!StopReading
    <3>2. CASE Clip!StopWaiting \/ Clip!PutBack
      BY <1>t, <3>2 DEF Clip!StopWaiting, Clip!PutBack
    <3>3. CASE Clip!ReadCopied
      <4>1. UNCHANGED chord /\ (restore' = Clip!Idle
              \/ restore' = [restore EXCEPT !.at = "toHost", !.text = session.text])
        BY <3>3 DEF Clip!ReadCopied
      <4>2. CASE restore' = Clip!Idle
        BY <1>t, <4>1, <4>2
      <4>3. CASE restore' = [restore EXCEPT !.at = "toHost", !.text = session.text]
        BY <1>2, <4>1, <4>3
      <4>. QED
        BY <4>1, <4>2, <4>3
    <3>. QED
      BY <1>4, <3>1, <3>2, <3>3 DEF Clip!Restore
  <2>2. /\ session' \in Selections /\ host' \in Selections /\ generation' \in Nat
        /\ UNCHANGED <<store, mine>>
    BY <1>1, <1>4 DEF Clip!Restore, Clip!SeeChange, Clip!StopWaiting, Clip!ReadCopied,
       Clip!WriteHost, Clip!StopReading, Clip!PutBack, Handoffs
  <2>3. lent' \in BOOLEAN /\ newer' \in BOOLEAN /\ disturbed' \in BOOLEAN
    BY <1>4 DEF Clip!Restore, Clip!SeeChange, Clip!StopWaiting, Clip!ReadCopied,
       Clip!WriteHost, Clip!StopReading, Clip!PutBack, Clip!Later
  <2>. QED
    BY <2>1, <2>2, <2>3
<1>5. CASE \/ Clip!AppCopies \/ Clip!AppPastes \/ Clip!AppSelects \/ Clip!AppMarks \/ Clip!HostCopies
           \/ Clip!OpenViewer \/ Clip!CloseViewer
  <2>1. /\ chord' \in Handoffs /\ restore' \in Handoffs
    BY <1>5, <1>t DEF Clip!AppCopies, Clip!AppPastes, Clip!AppSelects, Clip!AppMarks,
       Clip!HostCopies, Clip!OpenViewer, Clip!CloseViewer, Handoffs
  <2>2. /\ session' \in Selections /\ host' \in Selections /\ generation' \in Nat
        /\ mine' \in ClipTexts /\ UNCHANGED store
    BY <1>1, <1>t, <1>5 DEF Clip!AppCopies, Clip!AppPastes, Clip!AppSelects, Clip!AppMarks,
       Clip!HostCopies, Clip!OpenViewer, Clip!CloseViewer
  <2>3. lent' \in BOOLEAN /\ newer' \in BOOLEAN /\ disturbed' \in BOOLEAN
    BY <1>5 DEF Clip!AppCopies, Clip!AppPastes, Clip!AppSelects, Clip!AppMarks,
       Clip!HostCopies, Clip!OpenViewer, Clip!CloseViewer, Clip!Later
  <2>. QED
    BY <2>1, <2>2, <2>3
<1>6. CASE \/ \E t \in AgentTexts : Clip!StoreWrite(t)
           \/ Clip!StoreRemembers \/ Clip!Freeze \/ Clip!Exec \/ Clip!RestoreWrite
  <2>1. /\ UNCHANGED <<chord, restore, host>>
    BY <1>6 DEF Clip!StoreWrite, Clip!StoreRemembers, Clip!Freeze, Clip!Exec, Clip!RestoreWrite
  <2>2. session' \in Selections /\ generation' \in Nat
    <3>1. \/ UNCHANGED <<session, generation>>
          \/ /\ generation' = generation + 1
             /\ \E text \in ClipTexts : \/ session' = Clip!Selection(text, "server")
                                    \/ session' = Clip!Selection(text, "nobody")
      BY <1>t, <1>6 DEF Clip!StoreWrite, Clip!StoreRemembers, Clip!Freeze, Clip!Exec,
         Clip!RestoreWrite, ClipTexts
    <3>. QED
      BY <1>1, <3>1
  <2>3. CASE \E t \in AgentTexts : Clip!StoreWrite(t)
    <3>1. PICK t \in AgentTexts : Clip!StoreWrite(t)
      BY <2>3
    <3>2. t \in ClipTexts
      BY DEF ClipTexts
    <3>. QED
      BY <2>1, <2>2, <3>1, <3>2 DEF Clip!StoreWrite, Clip!HandoffUnderWay
  <2>4. CASE Clip!StoreRemembers
    BY <2>1, <2>2, <2>4 DEF Clip!StoreRemembers
  <2>5. CASE Clip!Freeze
    BY <1>t, <2>1, <2>2, <2>5 DEF Clip!Freeze
  <2>6. CASE Clip!Exec
    BY <2>1, <2>2, <2>6 DEF Clip!Exec
  <2>7. CASE Clip!RestoreWrite
    BY <2>1, <2>2, <2>7 DEF Clip!RestoreWrite
  <2>. QED
    BY <1>6, <2>3, <2>4, <2>5, <2>6, <2>7
<1>7. CASE UNCHANGED Clip!vars
  BY <1>7 DEF Clip!vars
<1>. QED
  BY <1>3, <1>4, <1>5, <1>6, <1>7 DEF Clip!Next

(* What the two steps with two outcomes do to the handoff.                 *)
LEMMA CopyIsRead ==
  ASSUME ClipTypeOK, Clip!ReadCopied
  PROVE  /\ restore.at = "copied" /\ UNCHANGED <<chord, session, generation, store, mine, newer>>
         /\ \/ restore' = Clip!Idle /\ ~lent' /\ disturbed'
            \/ /\ restore'.at = "toHost" /\ restore'.text = session.text
               /\ restore'.agent = restore.agent /\ restore'.before = restore.before
               /\ UNCHANGED <<lent, disturbed>>
<1>1. restore \in Handoffs
  BY DEF ClipTypeOK
<1>2. CASE restore' = Clip!Idle /\ ~lent' /\ disturbed'
  BY <1>2 DEF Clip!ReadCopied
<1>3. CASE /\ restore' = [restore EXCEPT !.at = "toHost", !.text = session.text]
           /\ UNCHANGED <<lent, disturbed>>
  <2>1. /\ restore'.at = "toHost" /\ restore'.text = session.text
        /\ restore'.agent = restore.agent /\ restore'.before = restore.before
    BY <1>1, <1>3 DEF Handoffs
  <2>. QED
    BY <1>3, <2>1 DEF Clip!ReadCopied
<1>4. \/ restore' = Clip!Idle /\ ~lent' /\ disturbed'
      \/ /\ restore' = [restore EXCEPT !.at = "toHost", !.text = session.text]
         /\ UNCHANGED <<lent, disturbed>>
  BY DEF Clip!ReadCopied
<1>. QED
  BY <1>2, <1>3, <1>4

LEMMA AppHasCopied ==
  ASSUME ClipTypeOK, Clip!AppCopies
  PROVE  /\ UNCHANGED <<chord, restore, store, mine>>
         /\ \/ UNCHANGED <<session, generation, newer, lent, disturbed>>
            \/ /\ session'.text = UserText /\ generation' = generation + 1
               /\ lent' => lent /\ restore.at = "waiting"
               /\ ~disturbed' => ~disturbed /\ lent'
               /\ newer' => newer \/ store.at = "idle"
<1>1. UNCHANGED <<chord, restore, store, mine>>
  BY DEF Clip!AppCopies
<1>2. \/ UNCHANGED <<session, generation, newer, lent, disturbed>>
      \/ /\ session'.text = UserText /\ generation' = generation + 1
         /\ lent' = (lent /\ restore.at = "waiting") /\ disturbed' = (disturbed \/ ~lent')
         /\ newer' = (newer \/ store.at = "idle")
  BY DEF Clip!AppCopies, Clip!Later
<1>. QED
  BY <1>1, <1>2, Zenon

LEMMA JoinStep ==
  ASSUME ClipInv, [Clip!Next]_(Clip!vars)
  PROVE  JoinInv'
<1> USE DEF JoinInv
<1>. ClipTypeOK /\ JoinInv
  BY DEF ClipInv
<1>t. /\ chord \in Handoffs /\ restore \in Handoffs /\ generation \in Nat
      /\ disturbed \in BOOLEAN /\ lent \in BOOLEAN /\ newer \in BOOLEAN
  BY DEF ClipTypeOK
<1>1. CASE \/ Clip!AppPastes \/ Clip!AppSelects \/ Clip!AppMarks \/ Clip!HostCopies
           \/ (\E t \in AgentTexts : Clip!StoreWrite(t)) \/ Clip!StoreRemembers
           \/ Clip!Freeze \/ Clip!Exec \/ Clip!RestoreWrite \/ Clip!OpenViewer
           \/ UNCHANGED Clip!vars
  <2>1. UNCHANGED <<chord, restore>> /\ (generation' = generation \/ generation' = generation + 1)
    BY <1>1 DEF Clip!AppPastes, Clip!AppSelects, Clip!AppMarks, Clip!HostCopies,
       Clip!StoreWrite, Clip!StoreRemembers, Clip!Freeze, Clip!Exec,
       Clip!RestoreWrite, Clip!OpenViewer, Clip!vars
  <2>. QED
    BY <1>t, <2>1 DEF Handoffs
<1>2. CASE Clip!AppCopies
  BY <1>t, <1>2, AppHasCopied DEF Handoffs
<1>3. CASE Clip!ReadCopied
  BY <1>t, <1>3, CopyIsRead
<1>4. CASE \E kind \in {"copy", "paste"} : Clip!Press(kind)
  BY <1>t, <1>4 DEF Clip!Press, Handoffs
<1>5. CASE Clip!Join
  BY <1>t, <1>5 DEF Clip!Join, Handoffs
<1>6. CASE Clip!ReadAgent
  BY <1>t, <1>6 DEF Clip!ReadAgent, Handoffs
<1>7. CASE Clip!ForwardKey \/ Clip!HandoffFails
  BY <1>t, <1>7 DEF Clip!ForwardKey, Clip!HandoffFails, Handoffs
<1>8. CASE Clip!ReadGeneration
  BY <1>t, <1>8 DEF Clip!ReadGeneration, Handoffs
<1>9. CASE Clip!ReadHost
  BY <1>t, <1>9 DEF Clip!ReadHost, Handoffs
<1>10. CASE Clip!LendHost
  BY <1>t, <1>10 DEF Clip!LendHost, Handoffs
<1>11. CASE Clip!SeeChange \/ Clip!StopWaiting \/ Clip!WriteHost \/ Clip!StopReading
  BY <1>t, <1>11 DEF Clip!SeeChange, Clip!StopWaiting, Clip!WriteHost,
       Clip!StopReading, Handoffs
<1>12. CASE Clip!PutBack
  BY <1>t, <1>12 DEF Clip!PutBack, Handoffs
<1>13. CASE Clip!CloseViewer
  BY <1>t, <1>13 DEF Clip!CloseViewer, Handoffs
<1>. QED
  BY <1>1, <1>2, <1>3, <1>4, <1>5, <1>6, <1>7, <1>8, <1>9, <1>10, <1>11, <1>12, <1>13 DEF Clip!Next, Clip!Chord, Clip!Restore

LEMMA BackStep ==
  ASSUME ClipInv, [Clip!Next]_(Clip!vars)
  PROVE  BackInv'
<1> USE DEF BackInv
<1>. ClipTypeOK /\ JoinInv /\ BackInv
  BY DEF ClipInv
<1>t. /\ chord \in Handoffs /\ restore \in Handoffs /\ generation \in Nat
      /\ disturbed \in BOOLEAN /\ lent \in BOOLEAN /\ newer \in BOOLEAN
  BY DEF ClipTypeOK
<1>1. CASE \/ Clip!AppPastes \/ Clip!AppMarks \/ Clip!HostCopies \/ Clip!StoreRemembers
           \/ Clip!OpenViewer \/ UNCHANGED Clip!vars
  <2>1. /\ UNCHANGED <<chord, restore, session, generation, mine, disturbed>>
        /\ store.at = "restoring" => store'.at = "restoring"
    BY <1>1 DEF Clip!AppPastes, Clip!AppMarks, Clip!HostCopies, Clip!StoreRemembers,
       Clip!OpenViewer, Clip!vars
  <2>. QED
    BY <1>t, <2>1 DEF Handoffs
<1>2. CASE Clip!Freeze \/ Clip!Exec
  <2>1. /\ UNCHANGED <<chord, restore, mine>> /\ store.at # "restoring"
        /\ ~disturbed' => ~disturbed
        /\ ~disturbed' /\ store'.at # "restoring" => UNCHANGED <<session, generation>>
    BY <1>2 DEF Clip!Freeze, Clip!Exec, ClipTypeOK
  <2>. QED
    BY <1>t, <2>1 DEF Handoffs
<1>3. CASE Clip!AppSelects
  <2>1. UNCHANGED <<chord, restore>> /\ session'.text = UserText /\ mine' = UserText
    BY <1>3 DEF Clip!AppSelects
  <2>2. ~disturbed' => chord = Clip!Idle /\ restore = Clip!Idle
    BY <1>3 DEF Clip!AppSelects, Clip!HandoffUnderWay
  <2>. QED
    BY <2>1, <2>2
<1>4. CASE Clip!RestoreWrite
  <2>1. UNCHANGED <<chord, restore>> /\ session'.text = store.text /\ mine' = store.text
    BY <1>4 DEF Clip!RestoreWrite
  <2>2. ~disturbed' => chord = Clip!Idle /\ restore = Clip!Idle
    BY <1>4 DEF Clip!RestoreWrite, Clip!HandoffUnderWay
  <2>. QED
    BY <2>1, <2>2
<1>5. CASE \E t \in AgentTexts : Clip!StoreWrite(t)
  <2>. PICK t \in AgentTexts : Clip!StoreWrite(t)
    BY <1>5
  <2>1. UNCHANGED <<chord, restore>> /\ session'.text = t /\ mine' = t
    BY DEF Clip!StoreWrite
  <2>2. ~disturbed' => chord = Clip!Idle /\ restore = Clip!Idle
    BY DEF Clip!StoreWrite, Clip!HandoffUnderWay
  <2>. QED
    BY <2>1, <2>2
<1>6. CASE Clip!AppCopies
  BY <1>t, <1>6, AppHasCopied DEF Handoffs, JoinInv
<1>7. CASE Clip!ReadCopied
  BY <1>t, <1>7, CopyIsRead
<1>8. CASE \E kind \in {"copy", "paste"} : Clip!Press(kind)
  BY <1>t, <1>8 DEF Clip!Press, Handoffs
<1>9. CASE Clip!Join \/ Clip!HandoffFails
  BY <1>t, <1>9 DEF Clip!Join, Clip!HandoffFails, Handoffs, JoinInv
<1>10. CASE Clip!ReadAgent
  BY <1>t, <1>10 DEF Clip!ReadAgent, Handoffs, JoinInv
<1>11. CASE Clip!ForwardKey
  BY <1>t, <1>11 DEF Clip!ForwardKey, Handoffs
<1>12. CASE Clip!ReadGeneration \/ Clip!ReadHost
  BY <1>t, <1>12 DEF Clip!ReadGeneration, Clip!ReadHost, Handoffs, JoinInv
<1>13. CASE Clip!LendHost
  BY <1>t, <1>13 DEF Clip!LendHost, Handoffs, JoinInv
<1>14. CASE Clip!SeeChange \/ Clip!StopWaiting \/ Clip!WriteHost \/ Clip!StopReading
  BY <1>t, <1>14 DEF Clip!SeeChange, Clip!StopWaiting, Clip!WriteHost,
       Clip!StopReading, Handoffs, JoinInv
<1>15. CASE Clip!PutBack
  BY <1>t, <1>15 DEF Clip!PutBack, Handoffs, JoinInv
<1>16. CASE Clip!CloseViewer
  BY <1>t, <1>16 DEF Clip!CloseViewer, Clip!HandoffUnderWay
<1>. QED
  BY <1>1, <1>2, <1>3, <1>4, <1>5, <1>6, <1>7, <1>8, <1>9, <1>10, <1>11, <1>12, <1>13,
       <1>14, <1>15, <1>16 DEF Clip!Next, Clip!Chord, Clip!Restore

LEMMA LentStep ==
  ASSUME ClipInv, [Clip!Next]_(Clip!vars)
  PROVE  LentInv'
<1> USE DEF LentInv
<1>. ClipTypeOK /\ JoinInv /\ LentInv
  BY DEF ClipInv
<1>t. /\ chord \in Handoffs /\ restore \in Handoffs /\ generation \in Nat
      /\ disturbed \in BOOLEAN /\ lent \in BOOLEAN /\ newer \in BOOLEAN
  BY DEF ClipTypeOK
<1>1. CASE \/ (\E kind \in {"copy", "paste"} : Clip!Press(kind)) \/ Clip!Join
           \/ Clip!ReadHost \/ Clip!ForwardKey \/ Clip!AppPastes \/ Clip!AppMarks
           \/ Clip!HostCopies \/ Clip!StoreRemembers \/ Clip!Freeze \/ Clip!OpenViewer
           \/ UNCHANGED Clip!vars
  <2>1. UNCHANGED <<restore, session, generation, lent>>
    BY <1>1 DEF Clip!Press, Clip!Join, Clip!ReadHost, Clip!ForwardKey, Clip!AppPastes,
       Clip!AppMarks, Clip!HostCopies, Clip!StoreRemembers, Clip!Freeze,
       Clip!OpenViewer, Clip!vars
  <2>. QED
    BY <1>t, <2>1 DEF Handoffs
<1>2. CASE \/ Clip!HandoffFails \/ Clip!StopWaiting \/ Clip!AppSelects
           \/ (\E t \in AgentTexts : Clip!StoreWrite(t)) \/ Clip!Exec \/ Clip!RestoreWrite
           \/ Clip!CloseViewer
  <2>1. lent' = FALSE
    BY <1>2 DEF Clip!HandoffFails, Clip!StopWaiting, Clip!AppSelects, Clip!StoreWrite,
       Clip!Exec, Clip!RestoreWrite, Clip!CloseViewer
  <2>. QED
    BY <1>t, <2>1 DEF Handoffs
<1>3. CASE Clip!AppCopies
  BY <1>t, <1>3, AppHasCopied DEF Handoffs
<1>4. CASE Clip!ReadCopied
  BY <1>t, <1>4, CopyIsRead
<1>5. CASE Clip!ReadAgent
  BY <1>t, <1>5 DEF Clip!ReadAgent, Handoffs, JoinInv
<1>6. CASE Clip!ReadGeneration
  BY <1>t, <1>6 DEF Clip!ReadGeneration, Handoffs, JoinInv
<1>7. CASE Clip!LendHost
  BY <1>t, <1>7 DEF Clip!LendHost, Handoffs
<1>8. CASE Clip!SeeChange \/ Clip!WriteHost \/ Clip!StopReading
  BY <1>t, <1>8 DEF Clip!SeeChange, Clip!WriteHost, Clip!StopReading, Handoffs
<1>9. CASE Clip!PutBack
  BY <1>t, <1>9 DEF Clip!PutBack, Handoffs
<1>. QED
  BY <1>1, <1>2, <1>3, <1>4, <1>5, <1>6, <1>7, <1>8, <1>9 DEF Clip!Next, Clip!Chord, Clip!Restore

LEMMA StoreStep ==
  ASSUME ClipInv, [Clip!Next]_(Clip!vars)
  PROVE  StoreInv'
<1> USE DEF StoreInv
<1>. ClipTypeOK /\ StoreInv
  BY DEF ClipInv
<1>t. /\ chord \in Handoffs /\ restore \in Handoffs /\ generation \in Nat
      /\ disturbed \in BOOLEAN /\ lent \in BOOLEAN /\ newer \in BOOLEAN
  BY DEF ClipTypeOK
<1>1. CASE \/ (\E kind \in {"copy", "paste"} : Clip!Press(kind)) \/ Clip!Join
           \/ Clip!ReadAgent \/ Clip!ReadGeneration \/ Clip!ReadHost \/ Clip!ForwardKey
           \/ Clip!HandoffFails \/ Clip!SeeChange \/ Clip!StopWaiting \/ Clip!WriteHost
           \/ Clip!StopReading \/ Clip!AppPastes \/ Clip!AppMarks \/ Clip!HostCopies
           \/ Clip!OpenViewer \/ UNCHANGED Clip!vars
  <2>1. UNCHANGED <<store, generation, newer>>
    BY <1>1 DEF Clip!Press, Clip!Join, Clip!ReadAgent, Clip!ReadGeneration,
       Clip!ReadHost, Clip!ForwardKey, Clip!HandoffFails, Clip!SeeChange,
       Clip!StopWaiting, Clip!WriteHost, Clip!StopReading, Clip!AppPastes,
       Clip!AppMarks, Clip!HostCopies, Clip!OpenViewer, Clip!vars
  <2>. QED
    BY <1>t, <2>1 DEF Handoffs
<1>2. CASE Clip!AppCopies
  BY <1>t, <1>2, AppHasCopied DEF ClipTypeOK
<1>3. CASE Clip!ReadCopied
  BY <1>t, <1>3, CopyIsRead
<1>4. CASE Clip!LendHost \/ Clip!PutBack \/ Clip!AppSelects
  BY <1>t, <1>4 DEF Clip!LendHost, Clip!PutBack, Clip!AppSelects, Clip!Later,
       ClipTypeOK
<1>5. CASE Clip!CloseViewer
  BY <1>t, <1>5 DEF Clip!CloseViewer, Clip!Later, ClipTypeOK
<1>6. CASE \E t \in AgentTexts : Clip!StoreWrite(t)
  <2>1. /\ generation' = generation + 1 /\ newer' = FALSE
        /\ store'.at = "applied" /\ store'.saved = store.saved
    BY <1>6 DEF Clip!StoreWrite, ClipTypeOK
  <2>. QED
    BY <1>t, <2>1 DEF ClipTypeOK
<1>7. CASE Clip!StoreRemembers
  BY <1>t, <1>7 DEF Clip!StoreRemembers, ClipTypeOK
<1>8. CASE Clip!Freeze
  BY <1>t, <1>8 DEF Clip!Freeze, Clip!Kept, ClipTypeOK
<1>9. CASE Clip!Exec
  BY <1>t, <1>9 DEF Clip!Exec, ClipTypeOK
<1>10. CASE Clip!RestoreWrite
  BY <1>t, <1>10 DEF Clip!RestoreWrite, ClipTypeOK
<1>. QED
  BY <1>1, <1>2, <1>3, <1>4, <1>5, <1>6, <1>7, <1>8, <1>9, <1>10 DEF Clip!Next, Clip!Chord, Clip!Restore

LEMMA ClipInvariance == Clip!Spec => []ClipInv
<1>1. ClipInv /\ [Clip!Next]_(Clip!vars) => ClipInv'
  BY ClipTypeStep, JoinStep, BackStep, LentStep, StoreStep DEF ClipInv
<1>. QED
  BY ClipInit, <1>1, PTL DEF Clip!Spec

(* After any number of the user's copies and pastes, of writes and of      *)
(* live reloads the session's clipboard holds what the agent last wrote,   *)
(* or had copied, unless somebody changed it meanwhile: the restore thread *)
(* puts back what its own shortcut had read, because the next shortcut     *)
(* reads only after that thread has ended (ClipboardBridge::before).       *)
THEOREM AgentTextIsBack == Clip!Spec => []AgentTextComesBack
<1>1. ClipInv => AgentTextComesBack
  BY DEF ClipInv, BackInv, AgentTextComesBack, Clip!AgentTextComesBack, Clip!AtRest, Clip!HandoffUnderWay
<1>. QED
  BY ClipInvariance, <1>1, PTL

(* A shortcut that nothing came in between never takes the agent's text to *)
(* the host, and never has the agent's text pasted for the user.           *)
THEOREM ShortcutsCarryUsersText == Clip!Spec => ShortcutsCarryTheUsersText
<1>1. ASSUME ClipInv, lent, Clip!WriteHost
      PROVE  host'.text = UserText
  <2>1. restore.at = "toHost" /\ host'.text = restore.text
    BY <1>1 DEF Clip!WriteHost
  <2>. QED
    BY <1>1, <2>1 DEF ClipInv, LentInv
<1>2. ASSUME ClipInv, lent, restore.at = "reading"
      PROVE  session.text = restore.text
  BY <1>2 DEF ClipInv, LentInv
<1>3. ClipInv => (/\ lent /\ Clip!WriteHost => host'.text = UserText
                  /\ lent /\ restore.at = "reading" /\ Clip!AppPastes =>
                       session.text = restore.text)
  BY <1>1, <1>2
<1>. QED
  BY ClipInvariance, <1>3, PTL DEF ShortcutsCarryTheUsersText, Clip!ShortcutsCarryTheUsersText

(* A live reload never overwrites a later selection with the server's old  *)
(* text: the text is carried only while the generation that the store      *)
(* remembers is still the current one (ClipboardStore::saved).             *)
THEOREM ReloadsOverwriteNothing == Clip!Spec => ReloadOverwritesNothing
<1>1. ClipInv => (store.at = "restoring" /\ store'.at = "applied" => ~newer)
  BY DEF ClipInv, StoreInv
<1>. QED
  BY ClipInvariance, <1>1, PTL DEF ReloadOverwritesNothing, Clip!ReloadOverwritesNothing

-----------------------------------------------------------------------------
(* The agent's input.                                                      *)

HIDE ViewerInputAssumption

Events     == [event : {"down", "up", "tap", "wait", "touch"}, key : Sent!AllKeys]
TextEvents == {e \in Events : e.key # Ctrl}

(* What KWin holds down when it has read all that is queued.               *)
Will == Sent!After(queue, kwinDown)

LEMMA ApplyKeys ==
  ASSUME NEW e \in Events, NEW set \in SUBSET Sent!AllKeys
  PROVE  Sent!Apply(e, set) \in SUBSET Sent!AllKeys
BY DEF Sent!Apply, Events

(* The keys held down after some of the requests, one by one.              *)
Follows(f, requests, set) ==
  /\ f \in [0..Len(requests) -> SUBSET Sent!AllKeys]
  /\ f[0] = set
  /\ \A i \in 1..Len(requests) : f[i] = Sent!Apply(requests[i], f[i - 1])

LEMMA FollowExists ==
  ASSUME NEW requests \in Seq(Events), NEW set \in SUBSET Sent!AllKeys
  PROVE  \E f : Follows(f, requests, set)
<1> DEFINE N == Len(requests)
           D == SUBSET Sent!AllKeys
           step == [x \in D \X (1..N) |-> Sent!Apply(requests[x[2]], x[1])]
<1>1. N \in Nat /\ set \in D /\ \A n \in 1..N : requests[n] \in Events
  OBVIOUS
<1>2. step \in [D \X (1..N) -> D]
  BY <1>1, ApplyKeys
<1>3. PICK f \in [0..N -> D] : Folds(f, set, step, N)
  <2>. HIDE DEF step, D, N
  <2>. QED
    BY <1>1, <1>2, FoldExists
<1>4. ASSUME NEW n \in 1..N
      PROVE  f[n] = Sent!Apply(requests[n], f[n - 1])
  <2>1. n - 1 \in 0..N /\ n \in 0..N /\ n # 0
    BY <1>1
  <2>2. <<f[n - 1], n>> \in D \X (1..N)
    BY <1>3, <2>1
  <2>3. step[<<f[n - 1], n>>] = Sent!Apply(requests[n], f[n - 1])
    <3>. HIDE DEF D, N
    <3>. QED
      BY <2>2
  <2>. HIDE DEF step, N
  <2>. QED
    BY <1>3, <2>1, <2>3 DEF Folds
<1>5. f[0] = set
  <2>. HIDE DEF step
  <2>. QED
    BY <1>1, <1>3 DEF Folds
<1>. QED
  BY <1>3, <1>4, <1>5 DEF Follows

LEMMA FollowsOneWay ==
  ASSUME NEW requests \in Seq(Events), NEW set \in SUBSET Sent!AllKeys,
         NEW f, NEW g, Follows(f, requests, set), Follows(g, requests, set)
  PROVE  \A n \in 0..Len(requests) : f[n] = g[n]
<1> DEFINE S == {n \in Nat : n <= Len(requests) => f[n] = g[n]}
<1>1. 0 \in S
  BY DEF Follows
<1>2. \A n \in Nat : n \in S => n + 1 \in S
  <2> SUFFICES ASSUME NEW n \in Nat, n \in S, n + 1 <= Len(requests)
               PROVE  f[n + 1] = g[n + 1]
    OBVIOUS
  <2>1. n + 1 \in 1..Len(requests) /\ (n + 1) - 1 = n /\ f[n] = g[n]
    OBVIOUS
  <2>. QED
    BY <2>1 DEF Follows
<1>3. Nat \subseteq S
  <2>. HIDE DEF S
  <2>. QED
    BY <1>1, <1>2, Inductive
<1>. QED
  BY <1>3

LEMMA AfterFollows ==
  ASSUME NEW requests \in Seq(Events), NEW set \in SUBSET Sent!AllKeys,
         NEW f, Follows(f, requests, set)
  PROVE  Sent!After(requests, set) = f[Len(requests)]
<1> DEFINE N == Len(requests)
           G(h) == [i \in 0..N |-> IF i = 0 THEN set ELSE Sent!Apply(requests[i], h[i - 1])]
           g == CHOOSE h : h = G(h)
<1>1. N \in Nat
  OBVIOUS
<1>2. f = G(f)
  <2>1. \A i \in 0..N : i = 0 \/ i \in 1..N
    BY <1>1
  <2>. QED
    BY <2>1 DEF Follows
<1>3. g = G(g)
  BY <1>2
<1>4. Sent!After(requests, set) = g[N]
  BY DEF Sent!After
<1>. HIDE DEF g
<1>5. g[0] = set /\ \A i \in 1..N : g[i] = Sent!Apply(requests[i], g[i - 1])
  BY <1>1, <1>3
<1> DEFINE S == {n \in Nat : n <= N => f[n] = g[n]}
<1>6. 0 \in S
  BY <1>5 DEF Follows
<1>7. \A n \in Nat : n \in S => n + 1 \in S
  <2> SUFFICES ASSUME NEW n \in Nat, n \in S, n + 1 <= N
               PROVE  f[n + 1] = g[n + 1]
    OBVIOUS
  <2>1. n + 1 \in 1..N /\ (n + 1) - 1 = n /\ f[n] = g[n]
    BY <1>1
  <2>. QED
    BY <2>1, <1>5 DEF Follows
<1>8. Nat \subseteq S
  <2>. HIDE DEF S
  <2>. QED
    BY <1>6, <1>7, Inductive
<1>. QED
  BY <1>1, <1>4, <1>8

LEMMA AfterKeys ==
  ASSUME NEW requests \in Seq(Events), NEW set \in SUBSET Sent!AllKeys
  PROVE  Sent!After(requests, set) \in SUBSET Sent!AllKeys
<1>1. PICK f : Follows(f, requests, set)
  BY FollowExists
<1>. QED
  BY <1>1, AfterFollows DEF Follows

(* Part of the requests first, and the rest later, comes to the same.      *)
LEMMA AfterInParts ==
  ASSUME NEW all \in Seq(Events), NEW set \in SUBSET Sent!AllKeys, NEW n \in 0..Len(all)
  PROVE  Sent!After(SubSeq(all, n + 1, Len(all)), Sent!After(SubSeq(all, 1, n), set))
           = Sent!After(all, set)
<1> DEFINE first == SubSeq(all, 1, n)
           rest  == SubSeq(all, n + 1, Len(all))
           R     == Len(all) - n
<1>1. PICK f : Follows(f, all, set)
  BY FollowExists
<1>2. /\ first \in Seq(Events) /\ Len(first) = n
      /\ \A i \in 1..n : first[i] = all[i]
  OBVIOUS
<1>3. /\ rest \in Seq(Events) /\ Len(rest) = R
      /\ \A i \in 1..R : rest[i] = all[n + i]
  OBVIOUS
<1>4. R \in Nat /\ n \in Nat /\ Len(all) \in Nat /\ n + R = Len(all)
  OBVIOUS
<1> DEFINE g == [i \in 0..n |-> f[i]]
           h == [i \in 0..R |-> f[n + i]]
<1>. HIDE DEF first, rest, R
<1>5. Follows(g, first, set)
  BY <1>1, <1>2, <1>4 DEF Follows
<1>6. Sent!After(first, set) = f[n]
  BY <1>2, <1>4, <1>5, AfterFollows
<1>7. f[n] \in SUBSET Sent!AllKeys
  BY <1>1, <1>4 DEF Follows
<1>8. Follows(h, rest, f[n])
  <2>1. h \in [0..Len(rest) -> SUBSET Sent!AllKeys]
    BY <1>1, <1>3, <1>4 DEF Follows
  <2>2. ASSUME NEW i \in 1..Len(rest)
        PROVE  h[i] = Sent!Apply(rest[i], h[i - 1])
    <3>1. n + i \in 1..Len(all) /\ (n + i) - 1 = n + (i - 1) /\ i - 1 \in 0..R /\ i \in 0..R
      BY <1>3, <1>4
    <3>2. f[n + i] = Sent!Apply(all[n + i], f[n + (i - 1)])
      BY <1>1, <3>1 DEF Follows
    <3>. QED
      BY <1>3, <3>1, <3>2
  <2>3. h[0] = f[n]
    BY <1>4
  <2>. QED
    BY <2>1, <2>2, <2>3 DEF Follows
<1>9. Sent!After(rest, f[n]) = f[Len(all)]
  <2>1. Sent!After(rest, f[n]) = h[Len(rest)]
    <3>. HIDE DEF h
    <3>. QED
      BY <1>3, <1>7, <1>8, AfterFollows
  <2>. QED
    BY <2>1, <1>3, <1>4
<1>10. Sent!After(all, set) = f[Len(all)]
  BY <1>1, AfterFollows
<1>. QED
  BY <1>6, <1>9, <1>10 DEF first, rest

LEMMA AfterMore ==
  ASSUME NEW requests \in Seq(Events), NEW more \in Seq(Events), NEW set \in SUBSET Sent!AllKeys
  PROVE  Sent!After(requests \o more, set) = Sent!After(more, Sent!After(requests, set))
<1> DEFINE all == requests \o more
<1>1. all \in Seq(Events) /\ Len(requests) \in 0..Len(all)
  OBVIOUS
<1>2. SubSeq(all, 1, Len(requests)) = requests /\ SubSeq(all, Len(requests) + 1, Len(all)) = more
  OBVIOUS
<1>. HIDE DEF all
<1>3. Sent!After(all, set) = Sent!After(more, Sent!After(requests, set))
  BY <1>1, <1>2, AfterInParts
<1>. QED
  BY <1>3 DEF all

LEMMA AfterOne ==
  ASSUME NEW e \in Events, NEW set \in SUBSET Sent!AllKeys
  PROVE  Sent!After(<<e>>, set) = Sent!Apply(e, set)
<1> DEFINE f == [i \in 0..1 |-> IF i = 0 THEN set ELSE Sent!Apply(e, set)]
<1>1. <<e>> \in Seq(Events) /\ Len(<<e>>) = 1 /\ <<e>>[1] = e
  OBVIOUS
<1>2. Follows(f, <<e>>, set)
  BY <1>1, ApplyKeys DEF Follows
<1>3. f[1] = Sent!Apply(e, set)
  OBVIOUS
<1>. HIDE DEF f
<1>. QED
  BY <1>1, <1>2, <1>3, AfterFollows

(* What an event leaves down, whatever of its requests has reached KWin.   *)
LEMMA AfterRequests ==
  ASSUME NEW e \in Events, NEW set \in SUBSET Sent!AllKeys, e.event # "wait"
  PROVE  /\ Sent!Requests(e) \in Seq(Events)
         /\ Sent!After(Sent!Requests(e), set) =
              IF e.event = "down" THEN set \cup {e.key}
              ELSE IF e.event \in {"up", "tap"} THEN set \ {e.key} ELSE set
<1>1. CASE e.event = "tap"
  <2> DEFINE d == Sent!Down(e.key)
             u == Sent!Up(e.key)
  <2>1. d \in Events /\ u \in Events
    BY DEF Sent!Down, Sent!Up, Events
  <2>2. Sent!Requests(e) = <<d>> \o <<u>>
    BY <1>1 DEF Sent!Requests
  <2>3. Sent!Apply(d, set) = set \cup {e.key}
    BY DEF Sent!Apply, Sent!Down
  <2>4. Sent!Apply(u, set \cup {e.key}) = set \ {e.key}
    BY DEF Sent!Apply, Sent!Up
  <2>5. set \cup {e.key} \in SUBSET Sent!AllKeys
    BY DEF Events
  <2>. HIDE DEF d, u
  <2>6. Sent!After(<<d>> \o <<u>>, set) = set \ {e.key}
    <3>1. <<d>> \in Seq(Events) /\ <<u>> \in Seq(Events)
      BY <2>1
    <3>2. Sent!After(<<d>> \o <<u>>, set) = Sent!After(<<u>>, Sent!After(<<d>>, set))
      BY <3>1, AfterMore
    <3>3. Sent!After(<<d>>, set) = set \cup {e.key}
      BY <2>1, <2>3, AfterOne
    <3>4. Sent!After(<<u>>, set \cup {e.key}) = set \ {e.key}
      BY <2>1, <2>4, <2>5, AfterOne
    <3>. QED
      BY <3>2, <3>3, <3>4
  <2>7. <<d>> \o <<u>> \in Seq(Events)
    BY <2>1
  <2>. QED
    BY <1>1, <2>2, <2>6, <2>7
<1>2. CASE e.event # "tap"
  <2>1. Sent!Requests(e) = <<e>>
    BY <1>2 DEF Sent!Requests
  <2>2. e.event \in {"down", "up", "touch"}
    BY <1>2 DEF Events
  <2>3. Sent!After(<<e>>, set) = Sent!Apply(e, set)
    BY AfterOne
  <2>. QED
    BY <2>1, <2>2, <2>3 DEF Sent!Apply
<1>. QED
  BY <1>1, <1>2

(* However much of the queue a flush gets rid of, KWin will hold down what *)
(* it held before with the new requests added.                             *)
LEMMA FlushAdds ==
  ASSUME NEW requests \in Seq(Events), NEW ok, queue \in Seq(Events),
         kwinDown \in SUBSET Sent!AllKeys, socket \in {"room", "full", "lost"},
         Sent!Flush(requests, ok)
  PROVE  /\ queue' \in Seq(Events) /\ kwinDown' \in SUBSET Sent!AllKeys
         /\ Will' = Sent!After(requests, Will)
<1> DEFINE all == queue \o requests
<1>1. all \in Seq(Events)
  OBVIOUS
<1>2. PICK n \in 0..Len(all) : /\ kwinDown' = Sent!After(SubSeq(all, 1, n), kwinDown)
                               /\ queue' = SubSeq(all, n + 1, Len(all))
  <2>1. Len(all) \in Nat
    BY <1>1
  <2>2. CASE socket = "room"
    <3>1. \E n \in {Len(all)} : /\ kwinDown' = Sent!After(SubSeq(all, 1, n), kwinDown)
                               /\ queue' = SubSeq(all, n + 1, Len(all))
      BY <2>2 DEF Sent!Flush
    <3>. QED
      BY <2>1, <3>1
  <2>3. CASE socket = "full"
    <3>1. \E n \in 0..Len(all) - 1 : /\ kwinDown' = Sent!After(SubSeq(all, 1, n), kwinDown)
                                    /\ queue' = SubSeq(all, n + 1, Len(all))
      BY <2>3 DEF Sent!Flush
    <3>. HIDE DEF all
    <3>. QED
      BY <2>1, <3>1
  <2>4. CASE socket = "lost"
    <3>1. \E n \in {0} : /\ kwinDown' = Sent!After(SubSeq(all, 1, n), kwinDown)
                         /\ queue' = SubSeq(all, n + 1, Len(all))
      BY <2>4 DEF Sent!Flush
    <3>. HIDE DEF all
    <3>. QED
      BY <2>1, <3>1
  <2>. QED
    BY <2>2, <2>3, <2>4
<1>3. SubSeq(all, 1, n) \in Seq(Events) /\ SubSeq(all, n + 1, Len(all)) \in Seq(Events)
  <2>. HIDE DEF all
  <2>. QED
    BY <1>1
<1>4. Sent!After(all, kwinDown) = Sent!After(requests, Will)
  BY AfterMore DEF Will
<1>5. Sent!After(queue', kwinDown') = Sent!After(all, kwinDown)
  <2>. HIDE DEF all
  <2>. QED
    BY <1>1, <1>2, AfterInParts
<1>. HIDE DEF all
<1>. QED
  BY <1>2, <1>3, <1>4, <1>5, AfterKeys DEF Will

-----------------------------------------------------------------------------
(* What an operation sends.                                                *)

(* keyboard_press and keyboard_release.                                    *)
HandEvents == {e \in Events : e.event # "tap" /\ e.key # Button}

SentTypeOK ==
  /\ kwinDown \in SUBSET Sent!AllKeys /\ queue \in Seq(Events)
  /\ socket \in {"room", "full", "lost"}
  /\ held \in SUBSET (Sent!AllKeys \ {Button})
  /\ plan \in Seq(Events) /\ keys \in SUBSET Sent!AllKeys
  /\ attempted \in Nat

(* What KWin will hold down and what the log takes for held differ only in *)
(* keys that the operation's SentInput still has, and these are none       *)
(* between operations. The tools without a SentInput never part the two.   *)
HistoryInv ==
  /\ op = "none" => keys = {}
  /\ op \in {"none", "dropping"} => plan = <<>>
  /\ op \in {"keyboard_press", "keyboard_release"} => keys = {} /\ plan \in Seq(HandEvents)
  /\ \A k \in Sent!AllKeys \ keys : k \in Will <=> k \in held
  /\ held \subseteq keptDown \cup keys

(* Text never follows a ctrl that is down: it was released, or will be     *)
(* before the first character.                                             *)
CtrlReleased == Ctrl \notin Will /\ plan \in Seq(TextEvents)
CtrlIsFirst(events) ==
  \E j \in 1..Len(events) :
    /\ events[j] = Sent!Up(Ctrl)
    /\ \A i \in 1..(j - 1) : events[i].event # "tap"
    /\ \A i \in (j + 1)..Len(events) : events[i].key # Ctrl

TextInv ==
  op = "keyboard_type" => /\ Will \cap Sent!Modifiers \subseteq keys
                          /\ CtrlReleased \/ CtrlIsFirst(plan)

SentInv == SentTypeOK /\ HistoryInv /\ TextInv

LEMMA EventsAre ==
  ASSUME NEW k \in Sent!AllKeys
  PROVE  /\ Sent!Down(k) \in Events /\ Sent!Up(k) \in Events /\ Sent!Tap(k) \in Events
         /\ Sent!Wait \in Events /\ Sent!Touch \in Events
BY DEF Sent!Down, Sent!Up, Sent!Tap, Sent!Wait, Sent!Touch, Sent!AllKeys, Events

LEMMA CombinationIsSent ==
  ASSUME NEW m \in Sent!Modifiers
  PROVE  Sent!keyboard_key(m) \in Seq(Events)
<1>1. m \in Sent!AllKeys /\ Key \in Sent!AllKeys
  BY DEF Sent!AllKeys
<1>. QED
  BY <1>1, EventsAre DEF Sent!keyboard_key

LEMMA MouseIsSent ==
  /\ Sent!mouse_move \in Seq(Events) /\ Sent!mouse_click \in Seq(Events)
  /\ Sent!mouse_drag \in Seq(Events) /\ Sent!mouse_scroll \in Seq(Events)
<1>1. Button \in Sent!AllKeys
  BY DEF Sent!AllKeys
<1>2. Sent!mouse_move \in Seq(Events)
  BY <1>1, EventsAre DEF Sent!mouse_move
<1>3. Sent!mouse_click \in Seq(Events)
  BY <1>1, <1>2, EventsAre DEF Sent!mouse_click
<1>4. Sent!mouse_drag \in Seq(Events)
  BY <1>1, <1>2, EventsAre DEF Sent!mouse_drag
<1>5. Sent!mouse_scroll \in Seq(Events)
  BY <1>1, <1>2, EventsAre DEF Sent!mouse_scroll
<1>. QED
  BY <1>2, <1>3, <1>4, <1>5

LEMMA HandsAreSent ==
  ASSUME Sent!SentInputAssumption, NEW m \in Sent!Modifiers
  PROVE  /\ Sent!keyboard_press(m) \in Seq(HandEvents)
         /\ Sent!keyboard_release(m) \in Seq(HandEvents)
<1>1. m \in Sent!AllKeys /\ Key \in Sent!AllKeys /\ m # Button /\ Key # Button
  BY DEF Sent!AllKeys, Sent!SentInputAssumption
<1>2. /\ Sent!Down(m) \in HandEvents /\ Sent!Down(Key) \in HandEvents
      /\ Sent!Up(m) \in HandEvents /\ Sent!Up(Key) \in HandEvents /\ Sent!Wait \in HandEvents
  BY <1>1, EventsAre DEF HandEvents, Sent!Down, Sent!Up, Sent!Wait
<1>. QED
  BY <1>2 DEF Sent!keyboard_press, Sent!keyboard_release

LEMMA TextIsSent ==
  ASSUME Sent!SentInputAssumption, NEW text \in Texts
  PROVE  /\ Sent!type_with_profile(text) \in Seq(TextEvents)
         /\ Sent!keyboard_type(text) \in Seq(TextEvents)
<1>1. text \in Seq(BOOLEAN)
  BY DEF Sent!SentInputAssumption
<1>2. /\ Sent!Wait \in TextEvents /\ Sent!Tap(Letter) \in TextEvents
      /\ Sent!Down(Shift) \in TextEvents /\ Sent!Up(Shift) \in TextEvents
  BY DEF TextEvents, Events, Sent!Wait, Sent!Tap, Sent!Down, Sent!Up, Sent!AllKeys,
         Sent!Modifiers, Sent!SentInputAssumption
<1> DEFINE N == Len(text)
           D == Seq(TextEvents)
           shifted == [i \in 0..Len(text) + 1 |-> i \in 1..Len(text) /\ text[i]]
           More(s, i) == s \o <<Sent!Wait>> \o Sent!Shifts(shifted[i - 1], shifted[i])
                           \o <<Sent!Tap(Letter), Sent!Wait>>
           step == [x \in D \X (1..N) |-> More(x[1], x[2])]
           G(f) == [i \in 0..N |-> IF i = 0 THEN <<>> ELSE More(f[i - 1], i)]
<1>3. N \in Nat /\ <<>> \in D
  BY <1>1
<1>4. ASSUME NEW was, NEW is
      PROVE  Sent!Shifts(was, is) \in D
  BY <1>2 DEF Sent!Shifts
<1>5. ASSUME NEW s \in D, NEW i \in 1..N
      PROVE  More(s, i) \in D
  <2>1. Sent!Shifts(shifted[i - 1], shifted[i]) \in D
    BY <1>4
  <2>2. <<Sent!Wait>> \in D /\ <<Sent!Tap(Letter), Sent!Wait>> \in D
    BY <1>2
  <2>. HIDE DEF shifted
  <2>. QED
    BY <2>1, <2>2
<1>6. step \in [D \X (1..N) -> D]
  <2>. HIDE DEF D, N, More
  <2>. QED
    BY <1>5
<1>7. PICK f \in [0..N -> D] : Folds(f, <<>>, step, N)
  <2>. HIDE DEF step, D, N
  <2>. QED
    BY <1>3, <1>6, FoldExists
<1>8. f = G(f)
  <2>1. ASSUME NEW n \in 1..N
        PROVE  step[<<f[n - 1], n>>] = More(f[n - 1], n)
    <3>1. n - 1 \in 0..N
      BY <1>3
    <3>2. <<f[n - 1], n>> \in D \X (1..N)
      BY <1>7, <3>1
    <3>. HIDE DEF More, D, N
    <3>. QED
      BY <3>2
  <2>. HIDE DEF step, More
  <2>2. f = [n \in 0..N |-> IF n = 0 THEN <<>> ELSE step[<<f[n - 1], n>>]]
    BY <1>7 DEF Folds
  <2>3. \A n \in 0..N : n = 0 \/ n \in 1..N
    BY <1>3
  <2>. HIDE DEF N
  <2>. QED
    BY <2>1, <2>2, <2>3
<1> DEFINE g == CHOOSE h : h = G(h)
<1>9. g = G(g)
  BY <1>8
<1>10. Sent!type_with_profile(text) = g[N] \o Sent!Shifts(shifted[N], FALSE) \o <<Sent!Wait>>
  BY DEF Sent!type_with_profile
<1>. HIDE DEF g
<1>11. g[0] = <<>> /\ \A i \in 1..N : g[i] = More(g[i - 1], i)
  <2>. HIDE DEF More
  <2>. QED
    BY <1>3, <1>9
<1> DEFINE S == {n \in Nat : n <= N => g[n] \in D}
<1>12. 0 \in S
  BY <1>3, <1>11
<1>13. \A n \in Nat : n \in S => n + 1 \in S
  <2> SUFFICES ASSUME NEW n \in Nat, n \in S, n + 1 <= N
               PROVE  g[n + 1] \in D
    OBVIOUS
  <2>1. n + 1 \in 1..N /\ (n + 1) - 1 = n /\ g[n] \in D
    BY <1>3
  <2>. HIDE DEF More, D, N
  <2>. QED
    BY <2>1, <1>5, <1>11
<1>14. Nat \subseteq S
  <2>. HIDE DEF S
  <2>. QED
    BY <1>12, <1>13, Inductive
<1>15. g[N] \in D
  BY <1>3, <1>14
<1>16. Sent!type_with_profile(text) \in D
  <2>1. Sent!Shifts(shifted[N], FALSE) \in D
    BY <1>4
  <2>2. <<Sent!Wait>> \in D
    BY <1>2
  <2>3. \A p, q, r \in D : p \o q \o r \in D
    OBVIOUS
  <2>. HIDE DEF shifted, N, D
  <2>4. g[N] \o Sent!Shifts(shifted[N], FALSE) \o <<Sent!Wait>> \in D
    BY <1>15, <2>1, <2>2, <2>3
  <2>. QED
    BY <1>10, <2>4
<1>17. Sent!keyboard_type(text) \in D
  <2>1. <<Sent!Wait>> \in D
    BY <1>2
  <2>. QED
    BY <1>16, <2>1 DEF Sent!keyboard_type
<1>. QED
  BY <1>16, <1>17

LEMMA TextIsEvents ==
  ASSUME NEW s \in Seq(TextEvents)
  PROVE  s \in Seq(Events)
BY DEF TextEvents

LEMMA HandIsEvents ==
  ASSUME NEW s \in Seq(HandEvents)
  PROVE  s \in Seq(Events)
BY DEF HandEvents

(* keyboard_type with replace: ctrl is up again before the text.           *)
LEMMA ReplaceIsSent ==
  ASSUME Sent!SentInputAssumption, NEW text \in Texts
  PROVE  /\ Sent!keyboard_type_replace(text) \in Seq(Events)
         /\ CtrlIsFirst(Sent!keyboard_type_replace(text))
<1> DEFINE ctrlA == Sent!keyboard_key(Ctrl)
           first == <<Sent!Wait>> \o ctrlA
           typed == Sent!keyboard_type(text)
           all   == first \o typed
<1>1. typed \in Seq(TextEvents)
  BY TextIsSent
<1>2. typed \in Seq(Events)
  BY <1>1, TextIsEvents
<1>3. /\ ctrlA \in Seq(Events) /\ Len(ctrlA) = 8
      /\ ctrlA[7] = Sent!Up(Ctrl) /\ ctrlA[8] = Sent!Wait
      /\ \A i \in 1..6 : ctrlA[i].event # "tap"
  <2>1. ctrlA \in Seq(Events)
    BY CombinationIsSent DEF Sent!Modifiers
  <2>2. Len(ctrlA) = 8 /\ ctrlA[7] = Sent!Up(Ctrl) /\ ctrlA[8] = Sent!Wait
    BY DEF Sent!keyboard_key
  <2>3. /\ ctrlA[1] = Sent!Down(Ctrl) /\ ctrlA[2] = Sent!Wait /\ ctrlA[3] = Sent!Down(Key)
        /\ ctrlA[4] = Sent!Wait /\ ctrlA[5] = Sent!Up(Key) /\ ctrlA[6] = Sent!Wait
    BY DEF Sent!keyboard_key
  <2>. HIDE DEF ctrlA
  <2>4. \A i \in 1..6 : i = 1 \/ i = 2 \/ i = 3 \/ i = 4 \/ i = 5 \/ i = 6
    OBVIOUS
  <2>5. \A i \in 1..6 : ctrlA[i].event # "tap"
    BY <2>3, <2>4 DEF Sent!Down, Sent!Up, Sent!Wait
  <2>. QED
    BY <2>1, <2>2, <2>5
<1>. HIDE DEF ctrlA, typed
<1>4. /\ first \in Seq(Events) /\ Len(first) = 9
      /\ first[1] = Sent!Wait /\ \A i \in 2..9 : first[i] = ctrlA[i - 1]
  <2>1. <<Sent!Wait>> \in Seq(Events)
    BY EventsAre DEF Sent!AllKeys
  <2> DEFINE wait == <<Sent!Wait>>
  <2>2. wait \in Seq(Events) /\ Len(wait) = 1 /\ wait[1] = Sent!Wait
    BY <2>1
  <2>3. first = wait \o ctrlA
    OBVIOUS
  <2>. HIDE DEF wait, first
  <2>4. /\ first \in Seq(Events) /\ Len(first) = 9
        /\ \A i \in 1..9 : first[i] = IF i <= 1 THEN wait[i] ELSE ctrlA[i - 1]
    <3>1. /\ first \in Seq(Events) /\ Len(first) = Len(wait) + Len(ctrlA)
          /\ \A i \in 1..(Len(wait) + Len(ctrlA)) :
               first[i] = IF i <= Len(wait) THEN wait[i] ELSE ctrlA[i - Len(wait)]
      BY <1>3, <2>2, <2>3, ConcatProperties
    <3>. QED
      BY <1>3, <2>2, <3>1
  <2>. QED
    BY <2>2, <2>4
<1>. HIDE DEF first
<1>5. first[8] = Sent!Up(Ctrl) /\ first[9].key # Ctrl
  <2>1. Key # Ctrl
    BY DEF Sent!SentInputAssumption, Sent!Modifiers
  <2>2. first[8] = ctrlA[7] /\ first[9] = ctrlA[8]
    BY <1>4
  <2>. QED
    BY <1>3, <2>1, <2>2 DEF Sent!Wait
<1>6. \A i \in 1..7 : first[i].event # "tap"
  <2>1. \A i \in 1..7 : i = 1 \/ (i \in 2..9 /\ i - 1 \in 1..6)
    OBVIOUS
  <2>. QED
    BY <1>3, <1>4, <2>1 DEF Sent!Wait
<1>7. /\ all \in Seq(Events) /\ Len(all) = 9 + Len(typed) /\ Len(typed) \in Nat
      /\ \A i \in 1..(9 + Len(typed)) : all[i] = IF i <= 9 THEN first[i] ELSE typed[i - 9]
  <2>1. /\ all \in Seq(Events) /\ Len(all) = Len(first) + Len(typed)
        /\ \A i \in 1..(Len(first) + Len(typed)) :
             all[i] = IF i <= Len(first) THEN first[i] ELSE typed[i - Len(first)]
    BY <1>2, <1>4, ConcatProperties
  <2>. HIDE DEF all
  <2>. QED
    BY <1>2, <1>4, <2>1
<1>. HIDE DEF all
<1>8. \A i \in 1..9 : all[i] = first[i]
  BY <1>7
<1>9. \A i \in 10..Len(all) : all[i] \in TextEvents
  <2>1. \A i \in 10..Len(all) : i - 9 \in 1..Len(typed) /\ all[i] = typed[i - 9]
    BY <1>7
  <2>. QED
    BY <1>1, <2>1
<1>10. CtrlIsFirst(all)
  <2>1. 8 \in 1..Len(all) /\ all[8] = Sent!Up(Ctrl)
    BY <1>5, <1>7, <1>8
  <2>2. \A i \in 1..(8 - 1) : all[i].event # "tap"
    BY <1>6, <1>8
  <2>3. \A i \in (8 + 1)..Len(all) : all[i].key # Ctrl
    <3>1. \A i \in (8 + 1)..Len(all) : i = 9 \/ i \in 10..Len(all)
      BY <1>7
    <3>. QED
      BY <1>5, <1>8, <1>9, <3>1 DEF TextEvents
  <2>. QED
    BY <2>1, <2>2, <2>3 DEF CtrlIsFirst
<1>11. Sent!keyboard_type_replace(text) = all
  BY DEF Sent!keyboard_type_replace, all, first, ctrlA, typed
<1>. QED
  BY <1>7, <1>10, <1>11

LEMMA NavigationIsSent ==
  ASSUME Sent!SentInputAssumption, NEW text \in Texts
  PROVE  Sent!browser_navigate(text) \in Seq(Events)
<1>1. Sent!keyboard_key(Ctrl) \in Seq(Events)
  BY CombinationIsSent DEF Sent!Modifiers
<1>2. Sent!type_with_profile(text) \in Seq(Events)
  BY TextIsSent, TextIsEvents
<1>3. Key \in Sent!AllKeys
  BY DEF Sent!AllKeys
<1>4. <<Sent!Down(Key), Sent!Wait, Sent!Up(Key), Sent!Wait, Sent!Down(Key), Sent!Wait,
        Sent!Up(Key), Sent!Wait>> \in Seq(Events)
  BY <1>3, EventsAre
<1>. QED
  BY <1>1, <1>2, <1>4 DEF Sent!browser_navigate

-----------------------------------------------------------------------------
LEMMA SentStarts == ASSUME Sent!Init PROVE SentInv
<1>1. SentTypeOK
  BY DEF Sent!Init, SentTypeOK
<1>2. Will = {}
  <2> DEFINE f == [i \in 0..0 |-> {}]
  <2>1. Follows(f, <<>>, {})
    BY DEF Follows
  <2>2. Sent!After(<<>>, {}) = f[0]
    <3>. HIDE DEF f
    <3>. QED
      <4>1. <<>> \in Seq(Events) /\ Len(<<>>) = 0 /\ {} \in SUBSET Sent!AllKeys
        OBVIOUS
      <4>. QED
        BY <2>1, <4>1, AfterFollows
  <2>. QED
    BY <2>2 DEF Will, Sent!Init
<1>. QED
  BY <1>1, <1>2 DEF SentInv, HistoryInv, TextInv, Sent!Init

(* An operation that starts: nothing is left of the one before.            *)
LEMMA BeginKeeps ==
  ASSUME SentInv, NEW name, NEW events \in Seq(Events), Sent!Begin(name, events),
         name \notin {"none", "dropping"},
         name \in {"keyboard_press", "keyboard_release"} => events \in Seq(HandEvents),
         name = "keyboard_type" => /\ held \cap Sent!Modifiers = {}
                                   /\ \/ events \in Seq(TextEvents)
                                      \/ CtrlIsFirst(events)
  PROVE  SentInv'
<1>1. /\ op = "none" /\ keys = {} /\ plan = <<>> /\ attempted' = 0
      /\ UNCHANGED <<kwinDown, queue, socket, held, keys, keptDown>>
  BY DEF Sent!Begin, SentInv, HistoryInv
<1>2. (op' = name /\ plan' = events) \/ (op' = op /\ plan' = plan)
  BY DEF Sent!Begin
<1>3. Will' = Will
  BY <1>1 DEF Will
<1>4. SentTypeOK'
  BY <1>1, <1>2 DEF SentInv, SentTypeOK
<1>5. HistoryInv'
  BY <1>1, <1>2, <1>3 DEF SentInv, HistoryInv
<1>6. TextInv'
  <2>1. SUFFICES ASSUME op' = "keyboard_type"
                 PROVE  /\ Will' \cap Sent!Modifiers \subseteq keys'
                        /\ CtrlReleased' \/ CtrlIsFirst(plan)'
    BY DEF TextInv
  <2>2. name = "keyboard_type" /\ plan' = events
    BY <1>1, <1>2, <2>1
  <2>3. Will \cap Sent!Modifiers = {}
    BY <1>1, <2>2 DEF SentInv, HistoryInv, Sent!AllKeys
  <2>4. Ctrl \notin Will
    BY <2>3 DEF Sent!Modifiers
  <2>5. CtrlIsFirst(events) => CtrlIsFirst(plan)'
    BY <2>2 DEF CtrlIsFirst
  <2>. QED
    BY <1>3, <2>2, <2>3, <2>4, <2>5 DEF CtrlReleased
<1>. QED
  BY <1>4, <1>5, <1>6 DEF SentInv

(* While ctrl is still to be released, the next event is that release or   *)
(* is no character.                                                        *)
LEMMA CtrlComes ==
  ASSUME NEW events \in Seq(Events), events # <<>>, CtrlIsFirst(events)
  PROVE  \/ Head(events) = Sent!Up(Ctrl) /\ Tail(events) \in Seq(TextEvents)
         \/ Head(events).event # "tap" /\ CtrlIsFirst(Tail(events))
<1> DEFINE rest == Tail(events)
<1>1. /\ rest \in Seq(Events) /\ Len(rest) = Len(events) - 1 /\ Len(events) \in Nat \ {0}
      /\ \A i \in 1..(Len(events) - 1) : rest[i] = events[i + 1]
      /\ Head(events) = events[1]
  OBVIOUS
<1>. HIDE DEF rest
<1>2. PICK j \in 1..Len(events) :
        /\ events[j] = Sent!Up(Ctrl)
        /\ \A i \in 1..(j - 1) : events[i].event # "tap"
        /\ \A i \in (j + 1)..Len(events) : events[i].key # Ctrl
  BY DEF CtrlIsFirst
<1>3. CASE j = 1
  <2>1. Head(events) = Sent!Up(Ctrl)
    BY <1>1, <1>2, <1>3
  <2>2. ASSUME NEW i \in 1..Len(rest)
        PROVE  rest[i] \in TextEvents
    <3>1. i + 1 \in (j + 1)..Len(events) /\ rest[i] = events[i + 1]
      BY <1>1, <1>3
    <3>2. rest[i].key # Ctrl /\ rest[i] \in Events
      BY <1>1, <1>2, <3>1
    <3>. QED
      BY <3>2 DEF TextEvents
  <2>3. rest \in Seq(TextEvents)
    <3>1. rest = [i \in 1..Len(rest) |-> rest[i]] /\ Len(rest) \in Nat
      BY <1>1, LenProperties
    <3>2. [i \in 1..Len(rest) |-> rest[i]] \in Seq(TextEvents)
      BY <2>2, <3>1
    <3>. QED
      BY <3>1, <3>2
  <2>. QED
    BY <2>1, <2>3 DEF rest
<1>4. CASE j # 1
  <2>1. j - 1 \in 1..Len(rest) /\ (j - 1) + 1 = j
    BY <1>1, <1>2, <1>4
  <2>2. rest[j - 1] = Sent!Up(Ctrl)
    BY <1>1, <1>2, <2>1
  <2>3. \A i \in 1..((j - 1) - 1) : rest[i].event # "tap"
    BY <1>1, <1>2, <2>1
  <2>4. \A i \in ((j - 1) + 1)..Len(rest) : rest[i].key # Ctrl
    BY <1>1, <1>2, <2>1
  <2>5. CtrlIsFirst(rest)
    BY <2>1, <2>2, <2>3, <2>4 DEF CtrlIsFirst
  <2>6. Head(events).event # "tap"
    BY <1>1, <1>2, <1>4
  <2>. QED
    BY <2>5, <2>6 DEF rest
<1>. QED
  BY <1>3, <1>4

(* An event is sent, or is not, and the log and the SentInput follow it.   *)
LEMMA SendDoes ==
  ASSUME SentInv, Sent!Send
  PROVE  LET e == Head(plan)
         IN /\ e \in Events /\ e.event # "wait" /\ op # "none" /\ plan # <<>>
            /\ UNCHANGED <<socket, logCall, ops>>
            /\ queue' \in Seq(Events) /\ kwinDown' \in SUBSET Sent!AllKeys
            /\ Will' = IF e.event = "down" THEN Will \cup {e.key}
                       ELSE IF e.event \in {"up", "tap"} THEN Will \ {e.key} ELSE Will
            /\ attempted' = IF e.event = "tap" THEN attempted + 1 ELSE attempted
            /\ e.key = Button => held' = held
            /\ e.key # Button /\ e.event = "down" => held' = held \cup {e.key}
            /\ e.key # Button /\ e.event = "up" => held' = held \ {e.key}
            /\ e.key # Button /\ e.event = "touch" => held' = held
            /\ op = "keyboard_press" \/ op = "keyboard_release" =>
                 /\ keys' = keys
                 /\ e.event = "down" => keptDown' = keptDown \cup {e.key}
                 /\ e.event = "up" => keptDown' = keptDown \ {e.key}
                 /\ e.event = "touch" => keptDown' = keptDown
            /\ op # "keyboard_press" /\ op # "keyboard_release" => keptDown' = keptDown
            /\ \E ok \in BOOLEAN :
                 /\ plan' = IF ok THEN Tail(plan) ELSE <<>>
                 /\ op' = IF ok THEN op ELSE "dropping"
                 /\ e.key # Button /\ e.event = "tap" =>
                      held' = held \ {e.key} \/ (~ok /\ held' = held \cup {e.key})
                 /\ op # "keyboard_press" /\ op # "keyboard_release" =>
                      keys' = IF e.event = "down" THEN keys \cup {e.key}
                              ELSE IF e.event = "up" THEN (IF ok THEN keys \ {e.key} ELSE keys)
                              ELSE IF e.event = "tap"
                                   THEN (IF ok THEN keys \ {e.key} ELSE keys \cup {e.key})
                              ELSE keys
<1> DEFINE e == Head(plan)
<1>1. /\ e \in Events /\ e.event # "wait" /\ op # "none" /\ plan # <<>>
      /\ UNCHANGED <<socket, logCall, ops>>
  BY DEF Sent!Send, Sent!Event, SentInv, SentTypeOK
<1>2. e.event \in {"down", "up", "tap", "touch"}
  BY <1>1 DEF Events
<1>3. PICK flushed \in BOOLEAN, logged \in BOOLEAN :
        /\ Sent!Flush(Sent!Requests(e), flushed)
        /\ Sent!Remember(e, logged)
        /\ Sent!Track(e, flushed /\ logged) /\ Sent!Count(e)
        /\ plan' = IF flushed /\ logged THEN Tail(plan) ELSE <<>>
        /\ op' = IF flushed /\ logged THEN op ELSE "dropping"
  BY DEF Sent!Send, Sent!Event
<1>4. keptDown' = CASE op = "keyboard_press" -> Sent!Apply(e, keptDown)
                    [] op = "keyboard_release" -> Sent!Apply(e, keptDown)
                    [] OTHER -> keptDown
  BY DEF Sent!Send, Sent!Event
<1>. HIDE DEF e
<1>5. Will \in SUBSET Sent!AllKeys
  BY AfterKeys DEF Will, SentInv, SentTypeOK
<1>6. /\ queue' \in Seq(Events) /\ kwinDown' \in SUBSET Sent!AllKeys
      /\ Will' = IF e.event = "down" THEN Will \cup {e.key}
                 ELSE IF e.event \in {"up", "tap"} THEN Will \ {e.key} ELSE Will
  <2>1. Sent!Requests(e) \in Seq(Events)
    BY <1>1, <1>5, AfterRequests
  <2>2. /\ queue' \in Seq(Events) /\ kwinDown' \in SUBSET Sent!AllKeys
        /\ Will' = Sent!After(Sent!Requests(e), Will)
    BY <1>3, <2>1, FlushAdds DEF SentInv, SentTypeOK
  <2>. QED
    BY <1>1, <1>5, <2>2, AfterRequests
<1>7. \A set : /\ e.event = "down" => Sent!Apply(e, set) = set \cup {e.key}
               /\ e.event = "up" => Sent!Apply(e, set) = set \ {e.key}
               /\ e.event = "touch" => Sent!Apply(e, set) = set
  BY DEF Sent!Apply
<1>8. /\ e.key = Button => held' = held
      /\ e.key # Button /\ e.event # "tap" => held' = Sent!Apply(e, held)
      /\ e.key # Button /\ e.event = "tap" =>
           held' = held \ {e.key} \/ (~logged /\ held' = held \cup {e.key})
  BY <1>3 DEF Sent!Remember
<1>9. attempted' = IF e.event = "tap" THEN attempted + 1 ELSE attempted
  BY <1>3 DEF Sent!Count
<1>10. op = "keyboard_press" \/ op = "keyboard_release" => keys' = keys
  BY <1>3 DEF Sent!Track, Sent!Guarded
<1> DEFINE ok == flushed /\ logged
<1>11. op # "keyboard_press" /\ op # "keyboard_release" =>
         keys' = (keys \cup IF e.event \in {"down", "tap"} THEN {e.key} ELSE {})
                   \ IF e.event \in {"up", "tap"} /\ ok THEN {e.key} ELSE {}
  BY <1>3 DEF Sent!Track, Sent!Guarded, Sent!Presses, Sent!Releases
<1>12. op # "keyboard_press" /\ op # "keyboard_release" =>
         keys' = IF e.event = "down" THEN keys \cup {e.key}
                 ELSE IF e.event = "up" THEN (IF ok THEN keys \ {e.key} ELSE keys)
                 ELSE IF e.event = "tap"
                      THEN (IF ok THEN keys \ {e.key} ELSE keys \cup {e.key})
                 ELSE keys
  <2>. HIDE DEF ok
  <2>. QED
    BY <1>2, <1>11
<1>13. /\ op = "keyboard_press" \/ op = "keyboard_release" => keptDown' = Sent!Apply(e, keptDown)
       /\ op # "keyboard_press" /\ op # "keyboard_release" => keptDown' = keptDown
  BY <1>4
<1>14. \E ok1 \in BOOLEAN :
         /\ plan' = IF ok1 THEN Tail(plan) ELSE <<>>
         /\ op' = IF ok1 THEN op ELSE "dropping"
         /\ e.key # Button /\ e.event = "tap" =>
              held' = held \ {e.key} \/ (~ok1 /\ held' = held \cup {e.key})
         /\ op # "keyboard_press" /\ op # "keyboard_release" =>
              keys' = IF e.event = "down" THEN keys \cup {e.key}
                      ELSE IF e.event = "up" THEN (IF ok1 THEN keys \ {e.key} ELSE keys)
                      ELSE IF e.event = "tap"
                           THEN (IF ok1 THEN keys \ {e.key} ELSE keys \cup {e.key})
                      ELSE keys
  <2>1. /\ ok \in BOOLEAN
        /\ plan' = IF ok THEN Tail(plan) ELSE <<>>
        /\ op' = IF ok THEN op ELSE "dropping"
        /\ ~logged => ~ok
    BY <1>3
  <2>. HIDE DEF ok
  <2>. QED
    BY <1>8, <1>12, <2>1
<1>. QED
  BY <1>1, <1>6, <1>7, <1>8, <1>9, <1>10, <1>13, <1>14 DEF e

LEMMA SendKeeps ==
  ASSUME SentInv, Sent!Send
  PROVE  SentInv'
<1> DEFINE e == Head(plan)
<1>1. /\ e \in Events /\ e.event # "wait" /\ op # "none" /\ plan # <<>>
      /\ UNCHANGED <<socket, logCall, ops>>
      /\ queue' \in Seq(Events) /\ kwinDown' \in SUBSET Sent!AllKeys
  BY SendDoes
<1>2. Will' = IF e.event = "down" THEN Will \cup {e.key}
              ELSE IF e.event \in {"up", "tap"} THEN Will \ {e.key} ELSE Will
  BY SendDoes
<1>3. attempted' = IF e.event = "tap" THEN attempted + 1 ELSE attempted
  BY SendDoes
<1>4. /\ e.key = Button => held' = held
      /\ e.key # Button /\ e.event = "down" => held' = held \cup {e.key}
      /\ e.key # Button /\ e.event = "up" => held' = held \ {e.key}
      /\ e.key # Button /\ e.event = "touch" => held' = held
  BY SendDoes
<1>5. op = "keyboard_press" \/ op = "keyboard_release" =>
        /\ keys' = keys
        /\ e.event = "down" => keptDown' = keptDown \cup {e.key}
        /\ e.event = "up" => keptDown' = keptDown \ {e.key}
        /\ e.event = "touch" => keptDown' = keptDown
  BY SendDoes
<1>6. op # "keyboard_press" /\ op # "keyboard_release" => keptDown' = keptDown
  BY SendDoes
<1>7. PICK ok \in BOOLEAN :
        /\ plan' = IF ok THEN Tail(plan) ELSE <<>>
        /\ op' = IF ok THEN op ELSE "dropping"
        /\ e.key # Button /\ e.event = "tap" =>
             held' = held \ {e.key} \/ (~ok /\ held' = held \cup {e.key})
        /\ op # "keyboard_press" /\ op # "keyboard_release" =>
             keys' = IF e.event = "down" THEN keys \cup {e.key}
                     ELSE IF e.event = "up" THEN (IF ok THEN keys \ {e.key} ELSE keys)
                     ELSE IF e.event = "tap"
                          THEN (IF ok THEN keys \ {e.key} ELSE keys \cup {e.key})
                     ELSE keys
  BY SendDoes
<1>8. /\ held \in SUBSET (Sent!AllKeys \ {Button}) /\ keys \in SUBSET Sent!AllKeys
      /\ plan \in Seq(Events) /\ attempted \in Nat
  BY DEF SentInv, SentTypeOK
<1>9. Tail(plan) \in Seq(Events)
  BY <1>1, <1>8
<1>. HIDE DEF e
<1>10. e.key \in Sent!AllKeys /\ e.event \in {"down", "up", "tap", "touch"}
  BY <1>1 DEF Events
<1>11. /\ op = "none" => keys = {}
       /\ op \in {"none", "dropping"} => plan = <<>>
       /\ op \in {"keyboard_press", "keyboard_release"} => keys = {} /\ plan \in Seq(HandEvents)
       /\ \A k \in Sent!AllKeys \ keys : k \in Will <=> k \in held
       /\ held \subseteq keptDown \cup keys
  BY DEF SentInv, HistoryInv
<1>12. op \in {"keyboard_press", "keyboard_release"} =>
         e.event # "tap" /\ e.key # Button /\ Tail(plan) \in Seq(HandEvents)
  <2>1. ASSUME plan \in Seq(HandEvents)
        PROVE  Head(plan) \in HandEvents /\ Tail(plan) \in Seq(HandEvents)
    BY <1>1, <2>1
  <2>. QED
    BY <1>11, <2>1 DEF HandEvents, e
<1>13. SentTypeOK'
  <2>1. held' \in SUBSET (Sent!AllKeys \ {Button})
    BY <1>4, <1>7, <1>8, <1>10
  <2>2. keys' \in SUBSET Sent!AllKeys
    BY <1>5, <1>7, <1>8, <1>10
  <2>3. plan' \in Seq(Events)
    BY <1>7, <1>9
  <2>. QED
    BY <1>1, <1>3, <1>8, <2>1, <2>2, <2>3 DEF SentInv, SentTypeOK
<1>14. HistoryInv'
  <2>1. (op = "none" => keys = {})'
    BY <1>1, <1>7
  <2>2. (op \in {"none", "dropping"} => plan = <<>>)'
    BY <1>1, <1>7, <1>11
  <2>3. (op \in {"keyboard_press", "keyboard_release"} => keys = {} /\ plan \in Seq(HandEvents))'
    BY <1>5, <1>7, <1>11, <1>12
  <2>4. ASSUME NEW k \in Sent!AllKeys, k \notin keys'
        PROVE  k \in Will' <=> k \in held'
    <3>1. CASE op \in {"keyboard_press", "keyboard_release"}
      BY <1>2, <1>4, <1>5, <1>10, <1>11, <1>12, <2>4, <3>1
    <3>2. CASE op \notin {"keyboard_press", "keyboard_release"} /\ e.key = Button
      BY <1>2, <1>4, <1>7, <1>8, <1>10, <1>11, <2>4, <3>2
    <3>3. CASE op \notin {"keyboard_press", "keyboard_release"} /\ e.key # Button
      BY <1>2, <1>4, <1>7, <1>10, <1>11, <2>4, <3>3
    <3>. QED
      BY <3>1, <3>2, <3>3
  <2>5. (held \subseteq keptDown \cup keys)'
    <3>1. CASE op \in {"keyboard_press", "keyboard_release"}
      BY <1>4, <1>5, <1>10, <1>11, <1>12, <3>1
    <3>2. CASE op \notin {"keyboard_press", "keyboard_release"}
      BY <1>4, <1>6, <1>7, <1>8, <1>10, <1>11, <3>2
    <3>. QED
      BY <3>1, <3>2
  <2>. QED
    BY <2>1, <2>2, <2>3, <2>4, <2>5 DEF HistoryInv
<1>15. TextInv'
  <2>1. SUFFICES ASSUME op' = "keyboard_type"
                 PROVE  /\ Will' \cap Sent!Modifiers \subseteq keys'
                        /\ CtrlReleased' \/ CtrlIsFirst(plan)'
    BY DEF TextInv
  <2>2. op = "keyboard_type" /\ ok /\ plan' = Tail(plan)
    BY <1>7, <2>1
  <2>3. Will \cap Sent!Modifiers \subseteq keys /\ (CtrlReleased \/ CtrlIsFirst(plan))
    BY <2>2 DEF SentInv, TextInv
  <2>4. Will' \cap Sent!Modifiers \subseteq keys'
    BY <1>2, <1>7, <1>10, <2>2, <2>3
  <2>5. CASE CtrlReleased
    <3>1. e \in TextEvents /\ Tail(plan) \in Seq(TextEvents)
      <4>1. plan \in Seq(TextEvents)
        BY <2>5 DEF CtrlReleased
      <4>. QED
        BY <1>1, <4>1 DEF e
    <3>2. Ctrl \notin Will'
      BY <1>2, <2>5, <3>1 DEF CtrlReleased, TextEvents
    <3>. QED
      BY <2>2, <2>4, <3>1, <3>2 DEF CtrlReleased
  <2>6. CASE CtrlIsFirst(plan)
    <3>1. CASE e = Sent!Up(Ctrl) /\ Tail(plan) \in Seq(TextEvents)
      <4>1. e.event = "up" /\ e.key = Ctrl
        BY <3>1 DEF Sent!Up
      <4>2. Ctrl \notin Will'
        BY <1>2, <4>1
      <4>. QED
        BY <2>2, <2>4, <3>1, <4>2 DEF CtrlReleased
    <3>2. CASE CtrlIsFirst(Tail(plan))
      <4>1. CtrlIsFirst(plan)'
        BY <2>2, <3>2 DEF CtrlIsFirst
      <4>. QED
        BY <2>4, <4>1
    <3>. QED
      BY <1>1, <1>8, <2>6, <3>1, <3>2, CtrlComes DEF e
  <2>. QED
    BY <2>3, <2>5, <2>6
<1>. QED
  BY <1>13, <1>14, <1>15 DEF SentInv

LEMMA PauseKeeps ==
  ASSUME SentInv, Sent!Pause
  PROVE  SentInv'
<1>1. /\ op # "none" /\ plan # <<>> /\ plan' = Tail(plan) /\ Head(plan).event = "wait"
      /\ UNCHANGED <<kwinDown, queue, socket, held, op, keys, attempted, keptDown>>
  BY DEF Sent!Pause, Sent!Event, Sent!eisVars
<1>2. Will' = Will
  BY <1>1 DEF Will
<1>3. SentTypeOK'
  BY <1>1 DEF SentInv, SentTypeOK
<1>4. HistoryInv'
  <2>1. plan \in Seq(HandEvents) => Tail(plan) \in Seq(HandEvents)
    BY <1>1
  <2>. QED
    BY <1>1, <1>2, <2>1 DEF SentInv, HistoryInv
<1>5. TextInv'
  <2>1. CtrlReleased => CtrlReleased'
    BY <1>1, <1>2 DEF CtrlReleased
  <2>2. CtrlIsFirst(plan) => CtrlIsFirst(plan)'
    <3>1. ASSUME CtrlIsFirst(plan)
          PROVE  CtrlIsFirst(Tail(plan))
      BY <1>1, <3>1, CtrlComes DEF SentInv, SentTypeOK, Sent!Up
    <3>. QED
      BY <1>1, <3>1 DEF CtrlIsFirst
  <2>. QED
    BY <1>1, <1>2, <2>1, <2>2 DEF SentInv, TextInv
<1>. QED
  BY <1>3, <1>4, <1>5 DEF SentInv

(* SentInput is dropped: each of its keys is released, in any order.       *)
LEMMA DropKeeps ==
  ASSUME SentInv, Sent!Drop
  PROVE  SentInv'
<1>1. /\ op = "dropping"
      /\ UNCHANGED <<socket, op, plan, attempted, keptDown>>
  BY DEF Sent!Drop
<1>2. PICK k \in keys, flushed \in BOOLEAN :
        /\ Sent!Flush(Sent!Requests(Sent!Up(k)), flushed)
        /\ Sent!Remember(Sent!Up(k), TRUE)
        /\ keys' = keys \ {k}
  BY DEF Sent!Drop
<1> DEFINE e == Sent!Up(k)
<1>3. e \in Events /\ e.event = "up" /\ e.key = k
  <2>1. k \in Sent!AllKeys
    BY DEF SentInv, SentTypeOK
  <2>. QED
    BY <2>1, EventsAre DEF Sent!Up
<1>. HIDE DEF e
<1>4. Will \in SUBSET Sent!AllKeys
  BY AfterKeys DEF Will, SentInv, SentTypeOK
<1>5. /\ queue' \in Seq(Events) /\ kwinDown' \in SUBSET Sent!AllKeys
      /\ Will' = Will \ {k}
  <2>1. /\ Sent!Requests(e) \in Seq(Events)
        /\ Sent!After(Sent!Requests(e), Will) = Will \ {k}
    BY <1>3, <1>4, AfterRequests
  <2>. QED
    BY <1>2, <2>1, FlushAdds DEF SentInv, SentTypeOK, e
<1>6. held' = held \ {k}
  <2>1. Sent!Remember(e, TRUE)
    BY <1>2 DEF e
  <2>2. Sent!Apply(e, held) = held \ {k}
    BY <1>3 DEF Sent!Apply
  <2>3. Button \notin held
    BY DEF SentInv, SentTypeOK
  <2>. QED
    BY <1>3, <2>1, <2>2, <2>3 DEF Sent!Remember
<1>7. SentTypeOK'
  BY <1>1, <1>2, <1>5, <1>6 DEF SentInv, SentTypeOK
<1>8. HistoryInv'
  BY <1>1, <1>2, <1>5, <1>6 DEF SentInv, HistoryInv
<1>9. TextInv'
  BY <1>1 DEF TextInv
<1>. QED
  BY <1>7, <1>8, <1>9 DEF SentInv

LEMMA SentStep ==
  ASSUME Sent!SentInputAssumption, SentInv, [Sent!Next]_(Sent!vars)
  PROVE  SentInv'
<1>1. CASE Sent!BeginKey
  BY <1>1, BeginKeeps, CombinationIsSent DEF Sent!BeginKey
<1>2. CASE Sent!BeginPaste
  <2>1. Sent!keyboard_paste \in Seq(Events)
    BY CombinationIsSent, EventsAre DEF Sent!keyboard_paste, Sent!Modifiers, Sent!AllKeys
  <2>. QED
    BY <1>2, <2>1, BeginKeeps DEF Sent!BeginPaste
<1>3. CASE Sent!BeginPress
  <2>1. PICK m \in Sent!Modifiers : Sent!Begin("keyboard_press", Sent!keyboard_press(m))
    BY <1>3 DEF Sent!BeginPress
  <2>2. /\ Sent!keyboard_press(m) \in Seq(HandEvents)
        /\ Sent!keyboard_press(m) \in Seq(Events)
    BY HandsAreSent, HandIsEvents
  <2>. QED
    BY <2>1, <2>2, BeginKeeps
<1>4. CASE Sent!BeginRelease
  <2>1. PICK m \in Sent!Modifiers : Sent!Begin("keyboard_release", Sent!keyboard_release(m))
    BY <1>4 DEF Sent!BeginRelease
  <2>2. /\ Sent!keyboard_release(m) \in Seq(HandEvents)
        /\ Sent!keyboard_release(m) \in Seq(Events)
    BY HandsAreSent, HandIsEvents
  <2>. QED
    BY <2>1, <2>2, BeginKeeps
<1>5. CASE Sent!BeginClick
  BY <1>5, BeginKeeps, MouseIsSent DEF Sent!BeginClick
<1>6. CASE Sent!BeginDrag
  BY <1>6, BeginKeeps, MouseIsSent DEF Sent!BeginDrag
<1>7. CASE Sent!BeginMove
  BY <1>7, BeginKeeps, MouseIsSent DEF Sent!BeginMove
<1>8. CASE Sent!BeginScroll
  BY <1>8, BeginKeeps, MouseIsSent DEF Sent!BeginScroll
<1>9. CASE Sent!BeginType
  <2>1. PICK t \in Texts : \/ Sent!Begin("keyboard_type", Sent!keyboard_type(t))
                           \/ Sent!Begin("keyboard_type", Sent!keyboard_type_replace(t))
    BY <1>9 DEF Sent!BeginType
  <2>2. held \cap Sent!Modifiers = {}
    BY <1>9 DEF Sent!BeginType
  <2>3. /\ Sent!keyboard_type(t) \in Seq(TextEvents)
        /\ Sent!keyboard_type(t) \in Seq(Events)
    BY TextIsSent, TextIsEvents
  <2>4. /\ Sent!keyboard_type_replace(t) \in Seq(Events)
        /\ CtrlIsFirst(Sent!keyboard_type_replace(t))
    BY ReplaceIsSent
  <2>. QED
    BY <2>1, <2>2, <2>3, <2>4, BeginKeeps
<1>10. CASE Sent!BeginNavigate
  BY <1>10, BeginKeeps, NavigationIsSent DEF Sent!BeginNavigate
<1>11. CASE Sent!Send
  BY <1>11, SendKeeps
<1>12. CASE Sent!Pause
  BY <1>12, PauseKeeps
<1>13. CASE Sent!Stop
  <2>1. /\ op' = "dropping" /\ plan' = <<>> /\ op # "none"
        /\ UNCHANGED <<kwinDown, queue, socket, held, keys, attempted, keptDown>>
    BY <1>13 DEF Sent!Stop, Sent!eisVars
  <2>2. Will' = Will
    BY <2>1 DEF Will
  <2>. QED
    BY <2>1, <2>2 DEF SentInv, SentTypeOK, HistoryInv, TextInv
<1>14. CASE Sent!Drop
  BY <1>14, DropKeeps
<1>15. CASE Sent!Finish
  <2>1. /\ op' = "none" /\ plan = <<>> /\ keys = {}
        /\ UNCHANGED <<kwinDown, queue, socket, held, plan, keys, attempted, keptDown>>
    BY <1>15 DEF Sent!Finish, Sent!eisVars
  <2>2. Will' = Will
    BY <2>1 DEF Will
  <2>. QED
    BY <2>1, <2>2 DEF SentInv, SentTypeOK, HistoryInv, TextInv
<1>16. CASE Sent!SocketChanges \/ UNCHANGED Sent!vars
  <2>1. /\ socket' \in {"room", "full", "lost"}
        /\ UNCHANGED <<kwinDown, queue, held, op, plan, keys, attempted, keptDown>>
    BY <1>16 DEF Sent!SocketChanges, Sent!opVars, Sent!vars, Sent!eisVars, SentInv, SentTypeOK
  <2>2. Will' = Will
    BY <2>1 DEF Will
  <2>3. TextInv'
    BY <2>1, <2>2 DEF SentInv, TextInv, CtrlReleased, CtrlIsFirst
  <2>. QED
    BY <2>1, <2>2, <2>3 DEF SentInv, SentTypeOK, HistoryInv
<1>. QED
  BY <1>1, <1>2, <1>3, <1>4, <1>5, <1>6, <1>7, <1>8, <1>9, <1>10, <1>11, <1>12, <1>13, <1>14,
     <1>15, <1>16 DEF Sent!Next

(* Between two operations of the agent, whatever became of the ones        *)
(* before, KWin holds down just what the input log takes for held, or will *)
(* when it has read its queue, and that is left from keyboard_press: the   *)
(* SentInput of an operation keeps each key until its release is sent.     *)
THEOREM NothingIsLeft ==
  ASSUME Sent!SentInputAssumption
  PROVE  Sent!Spec => []NothingLeftPressed
<1>1. SentInv => NothingLeftPressed
  <2> SUFFICES ASSUME SentInv, op = "none"
               PROVE  Will = held /\ held \subseteq keptDown
    BY DEF NothingLeftPressed, Sent!NothingLeftPressed, Will
  <2>1. Will \in SUBSET Sent!AllKeys /\ held \subseteq Sent!AllKeys
    BY AfterKeys DEF Will, SentInv, SentTypeOK
  <2>. QED
    BY <2>1 DEF SentInv, HistoryInv
<1>2. Sent!Init => SentInv
  BY SentStarts
<1>3. SentInv /\ [Sent!Next]_(Sent!vars) => SentInv'
  BY SentStep
<1>. QED
  BY <1>1, <1>2, <1>3, PTL DEF Sent!Spec

(* A character of keyboard_type is queued only when no modifier is down or *)
(* will be but the shift it needs: those that the log takes for held       *)
(* refuse the text, and the ctrl of replace is released before the text.   *)
THEOREM TextStaysText ==
  ASSUME Sent!SentInputAssumption
  PROVE  Sent!Spec => TextIsNoShortcut
<1>1. ASSUME SentInv, [Sent!Next]_(Sent!vars), op = "keyboard_type", attempted' > attempted
      PROVE  Will \cap Sent!Modifiers \subseteq {Shift} \cap keys
  <2>1. attempted \in Nat
    BY <1>1 DEF SentInv, SentTypeOK
  <2>2. attempted' # attempted /\ attempted' # 0
    BY <1>1, <2>1
  <2>3. Sent!Send
    <3>1. ASSUME NEW name, NEW events, Sent!Begin(name, events)
          PROVE  FALSE
      BY <3>1, <2>2 DEF Sent!Begin
    <3>. QED
      BY <1>1, <2>2, <3>1
         DEF Sent!Next, Sent!BeginKey, Sent!BeginPaste, Sent!BeginPress, Sent!BeginRelease,
             Sent!BeginClick, Sent!BeginDrag, Sent!BeginMove, Sent!BeginScroll, Sent!BeginType,
             Sent!BeginNavigate, Sent!Pause, Sent!Stop, Sent!Drop, Sent!Finish,
             Sent!SocketChanges, Sent!vars, Sent!opVars
  <2>4. Head(plan).event = "tap" /\ plan # <<>>
    BY <1>1, <2>2, <2>3, SendDoes
  <2>5. Ctrl \notin Will
    <3>1. CASE CtrlReleased
      BY <3>1 DEF CtrlReleased
    <3>2. ~CtrlIsFirst(plan)
      BY <1>1, <2>4, CtrlComes DEF SentInv, SentTypeOK, Sent!Up
    <3>. QED
      BY <1>1, <3>1, <3>2 DEF SentInv, TextInv
  <2>6. Will \cap Sent!Modifiers \subseteq keys
    BY <1>1 DEF SentInv, TextInv
  <2>. QED
    BY <2>5, <2>6 DEF Sent!Modifiers
<1>2. SentInv /\ [Sent!Next]_(Sent!vars) =>
        (op = "keyboard_type" /\ attempted' > attempted
           => Sent!After(queue, kwinDown) \cap Sent!Modifiers \subseteq {Shift} \cap keys)
  BY <1>1 DEF Will
<1>3. Sent!Init => SentInv
  BY SentStarts
<1>4. SentInv /\ [Sent!Next]_(Sent!vars) => SentInv'
  BY SentStep
<1>. QED
  BY <1>2, <1>3, <1>4, PTL DEF Sent!Spec, TextIsNoShortcut, Sent!TextIsNoShortcut
=============================================================================
