------------------------------- MODULE Clipboards -------------------------------
(***************************************************************************)
(* Two clipboards and who may own them (src/clipboard.rs, ClipboardStore   *)
(* in src/main.rs, ClipboardBridge in src/bin/kwin-viewer.rs):             *)
(*   session  the isolated desktop's. The agent writes it through the      *)
(*            server, the session's application copies into it and pastes  *)
(*            from it, and a viewer lends it to its user for one shortcut. *)
(*   host     the desktop's where the viewer's user works.                 *)
(* A selection lives in the process that made it: it is gone when that     *)
(* connection ends, and reading it asks that process.                      *)
(*                                                                         *)
(* The viewer's input thread prepares a shortcut before it forwards the    *)
(* key, and leaves the rest to a restore thread; the next shortcut waits   *)
(* for that thread. The server writes under the store's lock, and a live   *)
(* reload drops its connections and writes its texts again.                *)
(*                                                                         *)
(* A clipboard's content, with all its MIME types, is one text. Time is    *)
(* left out: a wait with a limit may end at any moment.                    *)
(***************************************************************************)
EXTENDS Naturals, Sequences

CONSTANTS
  AgentTexts,  \* what clipboard_write and keyboard_paste write
  UserText,    \* what is copied in the session's application
  HostText,    \* what is copied on the host
  Nothing,     \* no selection
  MaxChanges   \* bound: nobody starts anything after so many changes

ClipboardsAssumption ==
  /\ Nothing \notin AgentTexts \cup {UserText, HostText}
  /\ UserText \notin AgentTexts \cup {HostText}
  /\ MaxChanges \in Nat

VARIABLES
  session, host,  \* the two selections: a text and the process it lives in
  generation,     \* the changes of the session's selection
  app,            \* the shortcuts the session's application has yet to act on
  chord,          \* the viewer's input thread
  restore,        \* the restore thread
  served,         \* an application read what the viewer wrote
  store,          \* the server: its ClipboardStore and its place
  marked,         \* PRIMARY changed after the store's last write
  viewer,         \* "closed", "open" or "ended"
  mine,           \* the text last written or copied for the agent (history)
  lent,           \* the handoff under way was not disturbed so far (history)
  disturbed,      \* a handoff or a reload was, since the agent's text was
                  \* written (history)
  newer           \* the write that the store remembers was followed by
                  \* another change (history)

desktops == <<session, host, generation, app>>
viewers  == <<chord, restore, served, viewer>>
servers  == <<store, marked>>
history  == <<mine, lent, disturbed, newer>>
vars == <<desktops, viewers, servers, history>>

NoSaved   == [change |-> 0, text |-> Nothing]
Idle      == [at |-> "idle", kind |-> "none", agent |-> Nothing, text |-> Nothing, before |-> 0]

Selection(text, who) == [text |-> text, owner |-> IF text = Nothing THEN "nobody" ELSE who]

Init ==
  /\ session = Selection(Nothing, "nobody") /\ generation = 0
  /\ host = Selection(HostText, "app")
  /\ app = <<>>
  /\ chord = Idle /\ restore = Idle /\ served = FALSE
  /\ store = [at |-> "idle", text |-> Nothing, saved |-> NoSaved] /\ marked = FALSE
  /\ viewer = "closed"
  /\ mine = Nothing /\ lent = FALSE /\ disturbed = FALSE /\ newer = FALSE

(* A shortcut is prepared, not yet acted on, or to be undone.              *)
HandoffUnderWay == chord # Idle \/ restore # Idle \/ app # <<>>

(* set_selection and a round trip: the change is applied, and every client *)
(* has counted it, the writer too.                                         *)
Write(text, who) ==
  /\ session' = Selection(text, who)
  /\ generation' = generation + 1

Later == newer' = (newer \/ store.at = "idle")

(* The owners that a read may not hear from within its five seconds.       *)
MayNotAnswer(s) == s.owner \in {"app", "server"}

-----------------------------------------------------------------------------
(* The viewer's input thread: ClipboardBridge::before, then the key. *)

Press(kind) ==
  /\ viewer = "open" /\ chord = Idle /\ Len(app) < 2
  /\ generation < MaxChanges
  /\ chord' = [Idle EXCEPT !.at = "join", !.kind = kind]
  /\ UNCHANGED <<desktops, restore, served, viewer, servers, history>>

ChordGoes(at) == chord.at = at /\ UNCHANGED <<served, viewer, servers>>

(* The previous restore thread is told to stop waiting, and joined.        *)
Join ==
  /\ ChordGoes("join") /\ restore = Idle
  /\ chord' = [chord EXCEPT !.at = "agent"]
  /\ UNCHANGED <<desktops, restore, history>>

ReadAgent ==
  /\ ChordGoes("agent")
  /\ chord' = [chord EXCEPT !.agent = session.text,
                            !.at = IF chord.kind = "copy" THEN "generation" ELSE "host"]
  /\ lent' = TRUE
  /\ UNCHANGED <<desktops, restore, mine, disturbed, newer>>

(* The copy's restore thread waits from here on.                           *)
ReadGeneration ==
  /\ ChordGoes("generation")
  /\ restore' = [chord EXCEPT !.at = "waiting", !.before = generation]
  /\ chord' = [chord EXCEPT !.at = "forward"]
  /\ UNCHANGED <<desktops, history>>

ReadHost ==
  /\ ChordGoes("host")
  /\ chord' = [chord EXCEPT !.text = host.text, !.at = "lend"]
  /\ UNCHANGED <<desktops, restore, history>>

LendHost ==
  /\ chord.at = "lend"
  /\ Write(chord.text, "viewer") /\ Later
  /\ served' = FALSE
  /\ restore' = [chord EXCEPT !.at = "reading"]
  /\ chord' = [chord EXCEPT !.at = "forward"]
  /\ UNCHANGED <<host, app, viewer, servers, mine, lent, disturbed>>

(* A read times out: the handoff is off, and the key is forwarded as it is.*)
HandoffFails ==
  /\ \/ ChordGoes("agent") /\ MayNotAnswer(session)
     \/ ChordGoes("host") /\ MayNotAnswer(host)
  /\ chord' = [chord EXCEPT !.at = "forward"]
  /\ lent' = FALSE
  /\ UNCHANGED <<desktops, restore, mine, disturbed, newer>>

ForwardKey ==
  /\ ChordGoes("forward")
  /\ app' = Append(app, chord.kind) /\ chord' = Idle
  /\ UNCHANGED <<session, host, generation, restore, history>>

-----------------------------------------------------------------------------
(* The restore thread *)

RestoreGoes(at) == restore.at = at /\ UNCHANGED <<app, chord, served, viewer, servers, mine>>

SeeAnyChange ==
  /\ RestoreGoes("waiting") /\ generation >= restore.before
  /\ restore' = [restore EXCEPT !.at = "copied"]
  /\ UNCHANGED <<session, host, generation, lent, disturbed, newer>>

SeeChange ==
  /\ RestoreGoes("waiting") /\ generation > restore.before
  /\ restore' = [restore EXCEPT !.at = "copied"]
  /\ UNCHANGED <<session, host, generation, lent, disturbed, newer>>

(* The next shortcut came, or ten seconds passed.                          *)
StopWaiting ==
  /\ RestoreGoes("waiting") /\ generation = restore.before
  /\ restore' = Idle /\ lent' = FALSE
  /\ UNCHANGED <<session, host, generation, disturbed, newer>>

ReadCopied ==
  /\ RestoreGoes("copied")
  /\ \/ /\ restore' = [restore EXCEPT !.at = "toHost", !.text = session.text]
        /\ UNCHANGED <<lent, disturbed>>
     \/ /\ MayNotAnswer(session)
        /\ restore' = Idle /\ lent' = FALSE /\ disturbed' = TRUE
  /\ UNCHANGED <<session, host, generation, newer>>

WriteHost ==
  /\ RestoreGoes("toHost")
  /\ host' = Selection(restore.text, "viewer")
  /\ restore' = [restore EXCEPT !.at = "putBack"]
  /\ UNCHANGED <<session, generation, lent, disturbed, newer>>

(* Whoever reads has been quiet for a while, or two seconds passed.        *)
StopReading ==
  /\ RestoreGoes("reading")
  /\ restore' = [restore EXCEPT !.at = "putBack"]
  /\ lent' = (lent /\ served)
  /\ UNCHANGED <<session, host, generation, disturbed, newer>>

(* The user's text stays where it was lent.                                *)
PutBackCopiesOnly ==
  /\ RestoreGoes("putBack")
  /\ IF restore.kind = "copy" THEN Write(restore.agent, "viewer") /\ Later
     ELSE UNCHANGED <<session, generation, newer>>
  /\ restore' = Idle
  /\ UNCHANGED <<host, lent, disturbed>>

PutBack ==
  /\ RestoreGoes("putBack")
  /\ Write(restore.agent, "viewer") /\ Later
  /\ restore' = Idle
  /\ UNCHANGED <<host, lent, disturbed>>

-----------------------------------------------------------------------------
(* The session's application, and the host's *)

AppActs(kind) ==
  /\ app # <<>> /\ Head(app) = kind /\ app' = Tail(app)
  /\ UNCHANGED <<host, chord, restore, viewer, servers, mine>>

AppCopies ==
  /\ AppActs("copy")
  /\ \/ /\ Write(UserText, "app") /\ Later
        /\ lent' = (lent /\ restore.at = "waiting")
        /\ disturbed' = (disturbed \/ ~lent')
     \/ UNCHANGED <<session, generation, newer, lent, disturbed>>  \* nothing is selected
  /\ UNCHANGED served

AppPastes ==
  /\ AppActs("paste")
  /\ served' = (session.owner = "viewer")
  /\ UNCHANGED <<session, generation, lent, disturbed, newer>>

(* The application copies for the agent, or by itself.                     *)
AppSelects ==
  /\ generation < MaxChanges
  /\ Write(UserText, "app") /\ Later
  /\ mine' = UserText /\ lent' = FALSE
  /\ disturbed' = (HandoffUnderWay \/ store.at # "idle")
  /\ UNCHANGED <<host, app, viewers, servers>>

(* Somebody marks text: PRIMARY is another's.                              *)
AppMarks ==
  /\ ~marked /\ marked' = TRUE
  /\ UNCHANGED <<desktops, viewers, store, history>>

HostCopies ==
  /\ host.text # HostText
  /\ host' = Selection(HostText, "app")
  /\ UNCHANGED <<session, generation, app, viewers, servers, history>>

-----------------------------------------------------------------------------
(* The server: clipboard_write and keyboard_paste, and the live reload *)

StoreWrite(t) ==
  /\ store.at = "idle" /\ generation < MaxChanges
  /\ Write(t, "server")
  /\ store' = [store EXCEPT !.at = "applied", !.text = t]
  /\ mine' = t
  /\ disturbed' = HandoffUnderWay /\ lent' = FALSE /\ newer' = FALSE
  /\ UNCHANGED <<host, app, viewers, marked>>

(* The generations are asked for after the write.                          *)
StoreRemembers ==
  /\ store.at = "applied"
  /\ store' = [store EXCEPT !.at = "idle",
                            !.saved = [change |-> generation, text |-> store.text]]
  /\ marked' = FALSE
  /\ UNCHANGED <<desktops, viewers, history>>

KeptAnyway == store.saved.text # Nothing

(* The restore record has the text only while neither selection changed.   *)
Kept == store.saved.text # Nothing /\ generation = store.saved.change /\ ~marked

Freeze ==
  /\ store.at = "idle" /\ generation < MaxChanges
  /\ store' = [at |-> "frozen", saved |-> NoSaved,
               text |-> IF Kept THEN store.saved.text ELSE Nothing]
  /\ UNCHANGED <<desktops, viewers, marked, history>>

(* exec closes the connections: a selection of the server's is gone.       *)
Exec ==
  /\ store.at = "frozen"
  /\ store' = [store EXCEPT !.at = IF store.text = Nothing THEN "idle" ELSE "restoring"]
  /\ IF session.owner = "server" THEN Write(Nothing, "nobody")
     ELSE UNCHANGED <<session, generation>>
  /\ disturbed' = (disturbed \/ HandoffUnderWay
                 \/ (session.owner = "server" /\ store.text = Nothing))
  /\ lent' = FALSE
  /\ UNCHANGED <<host, app, viewers, marked, mine, newer>>

RestoreWrite ==
  /\ store.at = "restoring"
  /\ Write(store.text, "server")
  /\ store' = [store EXCEPT !.at = "applied"]
  /\ mine' = store.text
  /\ disturbed' = (disturbed \/ HandoffUnderWay) /\ lent' = FALSE
  /\ UNCHANGED <<host, app, viewers, marked, newer>>

-----------------------------------------------------------------------------
(* The viewer's life *)

OpenViewer ==
  /\ viewer = "closed" /\ viewer' = "open"
  /\ UNCHANGED <<desktops, chord, restore, served, servers, history>>

(* The process ends: nobody waits for the restore thread, and what the     *)
(* viewer owned on either clipboard is gone.                               *)
CloseViewer ==
  /\ viewer = "open" /\ viewer' = "ended"
  /\ chord' = Idle /\ restore' = Idle
  /\ IF session.owner = "viewer" THEN Write(Nothing, "nobody") /\ Later
     ELSE UNCHANGED <<session, generation, newer>>
  /\ host' = IF host.owner = "viewer" THEN Selection(Nothing, "nobody") ELSE host
  /\ disturbed' = (disturbed \/ HandoffUnderWay \/ session.owner = "viewer")
  /\ lent' = FALSE
  /\ UNCHANGED <<app, served, servers, mine>>

Chord == Join \/ ReadAgent \/ ReadGeneration \/ ReadHost \/ LendHost \/ ForwardKey
Restore == SeeChange \/ StopWaiting \/ ReadCopied \/ WriteHost \/ StopReading \/ PutBack

Next ==
  \/ \E kind \in {"copy", "paste"} : Press(kind)
  \/ Chord \/ HandoffFails \/ Restore
  \/ AppCopies \/ AppPastes \/ AppSelects \/ AppMarks \/ HostCopies
  \/ \E t \in AgentTexts : StoreWrite(t)
  \/ StoreRemembers \/ Freeze \/ Exec \/ RestoreWrite
  \/ OpenViewer \/ CloseViewer

Spec == Init /\ [][Next]_vars

-----------------------------------------------------------------------------
AtRest == ~HandoffUnderWay /\ store.at = "idle"

(* The agent's selection is put back after every copy and paste of the     *)
(* viewer's user, and comes back after a live reload, when nobody changed  *)
(* the selection meanwhile and the viewer that holds it is open.           *)
AgentTextComesBack == AtRest /\ ~disturbed => session.text = mine

(* What the user copies in the session goes to the host, and what the      *)
(* session's application pastes for the user is the host's: never the      *)
(* agent's text, unless the agent or a late answer came in between.        *)
ShortcutsCarryTheUsersText ==
  [][/\ lent /\ WriteHost => host'.text = UserText
     /\ lent /\ restore.at = "reading" /\ AppPastes => session.text = restore.text]_vars

(* A live reload writes the server's text again only if it was still the   *)
(* selection: a change made after the store remembered it is kept.         *)
ReloadOverwritesNothing ==
  [][store.at = "restoring" /\ store'.at = "applied" => ~newer]_vars

(* Does not hold. README.md:214: "Clipboard ownership survives server      *)
(* reload and ends when the server exits." After another client marked     *)
(* text the reload drops the agent's text: saved() asks for both           *)
(* selections to be unchanged.                                             *)
OwnershipSurvivesReload ==
  AtRest /\ viewer = "closed" /\ ~newer /\ mine \in AgentTexts => session.text = mine
=============================================================================
