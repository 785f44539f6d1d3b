------------------------------- MODULE SentInput -------------------------------
(***************************************************************************)
(* The input tools of one desktop (src/main.rs): what they send to KWin    *)
(* over EIS, what the session's input log remembers of it, and what an     *)
(* operation that fails or is cancelled half way leaves pressed. Input     *)
(* operations of a desktop run one at a time (see InputOrder). Requests    *)
(* queue in the EIS context and leave it when a flush finds room in the    *)
(* socket; a flush that finds none for 5 s gives up and leaves them there. *)
(* A tool is dropped at any of its awaits; appending to the log can fail.  *)
(*                                                                         *)
(* A tool is the sequence of its events. Buttons are keys; pointer motion  *)
(* and wheel events press nothing and are "touch" events.                  *)
(***************************************************************************)
EXTENDS Naturals, Sequences

CONSTANTS
  Shift, Ctrl,   \* the modifiers
  Key,           \* the main key of a combination
  Letter,        \* the key of a printable character
  Button,
  Texts,         \* the texts typed: for each character, whether it needs shift
  MaxOps         \* bound on the operations

Modifiers == {Shift, Ctrl}
AllKeys   == Modifiers \cup {Key, Letter, Button}

SentInputAssumption ==
  /\ Shift # Ctrl /\ Key # Letter /\ Button \notin Modifiers \cup {Key, Letter}
  /\ Modifiers \cap {Key, Letter} = {}
  /\ MaxOps \in Nat
  /\ \A t \in Texts : t \in Seq(BOOLEAN)

VARIABLES
  down,       \* the keys KWin holds down
  queue,      \* requests in the EIS context that no flush has sent
  socket,     \* the EIS socket: "room", "full" or "lost"
  held,       \* InputHistory::held, what the input log takes for pressed
  op,         \* the operation that runs, or "none"
  plan,       \* its events still to come
  keys,       \* SentInput: what it pressed and has not released
  call,       \* the log's open call: "none", "open" or "stale"
  attempted,  \* the characters it tried to send
  pressed,    \* what keyboard_press left down on purpose (history)
  ops

eisVars  == <<down, queue, socket>>
opVars   == <<op, plan, keys, call, attempted, pressed, ops>>
vars     == <<eisVars, held, opVars>>

Init ==
  /\ down = {} /\ queue = <<>> /\ socket = "room"
  /\ held = {}
  /\ op = "none" /\ plan = <<>> /\ keys = {}
  /\ call = "none"
  /\ attempted = 0
  /\ pressed = {}
  /\ ops = 0

-----------------------------------------------------------------------------
(* The events of each tool *)

Down(k) == [event |-> "down", key |-> k]
Up(k)   == [event |-> "up", key |-> k]
Tap(k)  == [event |-> "tap", key |-> k]
Wait    == [event |-> "wait", key |-> Key]
Touch   == [event |-> "touch", key |-> Button]

(* A combination: the modifiers around the main key, with pauses.          *)
keyboard_key(m)     == <<Down(m), Wait, Down(Key), Wait, Up(Key), Wait, Up(m), Wait>>
keyboard_paste      == <<Wait>> \o keyboard_key(Shift)
keyboard_press(m)   == <<Down(m), Wait, Down(Key)>>
keyboard_release(m) == <<Up(Key), Wait, Up(m)>>
mouse_move          == <<Wait, Touch, Wait, Touch>>
mouse_click         == mouse_move \o <<Down(Button), Wait, Up(Button), Wait, Down(Button), Wait, Up(Button)>>
mouse_drag          == mouse_move \o <<Down(Button)>> \o mouse_move \o <<Up(Button)>>
mouse_scroll        == mouse_move \o <<Touch, Wait, Touch>>

(* Shift changes only between characters that need it differently.         *)
Shifts(was, is) ==
  IF was = is THEN <<>> ELSE IF is THEN <<Down(Shift)>> ELSE <<Up(Shift)>>

type_with_profile(text) ==
  LET shifted == [i \in 0..Len(text) + 1 |-> i \in 1..Len(text) /\ text[i]]
      typed[i \in 0..Len(text)] ==
        IF i = 0 THEN <<>>
        ELSE typed[i - 1] \o <<Wait>> \o Shifts(shifted[i - 1], shifted[i]) \o <<Tap(Letter), Wait>>
  IN typed[Len(text)] \o Shifts(shifted[Len(text)], FALSE) \o <<Wait>>

keyboard_type(text) ==
  <<Wait>> \o type_with_profile(text) \o <<Wait>>

(* With replace, ctrl+a comes first and is waited for.                     *)
keyboard_type_replace(text) == <<Wait>> \o keyboard_key(Ctrl) \o keyboard_type(text)

browser_navigate(text) ==
  keyboard_key(Ctrl) \o type_with_profile(text)
    \o <<Down(Key), Wait, Up(Key), Wait, Down(Key), Wait, Up(Key), Wait>>

-----------------------------------------------------------------------------
(* EIS *)

(* A tap is queued as its press and its release, with one flush for both.  *)
Requests(e) ==
  IF e.event = "tap" THEN <<Down(e.key), Up(e.key)>> ELSE <<e>>

Apply(e, set) ==
  CASE e.event = "down" -> set \cup {e.key}
    [] e.event = "up"   -> set \ {e.key}
    [] OTHER            -> set

(* What KWin holds down once it has read the requests.                     *)
After(requests, set) ==
  LET after[i \in 0..Len(requests)] ==
        IF i = 0 THEN set ELSE Apply(requests[i], after[i - 1])
  IN after[Len(requests)]

(* Eis::flush of the queue with these requests added: all of it goes, or,  *)
(* when KWin does not read, a part of it and an error.                     *)
Flush(requests, ok) ==
  LET all  == queue \o requests
      goes == CASE socket = "room" -> {Len(all)}
                [] socket = "full" -> 0..Len(all) - 1
                [] socket = "lost" -> {0}
  IN /\ ok <=> socket = "room"
     /\ \E n \in goes :
          /\ down' = After(SubSeq(all, 1, n), down)
          /\ queue' = SubSeq(all, n + 1, Len(all))

(* Delivered or not, the log's history takes a press for pressed and a     *)
(* release for released, before each line is written; the release of a tap *)
(* is not reached when the line of its press cannot be. Buttons are not in *)
(* the history.                                                            *)
Remember(e, logged) ==
  held' \in IF e.key = Button THEN {held}
           ELSE IF e.event # "tap" THEN {Apply(e, held)}
           ELSE {held \ {e.key}} \cup IF logged THEN {} ELSE {held \cup {e.key}}

-----------------------------------------------------------------------------
(* An operation *)

(* InputLog::begin, then the tool. A begin that cannot write its line      *)
(* refuses the call, and leaves it open in the log.                        *)
Begin(name, events) ==
  /\ op = "none" /\ ops < MaxOps
  /\ ops' = ops + 1
  /\ \/ op' = name /\ plan' = events /\ call' = "open"
     \/ call' = "stale" /\ UNCHANGED <<op, plan>>
  /\ attempted' = 0
  /\ UNCHANGED <<down, queue, socket, held, keys, pressed>>

BeginKey == \E m \in Modifiers : Begin("keyboard_key", keyboard_key(m))
BeginPaste == Begin("keyboard_paste", keyboard_paste)
BeginPress == \E m \in Modifiers : Begin("keyboard_press", keyboard_press(m))
BeginRelease == \E m \in Modifiers : Begin("keyboard_release", keyboard_release(m))
BeginClick == Begin("mouse_click", mouse_click)
BeginDrag == Begin("mouse_drag", mouse_drag)
BeginScroll == Begin("mouse_scroll", mouse_scroll)
BeginMove == Begin("mouse_move", mouse_move)

BeginTypeAnyhow ==
  \E t \in Texts : \/ Begin("keyboard_type", keyboard_type(t))
                   \/ Begin("keyboard_type", keyboard_type_replace(t))

(* held_modifiers: text is refused while the log takes a modifier for held.*)
BeginType ==
  /\ held \cap Modifiers = {}
  /\ \E t \in Texts : \/ Begin("keyboard_type", keyboard_type(t))
                      \/ Begin("keyboard_type", keyboard_type_replace(t))

BeginNavigate == \E t \in Texts : Begin("browser_navigate", browser_navigate(t))

(* keyboard_press and keyboard_release talk to EIS directly; every other   *)
(* tool goes through SentInput.                                            *)
Guarded == op \notin {"keyboard_press", "keyboard_release"}
Event   == Head(plan)

Presses(e)  == e.event \in {"down", "tap"}
Releases(e) == e.event \in {"up", "tap"}

TrackSent(e, ok) ==
  keys' = IF ~Guarded \/ ~ok THEN keys
          ELSE (keys \cup IF Presses(e) THEN {e.key} ELSE {})
                 \ IF Releases(e) THEN {e.key} ELSE {}

(* SentInput keeps a key from before it is sent until its release is.      *)
Track(e, ok) ==
  keys' = IF ~Guarded THEN keys
          ELSE (keys \cup IF Presses(e) THEN {e.key} ELSE {})
                 \ IF Releases(e) /\ ok THEN {e.key} ELSE {}

Count(e) == attempted' = IF e.event = "tap" THEN attempted + 1 ELSE attempted

(* An event is queued, flushed, remembered and logged; an error of the     *)
(* flush or of the log ends the operation, whose SentInput is dropped.     *)
Send ==
  /\ op # "none" /\ plan # <<>> /\ Event.event # "wait"
  /\ \E flushed, logged \in BOOLEAN :
       /\ Flush(Requests(Event), flushed)
       /\ Remember(Event, logged)
       /\ LET ok == flushed /\ logged IN
            /\ Track(Event, ok) /\ Count(Event)
            /\ plan' = IF ok THEN Tail(plan) ELSE <<>>
            /\ op' = IF ok THEN op ELSE "dropping"
  /\ pressed' = CASE op = "keyboard_press" -> Apply(Event, pressed)
                  [] op = "keyboard_release" -> Apply(Event, pressed)
                  [] OTHER -> pressed
  /\ UNCHANGED <<socket, call, ops>>

(* A pause passes, a look at the window or the field is taken, or KWin     *)
(* acknowledges what was sent ...                                          *)
Pause ==
  /\ op # "none" /\ plan # <<>> /\ Event.event = "wait"
  /\ plan' = Tail(plan)
  /\ UNCHANGED <<eisVars, held, op, keys, call, attempted, pressed, ops>>

(* ... or the call is cancelled there, the window or the field changed, or *)
(* KWin did not acknowledge.                                               *)
Stop ==
  /\ op \notin {"none", "dropping"} /\ plan # <<>> /\ Event.event = "wait"
  /\ op' = "dropping" /\ plan' = <<>>
  /\ UNCHANGED <<eisVars, held, keys, call, attempted, pressed, ops>>

(* SentInput::drop: a release for every key it still has, whatever becomes *)
(* of it.                                                                  *)
Drop ==
  /\ op = "dropping" /\ keys # {}
  /\ \E k \in keys, flushed \in BOOLEAN :
       /\ Flush(Requests(Up(k)), flushed)
       /\ Remember(Up(k), TRUE)
       /\ keys' = keys \ {k}
  /\ UNCHANGED <<socket, op, plan, call, attempted, pressed, ops>>

(* The audit guard is dropped after SentInput: the log's call is summed    *)
(* up, or stays open in memory if the summary cannot be written.           *)
Finish ==
  /\ op # "none" /\ plan = <<>> /\ keys = {}
  /\ op' = "none"
  /\ call' \in {"none", "stale"}
  /\ UNCHANGED <<eisVars, held, plan, keys, attempted, pressed, ops>>

(* KWin stops reading, reads again, or is gone.                            *)
SocketChanges ==
  /\ socket # "lost"
  /\ socket' \in {"room", "full", "lost"} \ {socket}
  /\ UNCHANGED <<down, queue, held, opVars>>

Next ==
  \/ BeginKey \/ BeginPaste \/ BeginPress \/ BeginRelease \/ BeginClick
  \/ BeginDrag \/ BeginMove \/ BeginScroll \/ BeginType \/ BeginNavigate
  \/ Send \/ Pause \/ Stop \/ Drop \/ Finish \/ SocketChanges

Spec == Init /\ [][Next]_vars

-----------------------------------------------------------------------------
(* Between operations, KWin holds down, or will once it reads what is      *)
(* queued, exactly the keys the log takes for held, and only keys that a   *)
(* keyboard_press left there: an operation that failed, was cancelled or   *)
(* met a KWin that does not read leaves nothing pressed.                   *)
NothingLeftPressed ==
  op = "none" => /\ After(queue, down) = held
                 /\ held \subseteq pressed

(* A character never arrives as a shortcut: when keyboard_type queues one, *)
(* no modifier is or will be down but the shift it needs.                  *)
TextIsNoShortcut ==
  [][op = "keyboard_type" /\ attempted' > attempted
       => After(queue, down) \cap Modifiers \subseteq {Shift} \cap keys]_vars

(* Does not hold: "The keys stay down until keyboard_release with the same *)
(* combo" (keyboard_press). Another combination that is released, or       *)
(* dropped, takes a modifier they share with it.                           *)
HeldUntilReleased ==
  [][\A k \in pressed \cap After(queue, down) :
       k \in After(queue', down') \/ op = "keyboard_release"]_vars
=============================================================================
