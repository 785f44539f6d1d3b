----------------------------- MODULE SessionWallet -----------------------------
(***************************************************************************)
(* The wallet that a session's apps see: wallet_mediator (src/main.rs)     *)
(* answers org.kde.kwalletd6 on a private bus from a copy in memory. Every *)
(* call is handled by a task of its own, which takes the state lock for    *)
(* the wallet's name, takes it again for the work, and sends the reply     *)
(* after it is released. A live reload saves the state while calls are     *)
(* still answered, and serves it again in the new image.                   *)
(*                                                                         *)
(* Folders and entries are abstracted to the number of changes made, which *)
(* is what a reader tells apart: the wallet is its version.                *)
(***************************************************************************)
EXTENDS Naturals

CONSTANTS
  Calls,       \* bound: the calls the session's apps make
  Asks,        \* what they may ask: an op, a handle and an app id
  MaxHandles,  \* bound on next_handle
  MaxReloads   \* bound on live reloads

Ops     == {"open", "openAsync", "close", "read", "write"}
Handles == 0..MaxHandles  \* the state that shutdown left numbers from 0

SessionWalletAssumption ==
  /\ MaxHandles \in Nat /\ MaxReloads \in Nat
  /\ \A k \in Asks : k.op \in Ops /\ k.handle \in Handles

VARIABLES
  wallet,      \* the version of the copy, or Disabled
  handles,     \* the app each open handle belongs to
  nextHandle,
  saved,       \* the state in the restore record, while a reload is under way
  reloads,
  stage,       \* each call: "new", "sent", "named", "replied" or "lost"
  ask,         \* what it asks: an op, a handle and an app id
  reply,       \* what its task found
  settled,     \* the calls whose replies were sent
  before,      \* the settled calls when each call was sent (history)
  forgotten    \* those answered from a state that a reload did not save (history)

Disabled == 0  \* None: an isEnabled call answers false
stateVars == <<wallet, handles, nextHandle>>
vars == <<stateVars, saved, reloads, stage, ask, reply, settled, before, forgotten>>

NoAsk   == [op |-> "none", handle |-> 0, app |-> "none"]
NoReply == [ok |-> FALSE, value |-> 0]
Nothing == <<>>
NoHandles == [h \in {} |-> "none"]

Init ==
  /\ wallet \in {Disabled, 1}
  /\ handles = NoHandles /\ nextHandle = 1
  /\ saved = Nothing /\ reloads = 0
  /\ stage = [c \in Calls |-> "new"]
  /\ ask = [c \in Calls |-> NoAsk]
  /\ reply = [c \in Calls |-> NoReply]
  /\ settled = {}
  /\ before = [c \in Calls |-> {}]
  /\ forgotten = {}

-----------------------------------------------------------------------------
(* A call *)

Send(c) ==
  /\ stage[c] = "new"
  /\ \E k \in Asks : ask' = [ask EXCEPT ![c] = k]
  /\ stage' = [stage EXCEPT ![c] = "sent"]
  /\ before' = [before EXCEPT ![c] = settled]
  /\ UNCHANGED <<stateVars, saved, reloads, reply, settled, forgotten>>

(* Without a wallet the answer is given at once: no handle, no entries.    *)
FindName(c) ==
  /\ stage[c] = "sent"
  /\ stage' = [stage EXCEPT ![c] = IF wallet = Disabled THEN "replied" ELSE "named"]
  /\ UNCHANGED <<stateVars, saved, reloads, ask, reply, settled, before, forgotten>>

(* Only the app a handle was opened for reaches the wallet through it.     *)
Owned(h, a) == h \in DOMAIN handles /\ handles[h] = a

Finish(c, ok, value) ==
  /\ stage' = [stage EXCEPT ![c] = "replied"]
  /\ reply' = [reply EXCEPT ![c] = [ok |-> ok, value |-> value]]
  /\ UNCHANGED <<saved, reloads, ask, settled, before, forgotten>>

Open(c) ==
  /\ stage[c] = "named" /\ ask[c].op \in {"open", "openAsync"}
  /\ nextHandle \in Handles
  /\ handles' = [h \in DOMAIN handles \cup {nextHandle} |->
                   IF h = nextHandle THEN ask[c].app ELSE handles[h]]
  /\ nextHandle' = nextHandle + 1
  /\ Finish(c, TRUE, nextHandle)
  /\ UNCHANGED wallet

Close(c) ==
  /\ stage[c] = "named" /\ ask[c].op = "close"
  /\ LET h == ask[c].handle IN
       IF Owned(h, ask[c].app)
       THEN /\ handles' = [k \in DOMAIN handles \ {h} |-> handles[k]]
            /\ Finish(c, TRUE, h)
       ELSE Finish(c, FALSE, h) /\ UNCHANGED handles
  /\ UNCHANGED <<wallet, nextHandle>>

Read(c) ==
  /\ stage[c] = "named" /\ ask[c].op = "read"
  /\ IF Owned(ask[c].handle, ask[c].app) /\ wallet # Disabled
     THEN Finish(c, TRUE, wallet) ELSE Finish(c, FALSE, 0)
  /\ UNCHANGED stateVars

(* Folders and entries made, changed or removed.                           *)
Write(c) ==
  /\ stage[c] = "named" /\ ask[c].op = "write"
  /\ IF Owned(ask[c].handle, ask[c].app) /\ wallet # Disabled
     THEN wallet' = wallet + 1 /\ Finish(c, TRUE, wallet + 1)
     ELSE Finish(c, FALSE, 0) /\ UNCHANGED wallet
  /\ UNCHANGED <<handles, nextHandle>>

(* The reply is sent after the lock is released; an asynchronous open has  *)
(* its transaction answered first and its handle signalled after that.     *)
Answer(c) ==
  /\ stage[c] = "replied" /\ c \notin settled
  /\ settled' = settled \cup {c}
  /\ UNCHANGED <<stateVars, saved, reloads, stage, ask, reply, before, forgotten>>

-----------------------------------------------------------------------------
(* A live reload, and the end *)

SaveState ==
  /\ saved = Nothing /\ reloads < MaxReloads
  /\ saved' = <<wallet, handles, nextHandle, settled>>
  /\ UNCHANGED <<stateVars, reloads, stage, ask, reply, settled, before, forgotten>>

(* The tasks are gone with the old image, and the replies they did not     *)
(* send; calls not yet read stay in the bus daemon, and their sender gets  *)
(* an error when the old connection ends. The apps keep every answer they  *)
(* got, and what was answered after the save is in no state any more.      *)
ReplaceImage ==
  /\ stage' = [c \in Calls |-> IF stage[c] = "new" \/ c \in settled THEN stage[c] ELSE "lost"]
  /\ forgotten' = forgotten \cup (settled \ saved[4])
  /\ saved' = Nothing /\ reloads' = reloads + 1
  /\ UNCHANGED <<ask, reply, settled, before>>

StartStateForgetsHandles ==
  /\ saved # Nothing
  /\ wallet' = saved[1] /\ handles' = saved[2] /\ nextHandle' = 1
  /\ ReplaceImage

StartState ==
  /\ saved # Nothing
  /\ wallet' = saved[1] /\ handles' = saved[2] /\ nextHandle' = saved[3]
  /\ ReplaceImage

(* exec returned an error: the old image goes on.                          *)
ExecFails ==
  /\ saved # Nothing
  /\ saved' = Nothing
  /\ UNCHANGED <<stateVars, reloads, stage, ask, reply, settled, before, forgotten>>

(* teardown's shutdown empties the state; tasks already running find it    *)
(* empty.                                                                  *)
Shutdown ==
  /\ wallet # Disabled /\ saved = Nothing
  /\ wallet' = Disabled /\ handles' = NoHandles /\ nextHandle' = 0
  /\ UNCHANGED <<saved, reloads, stage, ask, reply, settled, before, forgotten>>

Next ==
  \/ \E c \in Calls : \/ Send(c) \/ FindName(c) \/ Open(c) \/ Close(c)
                      \/ Read(c) \/ Write(c) \/ Answer(c)
  \/ SaveState \/ StartState \/ ExecFails \/ Shutdown

Spec == Init /\ [][Next]_vars

-----------------------------------------------------------------------------
Served(c) == stage[c] = "replied" /\ ask[c].op \in {"read", "write"}
OpenedFor(c, o) ==
  /\ ask[o].op \in {"open", "openAsync"} /\ reply[o].ok
  /\ ask[c].handle = reply[o].value /\ ask[c].app = ask[o].app

ClosesFor(d, c) ==
  ask[d].op = "close" /\ ask[d].handle = ask[c].handle /\ ask[d].app = ask[c].app

(* What the answer to o promised: the change it made is in what is read,   *)
(* and the handle it gave, which no call closes, is the app's own.         *)
KeepsWrite(c, o) ==
  ask[o].op = "write" /\ reply[o].ok /\ reply[c].ok => reply[c].value >= reply[o].value
Keeps(c, o) ==
  /\ KeepsWrite(c, o)
  /\ OpenedFor(c, o) /\ ~(\E d \in Calls : ClosesFor(d, c)) => reply[c].ok

(* A call that an app sends after an answer finds what the answer promised.*)
(* Tasks of different calls run in any order, and a live reload may come   *)
(* between; only what was answered after its save is lost with the image   *)
(* it replaces (1383, 20740).                                              *)
AnsweredCallsCount ==
  \A c \in Calls : Served(c) /\ wallet # Disabled =>
    \A o \in before[c] \ forgotten : Keeps(c, o)

(* Does not hold:                                                          *)
(* "the session's apps then use a session-local org.kde.kwalletd6 served   *)
(* from memory; their writes stay in the session and end with it"          *)
(* (README.md:235): the same of every write that was answered, those after *)
(* a reload saved the state too.                                           *)
WritesStayInTheSession ==
  \A c \in Calls : Served(c) /\ wallet # Disabled => \A o \in before[c] : KeepsWrite(c, o)
=============================================================================
