------------------------------ MODULE InputOrder ------------------------------
(***************************************************************************)
(* The arrival order of ordered calls: InputOrder and InputTurn of         *)
(* src/main.rs. Each desktop has one order, a ticket counter. A call takes *)
(* its ticket while stdin is being read, long before its own task runs,    *)
(* and its turn is a shared handle: whenever the last copy goes, before or *)
(* after the call was served, Drop retires the ticket. Tickets retire out  *)
(* of order, so the ones not yet reached are kept in `done'.               *)
(*                                                                         *)
(* A waiter enables its notification first, then compares the counter      *)
(* under the mutex, lets the mutex go and only then awaits. Drop moves the *)
(* counter under the mutex and notifies after letting it go.               *)
(*                                                                         *)
(* The order of another server's desktop is found through a Weak pointer:  *)
(* once nobody holds a turn of it, the next call starts a new one.         *)
(***************************************************************************)
EXTENDS Integers

CONSTANTS
  Calls,      \* the ordered calls that reach stdin
  Desktops,   \* the desktops they are for
  Desktop,    \* the desktop of each call
  Remote      \* the desktops another server owns

ASSUME OrderAssumption ==
  /\ \A c \in Calls : Desktop[c] \in Desktops
  /\ Remote \subseteq Desktops

VARIABLES
  next,       \* next ticket to hand out, per desktop
  serving,    \* ticket whose turn it is
  done,       \* tickets retired before their turn
  ticket,     \* the ticket of each call
  wait,       \* where each call is with its turn
  woken       \* a notification reached the call since it registered

orderVars == <<next, serving, done, ticket, wait, woken>>

Waits == {"away", "held", "enabled", "unserved", "asleep", "admitted",
          "notifying", "gone"}

(* The calls whose ticket is not retired, and those whose turn still keeps *)
(* its order alive: a turn lives until its Drop returns.                   *)
Listening(c)   == wait[c] \in {"enabled", "unserved", "asleep"}
Outstanding(c) == wait[c] \in {"held", "admitted"} \/ Listening(c)
KeepsOrder(c)  == Outstanding(c) \/ wait[c] = "notifying"
Rivals(c)      == {d \in Calls : Desktop[d] = Desktop[c]}

OrderInit ==
  /\ next = [o \in Desktops |-> 0]
  /\ serving = [o \in Desktops |-> 0]
  /\ done = [o \in Desktops |-> {}]
  /\ ticket = [c \in Calls |-> 0]
  /\ wait = [c \in Calls |-> "away"]
  /\ woken = [c \in Calls |-> FALSE]

(* A new order replaces a remote one whose last turn is gone.              *)
Restarts(c) ==
  /\ Desktop[c] \in Remote
  /\ \A d \in Rivals(c) : ~KeepsOrder(d)

(* SessionStdio::receive: the turn is taken before the request is handed   *)
(* to the service that runs it.                                            *)
Enqueue(c) ==
  LET o == Desktop[c]
      first == IF Restarts(c) THEN 0 ELSE next[o]
  IN /\ wait[c] = "away"
     /\ wait' = [wait EXCEPT ![c] = "held"]
     /\ ticket' = [ticket EXCEPT ![c] = first]
     /\ next' = [next EXCEPT ![o] = first + 1]
     /\ IF Restarts(c)
        THEN /\ serving' = [serving EXCEPT ![o] = 0]
             /\ done' = [done EXCEPT ![o] = {}]
        ELSE UNCHANGED <<serving, done>>
     /\ UNCHANGED woken

(* InputTurn::wait: enable a new notification, also after every wake-up.   *)
Enable(c) ==
  /\ wait[c] = "held" \/ (wait[c] = "asleep" /\ woken[c])
  /\ wait' = [wait EXCEPT ![c] = "enabled"]
  /\ woken' = [woken EXCEPT ![c] = FALSE]
  /\ UNCHANGED <<next, serving, done, ticket>>

CheckOffByOne(c) ==
  /\ wait[c] = "enabled"
  /\ wait' = [wait EXCEPT ![c] =
                IF serving[Desktop[c]] + 1 >= ticket[c] THEN "admitted" ELSE "unserved"]
  /\ UNCHANGED <<next, serving, done, ticket, woken>>

(* Then compare the counter, and await the notification if it differs.     *)
Check(c) ==
  /\ wait[c] = "enabled"
  /\ wait' = [wait EXCEPT ![c] =
                IF serving[Desktop[c]] = ticket[c] THEN "admitted" ELSE "unserved"]
  /\ UNCHANGED <<next, serving, done, ticket, woken>>

Await(c) ==
  /\ wait[c] = "unserved"
  /\ wait' = [wait EXCEPT ![c] = "asleep"]
  /\ UNCHANGED <<next, serving, done, ticket, woken>>

(* Drop, under the mutex: the counter passes every retired ticket it meets *)
(* and stops at the first one still out. A turn goes only before its call  *)
(* began to wait or after it was served.                                   *)
Retire(c) ==
  LET o == Desktop[c]
      retired == done[o] \cup {ticket[c]}
  IN /\ wait[c] \in {"held", "admitted"}
     /\ \E n \in serving[o] .. next[o] :
          /\ n \notin retired
          /\ \A m \in serving[o] .. n - 1 : m \in retired
          /\ serving' = [serving EXCEPT ![o] = n]
          /\ done' = [done EXCEPT ![o] = {m \in retired : m >= n}]
     /\ wait' = [wait EXCEPT ![c] = "notifying"]
     /\ UNCHANGED <<next, ticket, woken>>

NotifyAwaiting(c) ==
  /\ wait[c] = "notifying"
  /\ wait' = [wait EXCEPT ![c] = "gone"]
  /\ woken' = [d \in Calls |-> woken[d] \/ (d \in Rivals(c) /\ wait[d] = "asleep")]
  /\ UNCHANGED <<next, serving, done, ticket>>

(* Drop, after the mutex: every enabled waiter of the order is woken,      *)
(* whether it awaits already or not.                                       *)
Notify(c) ==
  /\ wait[c] = "notifying"
  /\ wait' = [wait EXCEPT ![c] = "gone"]
  /\ woken' = [d \in Calls |->
                 woken[d] \/ (d \in Rivals(c) /\ Listening(d))]
  /\ UNCHANGED <<next, serving, done, ticket>>

OrderNext ==
  \E c \in Calls :
    \/ Enqueue(c)
    \/ Enable(c) \/ Check(c) \/ Await(c)
    \/ Retire(c) \/ Notify(c)

OrderSpec == OrderInit /\ [][OrderNext]_orderVars

-----------------------------------------------------------------------------
(* What the tickets keep, and what makes them correct.                     *)

OrderTypeOK ==
  /\ next \in [Desktops -> Nat]
  /\ serving \in [Desktops -> Nat]
  /\ done \in [Desktops -> SUBSET Nat]
  /\ ticket \in [Calls -> Nat]
  /\ wait \in [Calls -> Waits]
  /\ woken \in [Calls -> BOOLEAN]

(* A ticket that is out lies between the counters and is not retired.      *)
TicketsInRange ==
  \A c \in Calls : Outstanding(c) =>
    /\ serving[Desktop[c]] <= ticket[c]
    /\ ticket[c] < next[Desktop[c]]
    /\ ticket[c] \notin done[Desktop[c]]

TicketsDiffer ==
  \A c, d \in Calls :
    (Outstanding(c) /\ Outstanding(d) /\ c # d /\ Desktop[c] = Desktop[d])
      => ticket[c] # ticket[d]

AdmittedIsServed ==
  \A c \in Calls : wait[c] = "admitted" => ticket[c] = serving[Desktop[c]]

RetiredAreAhead ==
  \A o \in Desktops :
    /\ serving[o] <= next[o]
    /\ \A m \in done[o] : serving[o] < m /\ m < next[o]

(* No wake-up is lost: a call about to sleep, or asleep, at its own ticket *)
(* has been notified, or the Drop that moved the counter to it has still   *)
(* to notify. Without it one early error reply would stop a desktop's      *)
(* input for good.                                                         *)
NoLostWakeup ==
  \A c \in Calls :
    (wait[c] \in {"unserved", "asleep"} /\ ticket[c] = serving[Desktop[c]])
      => woken[c] \/ \E d \in Rivals(c) : wait[d] = "notifying"

(* No ticket is skipped: whenever tickets are out, the one being served    *)
(* belongs to a call that is still there to retire it.                     *)
NobodySkipped ==
  \A o \in Desktops :
    serving[o] < next[o] =>
      \E c \in Calls : Desktop[c] = o /\ Outstanding(c) /\ ticket[c] = serving[o]

-----------------------------------------------------------------------------
(* The promise it implements. A call that has its ticket waits for the     *)
(* smaller tickets of its desktop that are still out.                      *)
StageOf(w) ==
  CASE w = "away" -> "away"
    [] w \in {"held", "enabled", "unserved", "asleep"} -> "waiting"
    [] w = "admitted" -> "admitted"
    [] w \in {"notifying", "gone"} -> "left"

Ahead(c) ==
  IF Outstanding(c)
  THEN {d \in Rivals(c) : Outstanding(d) /\ ticket[d] < ticket[c]}
  ELSE {}

Order == INSTANCE TurnOrder
  WITH stage <- [c \in Calls |-> StageOf(wait[c])],
       ahead <- [c \in Calls |-> Ahead(c)]

(* Ordered calls are served in the order they arrived in (README.md:798).  *)
RetainsArrivalOrder == Order!Spec
=============================================================================
