---------------------------- MODULE SessionControl ----------------------------
(***************************************************************************)
(* The control sockets of src/main.rs. Every server of a user binds one,   *)
(* named after its PID, and serves the calls that other servers forward    *)
(* for their clients. At its start, and again after a reload, a server     *)
(* sweeps the socket files nobody listens on. With --keep-sessions it      *)
(* outlives its client for as long as such calls use its desktop.          *)
(*                                                                         *)
(* Files, sockets and processes are shared by all and locked by nobody.    *)
(* A server may be killed at any step. Its PID may then be another's: the  *)
(* servers of one PID are its successive processes. Each one starts at     *)
(* most one desktop. Calls that a server's own desktop answers are in      *)
(* CallAdmission.                                                          *)
(***************************************************************************)
EXTENDS Naturals

CONSTANTS
  Servers,     \* server processes
  Pids,
  Pid,         \* the PID of each
  Keep,        \* those with --keep-sessions
  Owners,      \* those whose client starts a desktop
  Calls,       \* calls that name a desktop of another PID, and attaches
  Attaches,    \* those that are session_attach
  Caller,      \* the server each one reaches first
  Meant,       \* the server whose desktop the client means
  MaxReloads,  \* bound on reloads of all servers
  None

ASSUME ControlAssumption ==
  /\ Pid \in [Servers -> Pids] /\ Keep \subseteq Servers /\ Owners \subseteq Servers
  /\ Attaches \subseteq Calls
  /\ Caller \in [Calls -> Servers] /\ Meant \in [Calls -> Servers]
  /\ \A c \in Calls : Pid[Caller[c]] # Pid[Meant[c]]
  /\ None \notin Servers \cup Pids \cup (Servers \X Nat) /\ MaxReloads \in Nat

VARIABLES
  pc,        \* the step of each server
  file,      \* the socket file of each PID: the socket it names, or None
  listener,  \* the socket each server listens on, or None
  table,     \* /proc/net/unix as a sweep read it: the PIDs that listen
  todo,      \* the directory entries a sweep has not looked at
  entry,     \* the one it is at
  desktop,   \* "none", "running", "idle" for long, or "ended"
  reloads,   \* images replaced, which also numbers the sockets
  call,      \* the step of each call
  expected,  \* the process it must reach, or None if it may reach any
  peer,      \* the process it is or was connected to
  open,      \* the calls whose connection is open
  task,      \* the handler there: "none", "begun", "ran" or "refused"
  ran,       \* the servers it ran on (history)
  answer,    \* what its client was told
  attached   \* the process each server's client attached to

serverVars == <<pc, file, listener, table, todo, entry, desktop, reloads>>
callVars   == <<call, expected, peer, open, task, ran, answer, attached>>
vars       == <<serverVars, callVars>>

Down == {"new", "gone"}
(* A PID with a start time is one process: it is there or has exited.      *)
Alive(p)      == pc[p] \notin Down
Serving(p)    == pc[p] \in {"up", "draining"}
Running(p)    == desktop[p] \in {"running", "idle"}
Socket(p)     == <<p, reloads>>
ListensAt(d)  == \E p \in Servers : listener[p] # None /\ listener[p] = file[d]

Init ==
  /\ pc = [p \in Servers |-> "new"]
  /\ file = [d \in Pids |-> None]
  /\ listener = [p \in Servers |-> None]
  /\ table = [p \in Servers |-> {}]
  /\ todo = [p \in Servers |-> {}]
  /\ entry = [p \in Servers |-> None]
  /\ desktop = [p \in Servers |-> "none"]
  /\ reloads = 0
  /\ call = [c \in Calls |-> "new"]
  /\ expected = [c \in Calls |-> None]
  /\ peer = [c \in Calls |-> None]
  /\ open = {}
  /\ task = [c \in Calls |-> "none"]
  /\ ran = [c \in Calls |-> {}]
  /\ answer = [c \in Calls |-> "none"]
  /\ attached = [p \in Servers |-> None]

-----------------------------------------------------------------------------
(* A server's start: the sweep, then its own socket *)

(* The kernel hands out PIDs in turn: one does not come round again while  *)
(* a sweep stands between two looks at its socket file.                    *)
Start(p) ==
  /\ pc[p] = "new"
  /\ \A q \in Servers : Pid[q] = Pid[p] => ~Alive(q)
  /\ \A q \in Servers : entry[q] # Pid[p]
  /\ pc' = [pc EXCEPT ![p] = "table"]
  /\ UNCHANGED <<file, listener, table, todo, entry, desktop, reloads, callVars>>

ReadTable(p) ==
  /\ pc[p] = "table"
  /\ table' = [table EXCEPT ![p] = {d \in Pids : ListensAt(d)}]
  /\ todo' = [todo EXCEPT ![p] = Pids]
  /\ pc' = [pc EXCEPT ![p] = "sweep"]
  /\ UNCHANGED <<file, listener, entry, desktop, reloads, callVars>>

OwnerListens(d) == ListensAt(d)

(* kwin_mcp_server_running: the PID runs a kwin-mcp, bound or not.         *)
OwnerRunning(d) == \E p \in Servers : Pid[p] = d /\ Alive(p)

Passes(p, d) == OwnerRunning(d) \/ file[d] = None \/ d \in table[p]

SweepLook(p) ==
  /\ pc[p] = "sweep"
  /\ \E d \in todo[p] :
       /\ todo' = [todo EXCEPT ![p] = @ \ {d}]
       /\ IF Passes(p, d)
          THEN UNCHANGED <<pc, entry>>
          ELSE /\ pc' = [pc EXCEPT ![p] = "probe"]
               /\ entry' = [entry EXCEPT ![p] = d]
  /\ UNCHANGED <<file, listener, table, desktop, reloads, callVars>>

(* Only a refused connection proves that nothing listens.                  *)
SweepProbe(p) ==
  LET refused == file[entry[p]] # None /\ ~ListensAt(entry[p])
  IN /\ pc[p] = "probe"
     /\ pc' = [pc EXCEPT ![p] = IF refused THEN "unlink" ELSE "sweep"]
     /\ entry' = [entry EXCEPT ![p] = IF refused THEN @ ELSE None]
     /\ UNCHANGED <<file, listener, table, todo, desktop, reloads, callVars>>

SweepUnlink(p) ==
  /\ pc[p] = "unlink"
  /\ file' = [file EXCEPT ![entry[p]] = None]
  /\ entry' = [entry EXCEPT ![p] = None]
  /\ pc' = [pc EXCEPT ![p] = "sweep"]
  /\ UNCHANGED <<listener, table, todo, desktop, reloads, callVars>>

(* SessionControlSocket::bind: an own file that refuses is cleared. One    *)
(* that answers, or one that another removes first, ends in an error and a *)
(* server without routing.                                                 *)
BindLook(p) ==
  /\ pc[p] = "sweep" /\ todo[p] = {}
  /\ pc' = [pc EXCEPT ![p] = IF file[Pid[p]] = None THEN "bind"
                             ELSE IF ListensAt(Pid[p]) THEN "up" ELSE "clear"]
  /\ table' = [table EXCEPT ![p] = {}]
  /\ UNCHANGED <<file, listener, todo, entry, desktop, reloads, callVars>>

BindClear(p) ==
  /\ pc[p] = "clear"
  /\ file' = [file EXCEPT ![Pid[p]] = None]
  /\ pc' = [pc EXCEPT ![p] = IF file[Pid[p]] = None THEN "up" ELSE "bind"]
  /\ UNCHANGED <<listener, table, todo, entry, desktop, reloads, callVars>>

Bind(p) ==
  /\ pc[p] = "bind"
  /\ file' = [file EXCEPT ![Pid[p]] = Socket(p)]
  /\ listener' = [listener EXCEPT ![p] = Socket(p)]
  /\ pc' = [pc EXCEPT ![p] = "up"]
  /\ UNCHANGED <<table, todo, entry, desktop, reloads, callVars>>

-----------------------------------------------------------------------------
(* Its life *)

StartDesktop(p) ==
  /\ pc[p] = "up" /\ p \in Owners /\ desktop[p] = "none"
  /\ desktop' = [desktop EXCEPT ![p] = "running"]
  /\ UNCHANGED <<pc, file, listener, table, todo, entry, reloads, callVars>>

(* Stopped by a call, expired or dead.                                     *)
DesktopEnds(p) ==
  /\ Serving(p) /\ Running(p)
  /\ desktop' = [desktop EXCEPT ![p] = "ended"]
  /\ UNCHANGED <<pc, file, listener, table, todo, entry, reloads, callVars>>

TimePasses(p) ==
  /\ Serving(p) /\ desktop[p] = "running"
  /\ desktop' = [desktop EXCEPT ![p] = "idle"]
  /\ UNCHANGED <<pc, file, listener, table, todo, entry, reloads, callVars>>

(* A process that leaves or is replaced takes its connections and the      *)
(* handlers of forwarded calls with it. What they ran, ran.                *)
Cut(p) ==
  /\ open' = {c \in open : peer[c] # p /\ Caller[c] # p}
  /\ task' = [c \in Calls |-> IF peer[c] = p /\ task[c] = "begun" THEN "none" ELSE task[c]]

(* freeze waits for the requests of stdin: a call being forwarded for the  *)
(* client holds the reload back, one forwarded to this server does not.    *)
Reload(p) ==
  /\ pc[p] = "up" /\ reloads < MaxReloads
  /\ \A c \in Calls : Caller[c] = p => call[c] \in {"new", "done"}
  /\ reloads' = reloads + 1
  /\ pc' = [pc EXCEPT ![p] = "table"]
  /\ listener' = [listener EXCEPT ![p] = None]
  /\ attached' = [attached EXCEPT ![p] = None]
  /\ Cut(p)
  /\ UNCHANGED <<file, table, todo, entry, desktop, call, expected, peer, ran, answer>>

(* least_idle_running_session: a desktop that ended does not count.        *)
LeastIdle(p) == IF Running(p) THEN desktop[p] ELSE "none"

(* The client closes its end.                                              *)
ClientCloses(p) ==
  /\ pc[p] = "up"
  /\ pc' = [pc EXCEPT ![p] =
       IF p \in Keep /\ listener[p] # None /\ LeastIdle(p) # "none"
       THEN "draining" ELSE "closing"]
  /\ UNCHANGED <<file, listener, table, todo, entry, desktop, reloads, callVars>>

PollIdleOnly(p) ==
  /\ pc[p] = "draining"
  /\ LeastIdle(p) = "idle"
  /\ pc' = [pc EXCEPT ![p] = "closing"]
  /\ UNCHANGED <<file, listener, table, todo, entry, desktop, reloads, callVars>>

Poll(p) ==
  /\ pc[p] = "draining"
  /\ LeastIdle(p) \in {"none", "idle"}
  /\ pc' = [pc EXCEPT ![p] = "closing"]
  /\ UNCHANGED <<file, listener, table, todo, entry, desktop, reloads, callVars>>

(* A signal, or the end of the launching process.                          *)
Signal(p) ==
  /\ Serving(p)
  /\ pc' = [pc EXCEPT ![p] = "closing"]
  /\ UNCHANGED <<file, listener, table, todo, entry, desktop, reloads, callVars>>

(* The socket's task is aborted: Drop removes the file if it still names   *)
(* this socket. Handlers that began go on beside the shutdown.             *)
CloseSocket(p) ==
  /\ pc[p] = "closing"
  /\ file' = [d \in Pids |-> IF d = Pid[p] /\ file[d] = listener[p] THEN None ELSE file[d]]
  /\ listener' = [listener EXCEPT ![p] = None]
  /\ open' = {c \in open : peer[c] # p}
  /\ pc' = [pc EXCEPT ![p] = "cleanup"]
  /\ UNCHANGED <<table, todo, entry, desktop, reloads, call, expected, peer, task, ran, answer,
                 attached>>

Leave(p) ==
  /\ pc' = [pc EXCEPT ![p] = "gone"]
  /\ listener' = [listener EXCEPT ![p] = None]
  /\ table' = [table EXCEPT ![p] = {}]
  /\ todo' = [todo EXCEPT ![p] = {}]
  /\ entry' = [entry EXCEPT ![p] = None]
  /\ desktop' = [desktop EXCEPT ![p] = IF @ = "none" THEN @ ELSE "ended"]
  /\ attached' = [attached EXCEPT ![p] = None]
  /\ Cut(p)
  /\ call' = [c \in Calls |-> IF Caller[c] = p /\ call[c] # "new" THEN "done" ELSE call[c]]
  /\ UNCHANGED <<file, reloads, expected, peer, ran, answer>>

Exit(p)   == pc[p] = "cleanup" /\ Leave(p)
Killed(p) == Alive(p) /\ Leave(p)

-----------------------------------------------------------------------------
(* A forwarded call *)

Answer(c, what) ==
  /\ answer' = [answer EXCEPT ![c] = what]
  /\ call' = [call EXCEPT ![c] = "done"]

(* call_tool: the desktop has an ID that the client got from its server.   *)
(* An attached one names its owner. session_attach reads the owner's       *)
(* identity first.                                                         *)
Call(c) ==
  LET p     == Caller[c]
      owner == IF c \in Attaches
               THEN {q \in Servers : Pid[q] = Pid[Meant[c]] /\ Alive(q)}
               ELSE {q \in {attached[p]} \ {None} : Pid[q] = Pid[Meant[c]]}
  IN /\ call[c] = "new" /\ pc[p] = "up"
     /\ desktop[Meant[c]] # "none"
     /\ expected' = [expected EXCEPT ![c] = IF owner = {} THEN None ELSE CHOOSE q \in owner : TRUE]
     /\ IF c \in Attaches /\ owner = {}
        THEN Answer(c, "not forwarded")
        ELSE call' = [call EXCEPT ![c] = "verify"] /\ UNCHANGED answer
     /\ UNCHANGED <<serverVars, peer, open, task, ran, attached>>

(* verify_attached_owner, before the connection and after the handshake.   *)
Verify(c, step, next) ==
  /\ call[c] = step
  /\ IF expected[c] = None \/ Alive(expected[c])
     THEN call' = [call EXCEPT ![c] = next] /\ UNCHANGED <<answer, open>>
     ELSE Answer(c, "not forwarded") /\ open' = open \ {c}
  /\ UNCHANGED <<serverVars, expected, peer, task, ran, attached>>

VerifyFirst(c) == Verify(c, "verify", "connect")

VerifyNothing(c) ==
  /\ call[c] = "verify again"
  /\ call' = [call EXCEPT ![c] = "send"]
  /\ UNCHANGED <<serverVars, expected, peer, open, task, ran, answer, attached>>

VerifyAgain(c) == Verify(c, "verify again", "send")

(* Whoever listens on the file of the PID, if it has that PID, answers the *)
(* handshake in time or does not.                                          *)
Connect(c) ==
  LET d == Pid[Meant[c]]
  IN /\ call[c] = "connect"
     /\ \E q \in Servers :
          /\ Pid[q] = d /\ listener[q] # None /\ listener[q] = file[d]
          /\ peer' = [peer EXCEPT ![c] = q]
     /\ open' = open \cup {c}
     /\ call' = [call EXCEPT ![c] = "verify again"]
     /\ UNCHANGED <<serverVars, expected, task, ran, answer, attached>>

(* An unattached call is then looked up among the caller's own sessions,   *)
(* which do not have it.                                                   *)
Unreachable(c) ==
  /\ call[c] = "connect"
  /\ Answer(c, IF expected[c] = None THEN "unknown session" ELSE "not forwarded")
  /\ UNCHANGED <<serverVars, expected, peer, open, task, ran, attached>>

Send(c) ==
  /\ call[c] = "send" /\ c \in open
  /\ task' = [task EXCEPT ![c] = "begun"]
  /\ call' = [call EXCEPT ![c] = "wait"]
  /\ UNCHANGED <<serverVars, expected, peer, open, ran, answer, attached>>

(* The owner's call_tool, or session_list for an attach. The desktop is    *)
(* looked up by its ID, which every server counts from 1.                  *)
Run(c) ==
  LET q == peer[c]
  IN /\ task[c] = "begun"
     /\ IF c \in Attaches \/ ~Running(q)
        THEN UNCHANGED <<desktop, ran>>
        ELSE /\ desktop' = [desktop EXCEPT ![q] = "running"]
             /\ ran' = [ran EXCEPT ![c] = @ \cup {q}]
     /\ task' = [task EXCEPT ![c] = IF Running(q) THEN "ran" ELSE "refused"]
     /\ UNCHANGED <<pc, file, listener, table, todo, entry, reloads, call, expected, peer,
                    open, answer, attached>>

Return(c) ==
  /\ call[c] = "wait" /\ c \in open /\ task[c] \in {"ran", "refused"}
  /\ open' = open \ {c}
  /\ IF task[c] = "ran" /\ c \in Attaches
     THEN call' = [call EXCEPT ![c] = "attach"] /\ UNCHANGED answer
     ELSE Answer(c, task[c])
  /\ UNCHANGED <<serverVars, expected, peer, task, ran, attached>>

LostAsUnreachable(c) ==
  /\ call[c] \in {"send", "wait"} /\ c \notin open
  /\ Answer(c, IF expected[c] = None THEN "unknown session" ELSE "not forwarded")
  /\ UNCHANGED <<serverVars, expected, peer, open, task, ran, attached>>

(* The connection is lost: nobody knows whether the call ran.              *)
Lost(c) ==
  /\ call[c] \in {"send", "wait"} /\ c \notin open
  /\ Answer(c, "lost")
  /\ UNCHANGED <<serverVars, expected, peer, open, task, ran, attached>>

(* attach verifies once more before it remembers the owner.                *)
Attach(c) ==
  /\ call[c] = "attach"
  /\ IF Alive(expected[c])
     THEN /\ attached' = [attached EXCEPT ![Caller[c]] = expected[c]]
          /\ Answer(c, "attached")
     ELSE Answer(c, "not forwarded") /\ UNCHANGED attached
  /\ UNCHANGED <<serverVars, expected, peer, open, task, ran>>

ServerStep(p) ==
  \/ ReadTable(p) \/ SweepLook(p) \/ SweepProbe(p) \/ SweepUnlink(p)
  \/ BindLook(p) \/ BindClear(p) \/ Bind(p)
  \/ TimePasses(p) \/ Poll(p) \/ CloseSocket(p) \/ Exit(p)

Next ==
  \/ \E p \in Servers :
       \/ ServerStep(p)
       \/ Start(p) \/ StartDesktop(p) \/ DesktopEnds(p)
       \/ Reload(p) \/ ClientCloses(p) \/ Signal(p) \/ Killed(p)
  \/ \E c \in Calls :
       \/ Call(c) \/ VerifyFirst(c) \/ Connect(c) \/ Unreachable(c) \/ VerifyAgain(c)
       \/ Send(c) \/ Run(c) \/ Return(c) \/ Lost(c) \/ Attach(c)

Spec == Init /\ [][Next]_vars

(* A server's own steps wait for nobody and the clock ticks.               *)
Fairness == \A p \in Servers : WF_vars(ServerStep(p))

FairSpec == Spec /\ Fairness

-----------------------------------------------------------------------------
(* Properties *)

(* While a server answers its client or keeps its desktops for others, the *)
(* file of its PID names the socket it listens on: no other server's sweep *)
(* removes it, whatever it read before, not even while a reload leaves the *)
(* file without a listener, and a dead process's leftovers do not keep its *)
(* PID's next server from binding.                                         *)
ServingIsReachable ==
  \A p \in Servers : Serving(p) => listener[p] # None /\ file[Pid[p]] = listener[p]

(* A call on an attached session runs in the process that was attached or  *)
(* nowhere, also when that one dies and its PID becomes another server's   *)
(* between any two steps of the forwarding.                                *)
ReachesTheAttached ==
  \A c \in Calls : expected[c] # None => ran[c] \subseteq {expected[c]}

(* What the client is told is true then and stays so: a call reported as   *)
(* not forwarded, or its session as unknown, has not run and will not; one *)
(* answered by a desktop ran on it.                                        *)
AnswersTellTheTruth ==
  \A c \in Calls \ Attaches :
    /\ answer[c] \in {"not forwarded", "unknown session"} => ran[c] = {}
    /\ answer[c] = "ran" => ran[c] # {}

(* A server that its client left ends once nobody uses its desktops, also  *)
(* when they end before they were idle for long.                           *)
DrainEnds == \A p \in Keep : pc[p] = "draining" ~> pc[p] = "gone"

(* Does not hold, "Session IDs belong to the server process that returned  *)
(* them" (README.md:788): a call runs on the desktop whose start gave its  *)
(* ID, or nowhere.                                                         *)
SavedIdsReachTheirOwner == \A c \in Calls : ran[c] \subseteq {Meant[c]}
=============================================================================
