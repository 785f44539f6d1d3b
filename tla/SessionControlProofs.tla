------------------------- MODULE SessionControlProofs -------------------------
(***************************************************************************)
(* What holds of the control sockets for any number of servers, PIDs and   *)
(* calls: a serving server is reachable, a forwarded call runs in the      *)
(* process it was meant for or nowhere, and its caller is told which.      *)
(*                                                                         *)
(* No step is locked against another server's. What holds the invariant    *)
(* together is that a PID is one living process: a sweep removes nothing   *)
(* of a PID that lives, and whoever lives under the PID of an attached     *)
(* process is that process.                                                *)
(***************************************************************************)
EXTENDS SessionControl, TLAPS

USE ControlAssumption

Steps == {"new", "table", "sweep", "probe", "unlink", "clear", "bind", "up", "draining",
          "closing", "cleanup", "gone"}
CallSteps == {"new", "verify", "connect", "verify again", "send", "wait", "attach", "done"}
Answers == {"none", "not forwarded", "unknown session", "ran", "refused", "lost", "attached"}

ServerTypeOK ==
  /\ pc \in [Servers -> Steps]
  /\ file \in [Pids -> (Servers \X Nat) \cup {None}]
  /\ listener \in [Servers -> (Servers \X Nat) \cup {None}]
  /\ table \in [Servers -> SUBSET Pids] /\ todo \in [Servers -> SUBSET Pids]
  /\ entry \in [Servers -> Pids \cup {None}]
  /\ desktop \in [Servers -> {"none", "running", "idle", "ended"}]
  /\ reloads \in Nat

CallTypeOK ==
  /\ call \in [Calls -> CallSteps]
  /\ expected \in [Calls -> Servers \cup {None}] /\ peer \in [Calls -> Servers \cup {None}]
  /\ open \subseteq Calls
  /\ task \in [Calls -> {"none", "begun", "ran", "refused"}]
  /\ ran \in [Calls -> SUBSET Servers]
  /\ answer \in [Calls -> Answers]
  /\ attached \in [Servers -> Servers \cup {None}]

(* A PID is one living process, and a socket file that of a process with   *)
(* its PID.                                                                *)
OneOfPid ==
  \A p, q \in Servers : Pid[p] = Pid[q] /\ Alive(p) /\ Alive(q) => p = q

SocketInv ==
  /\ \A d \in Pids : file[d] # None => Pid[file[d][1]] = d
  /\ \A p \in Servers :
       /\ listener[p] # None => listener[p][1] = p /\ pc[p] \in {"up", "draining", "closing"}
       /\ pc[p] = "clear" => file[Pid[p]] # None

(* Nobody lives under the PID whose file a sweep is about to remove.       *)
SweepInv ==
  \A q \in Servers :
    /\ entry[q] # None <=> pc[q] \in {"probe", "unlink"}
    /\ \A p \in Servers : Alive(p) => entry[q] # Pid[p]

ServerInv == OneOfPid /\ SocketInv /\ SweepInv /\ ServingIsReachable

(* An open connection leads to a living process of the PID.                *)
OpenInv(c) ==
  /\ c \in open => /\ peer[c] \in Servers /\ Alive(peer[c]) /\ Pid[peer[c]] = Pid[Meant[c]]
                   /\ call[c] \in {"verify again", "send", "wait"}
  /\ expected[c] # None => Pid[expected[c]] = Pid[Meant[c]]

(* Before the request is sent nothing ran; it is sent to the attached      *)
(* process or to nobody; it runs once.                                     *)
ForwardInv(c) ==
  /\ call[c] = "new" => expected[c] = None
  /\ call[c] = "send" /\ c \in open /\ expected[c] # None => peer[c] = expected[c]
  /\ task[c] # "none" => call[c] \in {"wait", "attach", "done"}
  /\ task[c] = "begun" => /\ peer[c] \in Servers
                          /\ expected[c] # None => peer[c] = expected[c]
  /\ ran[c] # {} => task[c] = "ran"
  /\ c \notin Attaches /\ task[c] = "ran" => ran[c] # {}
  /\ expected[c] # None => ran[c] \subseteq {expected[c]}

AnswerInv(c) ==
  /\ answer[c] # "none" => call[c] = "done"
  /\ call[c] = "attach" => c \in Attaches
  /\ c \notin Attaches =>
       /\ answer[c] \in {"not forwarded", "unknown session"} => task[c] = "none"
       /\ answer[c] = "ran" => task[c] = "ran"

CallInv == \A c \in Calls : OpenInv(c) /\ ForwardInv(c) /\ AnswerInv(c)

IInv == ServerTypeOK /\ CallTypeOK /\ ServerInv /\ CallInv

LEMMA ControlStart == Init => IInv
<1> SUFFICES ASSUME Init PROVE IInv
  OBVIOUS
<1> USE DEF Init
<1>1. ServerTypeOK /\ CallTypeOK
  BY DEF ServerTypeOK, CallTypeOK, Steps, CallSteps, Answers
<1>2. ServerInv
  BY DEF ServerInv, OneOfPid, SocketInv, SweepInv, ServingIsReachable, Serving, Alive, Down
<1>3. CallInv
  BY DEF CallInv, OpenInv, ForwardInv, AnswerInv
<1> QED BY <1>1, <1>2, <1>3 DEF IInv

-----------------------------------------------------------------------------
(* The servers *)

(* What the steps of one server have in common: the others keep their step,*)
(* their socket and their place in the directory.                          *)
ServerMoves(p) ==
  \/ ServerStep(p) \/ Start(p) \/ StartDesktop(p) \/ DesktopEnds(p)
  \/ Reload(p) \/ ClientCloses(p) \/ Signal(p) \/ Killed(p)
CallMoves(c) ==
  \/ Call(c) \/ VerifyFirst(c) \/ Connect(c) \/ Unreachable(c) \/ VerifyAgain(c)
  \/ Send(c) \/ Run(c) \/ Return(c) \/ Lost(c) \/ Attach(c)

LEMMA ServerTypeStep ==
  ASSUME ServerTypeOK, NEW p \in Servers, ServerMoves(p)
  PROVE  ServerTypeOK'
<1> USE DEF ServerTypeOK, Steps
<1>1. CASE Start(p) \/ StartDesktop(p) \/ DesktopEnds(p) \/ ClientCloses(p) \/ Signal(p)
  BY <1>1 DEF Start, StartDesktop, DesktopEnds, ClientCloses, Signal
<1>2. CASE ReadTable(p) \/ TimePasses(p) \/ Poll(p)
  BY <1>2 DEF ReadTable, TimePasses, Poll
<1>3. CASE SweepLook(p)
  BY <1>3 DEF SweepLook
<1>4. CASE SweepProbe(p)
  BY <1>4 DEF SweepProbe
<1>10. CASE SweepUnlink(p)
  BY <1>10 DEF SweepUnlink
<1>5. CASE BindLook(p) \/ BindClear(p)
  BY <1>5 DEF BindLook, BindClear
<1>6. CASE Bind(p)
  BY <1>6 DEF Bind, Socket
<1>7. CASE CloseSocket(p)
  BY <1>7 DEF CloseSocket
<1>8. CASE Reload(p)
  BY <1>8 DEF Reload
<1>9. CASE Exit(p) \/ Killed(p)
  <2>1. desktop' \in [Servers -> {"none", "running", "idle", "ended"}]
    BY <1>9 DEF Exit, Killed, Leave
  <2>2. /\ pc' \in [Servers -> Steps] /\ listener' \in [Servers -> (Servers \X Nat) \cup {None}]
        /\ entry' \in [Servers -> Pids \cup {None}]
    BY <1>9 DEF Exit, Killed, Leave
  <2>3. table' \in [Servers -> SUBSET Pids] /\ todo' \in [Servers -> SUBSET Pids]
    BY <1>9 DEF Exit, Killed, Leave
  <2> QED BY <1>9, <2>1, <2>2, <2>3 DEF Exit, Killed, Leave
<1> QED BY <1>1, <1>2, <1>3, <1>4, <1>5, <1>6, <1>7, <1>8, <1>9, <1>10 DEF ServerMoves, ServerStep

LEMMA ServerInvStep ==
  ASSUME ServerTypeOK, ServerInv, NEW p \in Servers, ServerMoves(p)
  PROVE  ServerInv'
<1> USE DEF ServerInv, ServerTypeOK, Steps, OneOfPid, SocketInv, SweepInv, ServingIsReachable,
            Serving, Alive, Down
<1>1. CASE Start(p)
  BY <1>1 DEF Start
<1>2. CASE StartDesktop(p) \/ DesktopEnds(p) \/ TimePasses(p)
  BY <1>2 DEF StartDesktop, DesktopEnds, TimePasses
<1>3. CASE ClientCloses(p) \/ Signal(p) \/ Poll(p)
  <2>1. pc[p] \in {"up", "draining"} /\ pc'[p] \in {"draining", "closing"}
    BY <1>3 DEF ClientCloses, Signal, Poll
  <2>2. \A q \in Servers \ {p} : pc'[q] = pc[q]
    BY <1>3 DEF ClientCloses, Signal, Poll
  <2>3. UNCHANGED <<file, listener, entry>>
    BY <1>3 DEF ClientCloses, Signal, Poll
  <2>4. \A q \in Servers : /\ Alive(q)' = Alive(q)
                           /\ Serving(q)' => Serving(q)
                           /\ pc'[q] \in {"probe", "unlink"} <=> pc[q] \in {"probe", "unlink"}
                           /\ pc'[q] = "clear" => pc[q] = "clear"
    BY <2>1, <2>2
  <2>5. OneOfPid'
    BY <2>4
  <2>6. SweepInv'
    BY <2>3, <2>4
  <2>7. SocketInv'
    <3>1. \A q \in Servers : pc[q] \in {"up", "draining", "closing"} =>
                             pc'[q] \in {"up", "draining", "closing"}
      BY <2>1, <2>2
    <3> QED BY <2>3, <2>4, <3>1
  <2>8. ServingIsReachable'
    BY <2>3, <2>4
  <2> QED BY <2>5, <2>6, <2>7, <2>8
<1>4. CASE ReadTable(p)
  BY <1>4 DEF ReadTable
<1>5. CASE SweepLook(p)
  <2>1. CASE UNCHANGED <<pc, entry>>
    BY <1>5, <2>1 DEF SweepLook
  <2>2. ASSUME NEW d \in Pids, ~Passes(p, d), pc' = [pc EXCEPT ![p] = "probe"],
               entry' = [entry EXCEPT ![p] = d]
        PROVE  ServerInv'
    <3>1. \A q \in Servers : Alive(q) => Pid[q] # d
      BY <2>2 DEF Passes, OwnerRunning
    <3> QED BY <1>5, <2>2, <3>1 DEF SweepLook
  <2> QED BY <1>5, <2>1, <2>2 DEF SweepLook
<1>6. CASE SweepProbe(p)
  BY <1>6 DEF SweepProbe
<1>7. CASE SweepUnlink(p)
  <2>1. entry[p] \in Pids /\ \A q \in Servers : Alive(q) => Pid[q] # entry[p]
    BY <1>7 DEF SweepUnlink
  <2>2. \A d \in Pids : file'[d] = IF d = entry[p] THEN None ELSE file[d]
    BY <1>7, <2>1 DEF SweepUnlink
  <2>3. \A q \in Servers : /\ pc'[q] = IF q = p THEN "sweep" ELSE pc[q]
                           /\ entry'[q] = IF q = p THEN None ELSE entry[q]
    BY <1>7 DEF SweepUnlink
  <2>4. listener' = listener /\ pc[p] = "unlink"
    BY <1>7 DEF SweepUnlink
  <2>5. OneOfPid' /\ SweepInv'
    BY <2>3, <2>4
  <2>6. SocketInv'
    <3>1. \A q \in Servers : pc'[q] = "clear" => pc[q] = "clear" /\ Pid[q] # entry[p]
      BY <2>1, <2>3
    <3>2. \A q \in Servers : pc[q] \in {"up", "draining", "closing"} => pc'[q] = pc[q]
      BY <2>3, <2>4
    <3> QED BY <2>2, <2>4, <3>1, <3>2
  <2>7. ServingIsReachable'
    <3>1. \A q \in Servers : Serving(q)' => Serving(q) /\ Pid[q] # entry[p]
      BY <2>1, <2>3
    <3> QED BY <2>2, <2>4, <3>1
  <2> QED BY <2>5, <2>6, <2>7
<1>8. CASE BindLook(p)
  <2>1. listener[p] = None /\ pc[p] = "sweep"
    BY <1>8 DEF BindLook
  <2>2. ~ListensAt(Pid[p])
    <3>1. ASSUME NEW q \in Servers, listener[q] # None, listener[q] = file[Pid[p]] PROVE FALSE
      BY <2>1, <3>1
    <3> QED BY <3>1 DEF ListensAt
  <2> QED BY <1>8, <2>1, <2>2 DEF BindLook
<1>9. CASE BindClear(p)
  BY <1>9 DEF BindClear
<1>10. CASE Bind(p)
  <2>1. Socket(p) \in Servers \X Nat /\ Socket(p)[1] = p /\ Socket(p) # None
    BY DEF Socket
  <2>2. /\ \A d \in Pids : file'[d] = IF d = Pid[p] THEN Socket(p) ELSE file[d]
        /\ \A q \in Servers : /\ pc'[q] = IF q = p THEN "up" ELSE pc[q]
                              /\ listener'[q] = IF q = p THEN Socket(p) ELSE listener[q]
        /\ entry' = entry /\ pc[p] = "bind"
    BY <1>10 DEF Bind
  <2>3. \A q \in Servers : /\ Alive(q)' = Alive(q)
                           /\ pc'[q] \in {"probe", "unlink"} <=> pc[q] \in {"probe", "unlink"}
    BY <2>2
  <2>4. OneOfPid'
    BY <2>3
  <2>5. SweepInv'
    BY <2>2, <2>3
  <2>6. \A q \in Servers \ {p} : Alive(q) => Pid[q] # Pid[p]
    BY <2>2
  <2>7. SocketInv'
    <3>1. \A d \in Pids : file'[d] # None => Pid[file'[d][1]] = d
      BY <2>1, <2>2
    <3>2. \A q \in Servers : listener'[q] # None =>
            listener'[q][1] = q /\ pc'[q] \in {"up", "draining", "closing"}
      BY <2>1, <2>2
    <3>3. \A q \in Servers : pc'[q] = "clear" => file'[Pid[q]] # None
      BY <2>2, <2>6
    <3> QED BY <3>1, <3>2, <3>3
  <2>8. ServingIsReachable'
    <3> SUFFICES ASSUME NEW q \in Servers, Serving(q)'
                 PROVE  listener'[q] # None /\ file'[Pid[q]] = listener'[q]
      OBVIOUS
    <3>1. CASE q = p
      BY <2>1, <2>2, <3>1
    <3>2. CASE q # p
      BY <2>2, <2>6, <3>2
    <3> QED BY <3>1, <3>2
  <2> QED BY <2>4, <2>5, <2>7, <2>8
<1>11. CASE CloseSocket(p)
  BY <1>11 DEF CloseSocket
<1>12. CASE Reload(p)
  BY <1>12 DEF Reload
<1>13. CASE Exit(p) \/ Killed(p)
  <2>1. /\ \A q \in Servers : /\ pc'[q] = IF q = p THEN "gone" ELSE pc[q]
                              /\ listener'[q] = IF q = p THEN None ELSE listener[q]
                              /\ entry'[q] = IF q = p THEN None ELSE entry[q]
        /\ file' = file
    BY <1>13 DEF Exit, Killed, Leave
  <2> QED BY <2>1
<1> QED BY <1>1, <1>2, <1>3, <1>4, <1>5, <1>6, <1>7, <1>8, <1>9, <1>10, <1>11, <1>12, <1>13
        DEF ServerMoves, ServerStep

-----------------------------------------------------------------------------
(* The calls *)

(* A server that moves on cuts connections and handlers at most: a handler *)
(* that began ends without having run.                                     *)
LEMMA ServersCut ==
  ASSUME ServerTypeOK, CallTypeOK, NEW p \in Servers, ServerMoves(p)
  PROVE  /\ CallTypeOK'
         /\ UNCHANGED <<expected, peer, ran, answer>>
         /\ open' \subseteq open
         /\ \A q \in Servers :
              Alive(q) => Alive(q)' \/ (q = p /\ \A c \in open' : peer[c] # p)
         /\ \A c \in Calls : \/ task'[c] = task[c]
                             \/ task[c] = "begun" /\ task'[c] = "none"
         /\ \A c \in Calls : \/ call'[c] = call[c]
                             \/ call'[c] = "done" /\ call[c] # "new" /\ c \notin open'
<1> DEFINE Goal == /\ CallTypeOK'
                   /\ UNCHANGED <<expected, peer, ran, answer>>
                   /\ open' \subseteq open
                   /\ \A q \in Servers :
                        Alive(q) => Alive(q)' \/ (q = p /\ \A c \in open' : peer[c] # p)
                   /\ \A c \in Calls : \/ task'[c] = task[c]
                                       \/ task[c] = "begun" /\ task'[c] = "none"
                   /\ \A c \in Calls :
                        \/ call'[c] = call[c]
                        \/ call'[c] = "done" /\ call[c] # "new" /\ c \notin open'
<1>0. ASSUME UNCHANGED callVars, \A q \in Servers : Alive(q) => Alive(q)'
      PROVE  Goal
  <2>1. UNCHANGED <<call, expected, peer, open, task, ran, answer, attached>>
    BY <1>0 DEF callVars
  <2>2. CallTypeOK'
    BY <2>1 DEF CallTypeOK
  <2> QED BY <1>0, <2>1, <2>2
<1> USE DEF ServerTypeOK, Steps, CallSteps, Answers, Alive, Down
<1>1. CASE Start(p) \/ StartDesktop(p) \/ DesktopEnds(p) \/ ClientCloses(p) \/ Signal(p)
           \/ TimePasses(p) \/ Poll(p)
  <2> USE <1>1 DEF Start, StartDesktop, DesktopEnds, ClientCloses, Signal, TimePasses, Poll,
                   Serving
  <2>1. UNCHANGED callVars
    OBVIOUS
  <2>2. \A q \in Servers : Alive(q) => Alive(q)'
    OBVIOUS
  <2> QED BY <1>0, <2>1, <2>2
<1>2. CASE ReadTable(p) \/ SweepLook(p) \/ SweepProbe(p) \/ SweepUnlink(p)
  <2> USE <1>2 DEF ReadTable, SweepLook, SweepProbe, SweepUnlink
  <2>1. UNCHANGED callVars
    OBVIOUS
  <2>2. \A q \in Servers : Alive(q) => Alive(q)'
    OBVIOUS
  <2> QED BY <1>0, <2>1, <2>2
<1>3. CASE BindLook(p) \/ BindClear(p) \/ Bind(p)
  <2> USE <1>3 DEF BindLook, BindClear, Bind
  <2>1. UNCHANGED callVars
    OBVIOUS
  <2>2. \A q \in Servers : Alive(q) => Alive(q)'
    OBVIOUS
  <2> QED BY <1>0, <2>1, <2>2
<1>4. CASE CloseSocket(p)
  BY <1>4 DEF CloseSocket, Goal, CallTypeOK
<1>5. CASE Reload(p)
  BY <1>5 DEF Reload, Cut, Goal, CallTypeOK
<1>6. CASE Exit(p) \/ Killed(p)
  <2>1. /\ open' = {c \in open : peer[c] # p /\ Caller[c] # p}
        /\ task' = [c \in Calls |-> IF peer[c] = p /\ task[c] = "begun" THEN "none" ELSE task[c]]
        /\ call' = [c \in Calls |-> IF Caller[c] = p /\ call[c] # "new" THEN "done" ELSE call[c]]
        /\ attached' = [attached EXCEPT ![p] = None]
        /\ pc' = [pc EXCEPT ![p] = "gone"]
        /\ UNCHANGED <<expected, peer, ran, answer>>
    BY <1>6 DEF Exit, Killed, Leave, Cut
  <2>2. CallTypeOK'
    <3>1. open' \subseteq Calls /\ task' \in [Calls -> {"none", "begun", "ran", "refused"}]
      BY <2>1 DEF CallTypeOK
    <3>2. call' \in [Calls -> CallSteps] /\ attached' \in [Servers -> Servers \cup {None}]
      BY <2>1 DEF CallTypeOK
    <3> QED BY <2>1, <3>1, <3>2 DEF CallTypeOK
  <2>3. \A q \in Servers : Alive(q) => Alive(q)' \/ (q = p /\ \A c \in open' : peer[c] # p)
    BY <2>1
  <2>4. open' \subseteq open
    BY <2>1
  <2>5. \A c \in Calls : task'[c] = task[c] \/ (task[c] = "begun" /\ task'[c] = "none")
    BY <2>1
  <2>6. \A c \in Calls :
          call'[c] = call[c] \/ (call'[c] = "done" /\ call[c] # "new" /\ c \notin open')
    BY <2>1 DEF CallTypeOK
  <2> QED BY <2>1, <2>2, <2>3, <2>4, <2>5, <2>6 DEF Goal
<1> HIDE DEF ServerTypeOK, Steps, CallSteps, Answers, Alive, Down
<1>7. Goal
  BY <1>1, <1>2, <1>3, <1>4, <1>5, <1>6 DEF ServerMoves, ServerStep
<1> QED BY <1>7 DEF Goal

LEMMA ServersKeepCalls ==
  ASSUME ServerTypeOK, CallTypeOK, CallInv, NEW p \in Servers, ServerMoves(p)
  PROVE  CallInv'
<1>1. /\ UNCHANGED <<expected, peer, ran, answer>>
      /\ open' \subseteq open
      /\ \A q \in Servers : Alive(q) => Alive(q)' \/ (q = p /\ \A c \in open' : peer[c] # p)
      /\ \A c \in Calls : \/ task'[c] = task[c]
                          \/ task[c] = "begun" /\ task'[c] = "none"
      /\ \A c \in Calls : \/ call'[c] = call[c]
                          \/ call'[c] = "done" /\ call[c] # "new" /\ c \notin open'
  BY ServersCut
<1> SUFFICES ASSUME NEW c \in Calls PROVE OpenInv(c)' /\ ForwardInv(c)' /\ AnswerInv(c)'
  BY DEF CallInv
<1>2. OpenInv(c) /\ ForwardInv(c) /\ AnswerInv(c) /\ peer[c] \in Servers \cup {None}
  BY DEF CallInv, CallTypeOK
<1>3. OpenInv(c)'
  BY <1>1, <1>2 DEF OpenInv
<1>4. ForwardInv(c)'
  BY <1>1, <1>2 DEF ForwardInv
<1>5. AnswerInv(c)'
  BY <1>1, <1>2 DEF AnswerInv
<1> QED BY <1>3, <1>4, <1>5

LEMMA CallTypeStep ==
  ASSUME CallTypeOK, CallInv, NEW c \in Calls, CallMoves(c)
  PROVE  CallTypeOK'
<1> USE DEF CallTypeOK, CallSteps, Answers
<1>1. CASE Call(c)
  <2> DEFINE owner == IF c \in Attaches
                      THEN {q \in Servers : Pid[q] = Pid[Meant[c]] /\ Alive(q)}
                      ELSE {q \in {attached[Caller[c]]} \ {None} : Pid[q] = Pid[Meant[c]]}
  <2>1. owner \subseteq Servers
    OBVIOUS
  <2> DEFINE found == IF owner = {} THEN None ELSE CHOOSE q \in owner : TRUE
  <2>2. found \in Servers \cup {None}
    BY <2>1
  <2>3. expected' = [expected EXCEPT ![c] = found]
    BY <1>1 DEF Call
  <2>4. UNCHANGED <<peer, open, task, ran, attached>>
    BY <1>1 DEF Call
  <2>5. CASE Answer(c, "not forwarded")
    BY <2>2, <2>3, <2>4, <2>5 DEF Answer
  <2>6. CASE call' = [call EXCEPT ![c] = "verify"] /\ UNCHANGED answer
    BY <2>2, <2>3, <2>4, <2>6
  <2> QED BY <1>1, <2>5, <2>6 DEF Call
<1>2. CASE VerifyFirst(c) \/ VerifyAgain(c)
  BY <1>2 DEF VerifyFirst, VerifyAgain, Verify, Answer
<1>3. CASE Connect(c)
  <2>1. PICK q \in Servers : peer' = [peer EXCEPT ![c] = q]
    BY <1>3 DEF Connect
  <2> QED BY <1>3, <2>1 DEF Connect
<1>8. CASE Send(c)
  BY <1>8 DEF Send
<1>4. CASE Unreachable(c) \/ Lost(c)
  <2>1. /\ call' = [call EXCEPT ![c] = "done"]
        /\ UNCHANGED <<expected, peer, open, task, ran, attached>>
    BY <1>4 DEF Unreachable, Lost, Answer
  <2>2. PICK what \in Answers : answer' = [answer EXCEPT ![c] = what]
    BY <1>4 DEF Unreachable, Lost, Answer
  <2>3. call' \in [Calls -> CallSteps] /\ answer' \in [Calls -> Answers]
    BY <2>1, <2>2
  <2> QED BY <2>1, <2>3
<1>5. CASE Run(c)
  <2>1. peer[c] \in Servers
    BY <1>5 DEF Run, CallInv, ForwardInv
  <2>2. ran' \in [Calls -> SUBSET Servers]
    <3>1. ran[c] \cup {peer[c]} \in SUBSET Servers
      BY <2>1
    <3>2. ran' = ran \/ ran' = [ran EXCEPT ![c] = ran[c] \cup {peer[c]}]
      BY <1>5 DEF Run
    <3> QED BY <3>1, <3>2
  <2>3. task' \in [Calls -> {"none", "begun", "ran", "refused"}]
    BY <1>5 DEF Run
  <2>4. UNCHANGED <<call, expected, peer, open, answer, attached>>
    BY <1>5 DEF Run
  <2> QED BY <2>2, <2>3, <2>4
<1>6. CASE Return(c)
  BY <1>6 DEF Return, Answer
<1>7. CASE Attach(c)
  BY <1>7 DEF Attach, Answer
<1> QED BY <1>1, <1>2, <1>3, <1>4, <1>5, <1>6, <1>7, <1>8 DEF CallMoves

LEMMA CallsKeepServers ==
  ASSUME ServerTypeOK, ServerInv, NEW c \in Calls, CallMoves(c)
  PROVE  ServerTypeOK' /\ ServerInv'
<1>1. /\ UNCHANGED <<pc, file, listener, table, todo, entry, reloads>>
      /\ desktop' \in [Servers -> {"none", "running", "idle", "ended"}]
  BY DEF CallMoves, Call, VerifyFirst, VerifyAgain, Verify, Connect, Unreachable, Send, Run,
     Return, Lost, Attach, serverVars, ServerTypeOK
<1> QED BY <1>1 DEF ServerTypeOK, ServerInv, OneOfPid, SocketInv, SweepInv, ServingIsReachable,
           Serving, Alive, Down

LEMMA CallsStep ==
  ASSUME ServerTypeOK, CallTypeOK, ServerInv, CallInv, NEW c \in Calls, CallMoves(c)
  PROVE  CallInv'
<1>o. ASSUME NEW k \in Calls, k # c
      PROVE  OpenInv(k)' /\ ForwardInv(k)' /\ AnswerInv(k)'
  <2>1. /\ call'[k] = call[k] /\ expected'[k] = expected[k] /\ peer'[k] = peer[k]
        /\ task'[k] = task[k] /\ ran'[k] = ran[k] /\ answer'[k] = answer[k]
        /\ k \in open' <=> k \in open
        /\ pc' = pc
    <3> USE <1>o DEF CallTypeOK, Answer, serverVars
    <3>1. CASE Call(c)
      BY <3>1 DEF Call
    <3>2. CASE VerifyFirst(c) \/ VerifyAgain(c)
      BY <3>2 DEF VerifyFirst, VerifyAgain, Verify
    <3>3. CASE Connect(c)
      BY <3>3 DEF Connect
    <3>4. CASE Unreachable(c) \/ Lost(c)
      BY <3>4 DEF Unreachable, Lost
    <3>5. CASE Send(c) \/ Run(c)
      BY <3>5 DEF Send, Run
    <3>6. CASE Return(c) \/ Attach(c)
      BY <3>6 DEF Return, Attach
    <3> QED BY <3>1, <3>2, <3>3, <3>4, <3>5, <3>6 DEF CallMoves
  <2>2. OpenInv(k) /\ ForwardInv(k) /\ AnswerInv(k)
    BY DEF CallInv
  <2> QED BY <2>1, <2>2 DEF OpenInv, ForwardInv, AnswerInv, Alive
<1>c. OpenInv(c)' /\ ForwardInv(c)' /\ AnswerInv(c)'
  <2>0. OpenInv(c) /\ ForwardInv(c) /\ AnswerInv(c)
    BY DEF CallInv
  <2> USE <2>0 DEF CallTypeOK, OpenInv, ForwardInv, AnswerInv, Alive, Answer, serverVars
  <2>1. CASE Call(c)
    <3> DEFINE owner == IF c \in Attaches
                        THEN {q \in Servers : Pid[q] = Pid[Meant[c]] /\ Alive(q)}
                        ELSE {q \in {attached[Caller[c]]} \ {None} : Pid[q] = Pid[Meant[c]]}
           found == IF owner = {} THEN None ELSE CHOOSE q \in owner : TRUE
    <3>1. \A q \in owner : Pid[q] = Pid[Meant[c]]
      OBVIOUS
    <3>2. owner # {} => found \in owner
      OBVIOUS
    <3>3. found # None => Pid[found] = Pid[Meant[c]]
      BY <3>1, <3>2
    <3>4. /\ call[c] = "new" /\ expected'[c] = found /\ pc' = pc
          /\ UNCHANGED <<peer, open, task, ran>>
          /\ \/ c \in Attaches /\ Answer(c, "not forwarded")
             \/ call' = [call EXCEPT ![c] = "verify"] /\ UNCHANGED answer
      BY <2>1 DEF Call
    <3> HIDE DEF found
    <3>5. c \notin open /\ task[c] = "none" /\ ran[c] = {} /\ answer[c] = "none"
      BY <3>4
    <3>6. /\ call'[c] \in {"verify", "done"}
          /\ answer'[c] = "none" \/ (c \in Attaches /\ call'[c] = "done")
      BY <3>4, <3>5
    <3> QED BY <3>3, <3>4, <3>5, <3>6
  <2>2. CASE VerifyFirst(c)
    BY <2>2 DEF VerifyFirst, Verify
  <2>3. CASE VerifyAgain(c)
    <3>1. CASE expected[c] = None \/ Alive(expected[c])
      <4>1. c \in open /\ expected[c] # None => peer[c] = expected[c]
        BY <3>1 DEF ServerInv, OneOfPid
      <4> QED BY <2>3, <3>1, <4>1 DEF VerifyAgain, Verify
    <3>2. CASE ~(expected[c] = None \/ Alive(expected[c]))
      BY <2>3, <3>2 DEF VerifyAgain, Verify
    <3> QED BY <3>1, <3>2
  <2>4. CASE Connect(c)
    <3>1. PICK q \in Servers : /\ Pid[q] = Pid[Meant[c]] /\ listener[q] # None
                              /\ peer' = [peer EXCEPT ![c] = q]
      BY <2>4 DEF Connect
    <3>2. Alive(q)
      BY <3>1 DEF ServerInv, SocketInv, Down
    <3> QED BY <2>4, <3>1, <3>2 DEF Connect
  <2>5. CASE Unreachable(c)
    BY <2>5 DEF Unreachable
  <2>6. CASE Send(c)
    BY <2>6 DEF Send
  <2>7. CASE Run(c)
    <3>1. /\ task[c] = "begun" /\ UNCHANGED <<pc, call, expected, peer, open, answer>>
          /\ peer[c] \in Servers /\ ran[c] = {}
      BY <2>7 DEF Run
    <3>2. task'[c] = IF Running(peer[c]) THEN "ran" ELSE "refused"
      BY <2>7 DEF Run
    <3>3. CASE c \in Attaches \/ ~Running(peer[c])
      <4>1. ran' = ran
        BY <2>7, <3>3 DEF Run
      <4> QED BY <3>1, <3>2, <3>3, <4>1
    <3>4. CASE ~(c \in Attaches \/ ~Running(peer[c]))
      <4>1. ran' = [ran EXCEPT ![c] = @ \cup {peer[c]}]
        BY <2>7, <3>4 DEF Run
      <4>2. ran'[c] = ran[c] \cup {peer[c]}
        BY <4>1
      <4>3. ran'[c] = {peer[c]} /\ task'[c] = "ran"
        BY <3>1, <3>2, <3>4, <4>2
      <4> QED BY <3>1, <4>3
    <3> QED BY <3>3, <3>4
  <2>8. CASE Return(c)
    BY <2>8 DEF Return
  <2>9. CASE Lost(c)
    BY <2>9 DEF Lost
  <2>10. CASE Attach(c)
    BY <2>10 DEF Attach
  <2> QED BY <2>1, <2>2, <2>3, <2>4, <2>5, <2>6, <2>7, <2>8, <2>9, <2>10 DEF CallMoves
<1> QED BY <1>o, <1>c DEF CallInv

-----------------------------------------------------------------------------
(* Theorems *)

LEMMA IInvStep ==
  ASSUME IInv, [Next]_vars
  PROVE  IInv'
<1> USE DEF IInv
<1>1. ASSUME NEW p \in Servers, ServerMoves(p) PROVE IInv'
  BY <1>1, ServerTypeStep, ServerInvStep, ServersCut, ServersKeepCalls
<1>2. ASSUME NEW c \in Calls, CallMoves(c) PROVE IInv'
  BY <1>2, CallTypeStep, CallsKeepServers, CallsStep
<1>3. CASE UNCHANGED vars
  <2>1. /\ UNCHANGED <<pc, file, listener, table, todo, entry, desktop, reloads>>
        /\ UNCHANGED <<call, expected, peer, open, task, ran, answer, attached>>
    BY <1>3 DEF vars, serverVars, callVars
  <2>2. ServerTypeOK' /\ ServerInv'
    BY <2>1 DEF ServerTypeOK, ServerInv, OneOfPid, SocketInv, SweepInv, ServingIsReachable,
       Serving, Alive, Down
  <2>3. CallTypeOK'
    BY <2>1 DEF CallTypeOK
  <2>4. CallInv'
    BY <2>1 DEF CallInv, OpenInv, ForwardInv, AnswerInv, Alive
  <2> QED BY <2>2, <2>3, <2>4
<1> QED BY <1>1, <1>2, <1>3 DEF Next, ServerMoves, CallMoves

LEMMA Invariance == Spec => []IInv
  BY ControlStart, IInvStep, PTL DEF Spec

(* While a server serves, the socket file of its PID is its own: sweeps    *)
(* that read the directory before, other servers' binds and the shutdowns  *)
(* of its PID's earlier processes leave it alone.                          *)
THEOREM ServersAreReachable == Spec => []ServingIsReachable
<1>1. IInv => ServingIsReachable
  BY DEF IInv, ServerInv
<1> QED BY <1>1, Invariance, PTL

(* A call forwarded for an attached session runs in the attached process   *)
(* or nowhere, whoever has its PID by then.                                *)
THEOREM CallsReachTheAttached == Spec => []ReachesTheAttached
<1>1. IInv => ReachesTheAttached
  BY DEF IInv, CallInv, ForwardInv, ReachesTheAttached
<1> QED BY <1>1, Invariance, PTL

(* "Not forwarded" and "unknown session" are said only of calls that have  *)
(* not run and never will, and an answer only of one that ran.             *)
THEOREM AnswersAreTrue == Spec => []AnswersTellTheTruth
<1>1. IInv => AnswersTellTheTruth
  BY DEF IInv, CallInv, ForwardInv, AnswerInv, AnswersTellTheTruth
<1> QED BY <1>1, Invariance, PTL
=============================================================================
