------------------------ MODULE DesktopProcessesProofs ------------------------
(***************************************************************************)
(* Which of a desktop's processes somebody answers for, for any viewers:   *)
(* every running process has an owner that will end it, but for the one    *)
(* that goes astray with the future of a dropped start, no second viewer   *)
(* runs, and the files outlive the sandbox that writes them.               *)
(*                                                                         *)
(* IInv says who the owner is. The startup guard owns until the start is   *)
(* over and the Session from then on. Between its spawn and the guard a    *)
(* process is on the main thread, in the channel or a local of the start,  *)
(* and is the only such process, so a dropped start lets go of no other. A *)
(* viewer is with the one viewer tool (which has taken it out of the       *)
(* Session) or in the Session, never both, and while the tool has one the  *)
(* Session shows none that runs. The teardown leaves behind only what it   *)
(* has ended, the sandbox before the files.                                *)
(***************************************************************************)
EXTENDS DesktopProcesses, FiniteSetTheorems, TLAPS

Started == Services \cup {"sandbox"}

USE ProcessesAssumption
USE DEF Started, startVars, bootVars, viewerVars, endVars, startRest, callRest, endRest, tearRest,
        GoTo, Tear, LeaveCall, Request, Children, Services, Proxies

StartStages == Fallible \cup {"spawning", "published", "cleaning", "failed"}
CallStages  == {"idle", "open", "close", "stale", "respawning", "spawning", "placing",
                "watching", "returning", "closing"}
Teardown    == {"none", "browsers", "cdp", "signal", "wallet", "viewer", "scope", "sandbox",
                "services", "files", "done"}

ProcTypeOK ==
  /\ proc \in [Children -> {"none", "up", "killed", "gone"}]
  /\ owner \in [Children -> {"nobody", "channel", "local", "startup", "call", "session",
                         "closer"}]

TypeOK ==
  /\ ProcTypeOK
  /\ ask \in [Children -> {"none", "queued", "spawned", "sent"}]
  /\ start \in StartStages /\ child \in Started /\ strayed \in SUBSET Started
  /\ boot \in {"off", "bus", "kwin"} /\ bridge \in BOOLEAN /\ workdir \in BOOLEAN
  /\ gate \in {"start", "free", "viewer", "stop"}
  /\ desktop \in {"absent", "published", "taken"}
  /\ shown \in Viewers \cup {NoViewer} /\ held \in Viewers \cup {NoViewer}
  /\ call \in CallStages /\ report \in [Viewers -> {"none", "starting", "ready", "failed"}]
  /\ teardown \in Teardown /\ stop \in {"idle", "entered", "tearing", "done"}
  /\ saved \in BOOLEAN

(* The Session is there from the end of a start; a stop that is past       *)
(* taking it, and a failed start, leave none to take.                      *)
DesktopInv ==
  /\ desktop # "absent" <=> start = "published"
  /\ teardown # "none" <=> desktop = "taken"
  /\ stop # "idle" => start \in {"published", "failed"}
  /\ stop \in {"tearing", "done"} /\ start = "published" => teardown # "none"

(* What the guard holds while the start runs, and the Session afterwards,  *)
(* and what is on its way there.                                           *)
HolderInv ==
  /\ \A c \in Children :
       /\ owner[c] = "local" => c \in Proxies /\ c = child /\ start = "awaiting"
       /\ owner[c] = "channel" => ask[c] = "sent"
       /\ owner[c] = "startup" => c \notin Viewers /\ start \notin {"published", "failed"}
       /\ owner[c] = "session" => start = "published"
  /\ \A c \in Started :
       /\ proc[c] = "up" /\ ask[c] # "spawned" =>
            owner[c] \in {"channel", "local", "startup", "session", "closer"} \/ c \in strayed
       /\ ask[c] = "sent" => start = "spawning" /\ child = c
       /\ ask[c] # "none" => (start = "spawning" /\ child = c) \/ start \in {"cleaning", "failed"}
  /\ start \in {"preparing", "scanning", "configuring"} => child = "systemProxy"
  /\ strayed # {} => start \in {"cleaning", "failed"} /\ strayed = {child}

(* The teardown leaves behind what it has ended.                           *)
TeardownInv ==
  /\ teardown \in {"scope", "sandbox", "services", "files", "done"} =>
       \A v \in Viewers : owner[v] # "session"
  /\ teardown \in {"services", "files", "done"} =>
       proc["sandbox"] # "up" /\ owner["sandbox"] # "session"
  /\ teardown \in {"files", "done"} => \A c \in Services : owner[c] # "session"

FilesInv ==
  /\ saved => teardown \in {"files", "done"}
  /\ start \notin {"preparing", "cleaning", "failed", "published"} => workdir
  /\ start = "published" /\ ~workdir => teardown = "done"

(* A running viewer is in the Session, or with the one tool that is about  *)
(* to put it there; while the tool has one, the Session has none that runs.*)
HeldByCall == {"placing", "stale", "watching", "returning", "closing"}
ViewerInv ==
  /\ \A v \in Viewers :
       /\ ask[v] # "none" => call = "spawning" /\ held = v
       /\ ask[v] \in {"spawned", "sent"} => proc[v] # "none"
       /\ owner[v] = "call" => call \in HeldByCall /\ held = v
       /\ owner[v] = "session" => shown = v
       /\ proc[v] = "up" => \/ held = v /\ (ask[v] = "spawned" \/ owner[v] \in {"channel", "call"})
                            \/ shown = v /\ owner[v] = "session"
  /\ held # NoViewer =>
       /\ held # shown
       /\ call \in HeldByCall \cup {"spawning"}
       /\ call # "spawning" => proc[held] # "none"
  /\ held # NoViewer \/ call = "placing" => shown = NoViewer \/ proc[shown] # "up"
  /\ shown # NoViewer => proc[shown] # "none"
  /\ call \in {"spawning", "stale", "watching", "closing"} => held # NoViewer
  /\ call \in {"stale", "respawning", "watching", "returning", "closing"} => shown = NoViewer

IInv == TypeOK /\ DesktopInv /\ HolderInv /\ TeardownInv /\ FilesInv /\ ViewerInv

(* What terminating a process comes to: it does not run on, and is held by *)
(* nobody any more or by the thread that waits for its end.                *)
Ends(c) ==
  /\ proc'[c] \in {"killed", "gone"} /\ owner'[c] \in {"nobody", "closer"}
  /\ \A d \in Children : d # c => proc'[d] = proc[d] /\ owner'[d] = owner[d]

EndsIfAny(v) == IF v = NoViewer THEN UNCHANGED <<proc, owner>> ELSE Ends(v)

LEMMA TerminateEnds ==
  ASSUME ProcTypeOK, NEW c \in Children, Terminate(c)
  PROVE  ProcTypeOK' /\ Ends(c)
  BY DEF ProcTypeOK, Terminate, Ends

(* The steps that end a process, and which.                                *)
LEMMA EndingSteps ==
  ASSUME IInv
  PROVE  /\ OpenEndsStale \/ OpenGivesUp \/ CloseEnds => ProcTypeOK' /\ held \in Viewers /\ Ends(held)
         /\ OpenFindsNoSession \/ OpenEndsOrphan => ProcTypeOK' /\ EndsIfAny(held)
         /\ EndViewer => ProcTypeOK' /\ EndsIfAny(shown)
         /\ EndSandbox => ProcTypeOK' /\ Ends("sandbox")
         /\ \A c \in Children :
              Close(c) \/ CleanUp(c) \/ EndService(c) => ProcTypeOK' /\ Ends(c)
<1>. ProcTypeOK /\ held \in Viewers \cup {NoViewer} /\ shown \in Viewers \cup {NoViewer}
  BY DEF IInv, TypeOK
<1>1. OpenEndsStale \/ OpenGivesUp \/ CloseEnds => ProcTypeOK' /\ held \in Viewers /\ Ends(held)
  <2>1. OpenEndsStale \/ OpenGivesUp \/ CloseEnds => Terminate(held) /\ held # NoViewer
    BY DEF OpenEndsStale, OpenGivesUp, CloseEnds, IInv, ViewerInv
  <2>. QED
    BY <2>1, TerminateEnds
<1>2. ASSUME NEW v \in Viewers \cup {NoViewer},
             IF v = NoViewer THEN UNCHANGED <<proc, owner>> ELSE Terminate(v)
      PROVE  ProcTypeOK' /\ EndsIfAny(v)
  <2>1. CASE v = NoViewer
    BY <1>2, <2>1 DEF EndsIfAny, ProcTypeOK
  <2>2. CASE v # NoViewer
    BY <1>2, <2>2, TerminateEnds DEF EndsIfAny
  <2>. QED
    BY <2>1, <2>2
<1>3. OpenFindsNoSession \/ OpenEndsOrphan => ProcTypeOK' /\ EndsIfAny(held)
  BY <1>2 DEF OpenFindsNoSession, OpenEndsOrphan
<1>4. EndViewer => ProcTypeOK' /\ EndsIfAny(shown)
  BY <1>2 DEF EndViewer
<1>5. EndSandbox => ProcTypeOK' /\ Ends("sandbox")
  BY TerminateEnds DEF EndSandbox
<1>6. ASSUME NEW c \in Children
      PROVE  Close(c) \/ CleanUp(c) \/ EndService(c) => ProcTypeOK' /\ Ends(c)
  BY TerminateEnds DEF Close, CleanUp, EndService
<1>. QED
  BY <1>1, <1>3, <1>4, <1>5, <1>6

(* Nothing ever turns into another state of a process or another owner.    *)
LEMMA ProcTypeStep == IInv /\ [Next]_vars => ProcTypeOK'
<1> SUFFICES ASSUME IInv, [Next]_vars PROVE ProcTypeOK'
  OBVIOUS
<1>. TypeOK /\ ProcTypeOK
  BY DEF IInv, TypeOK
<1>0. CASE UNCHANGED <<proc, owner>>
  BY <1>0 DEF ProcTypeOK
<1>1. CASE MainStep \/ \E c \in Children : Receive(c)
  BY <1>1 DEF MainStep, Spawn, Send, Receive, SpawnFails, TakerOf, ProcTypeOK
<1>2. CASE KernelStep \/ \E c \in Children : Exits(c)
  BY <1>2, EndingSteps DEF KernelStep, KernelEnds, Exits, ProcTypeOK
<1>3. CASE ReadyStep
  BY <1>3 DEF ReadyStep, PrepareWorkdir, ScanHost, Configure, SystemProxyReady, WalletBusReady,
              MediatorReady, WalletProxyReady, ComposeCommand, BindPaths, Launch, BusReady,
              ClaimName, CompositorReady, NegotiateInput, Publish, ProcTypeOK
<1>4. CASE StartFails \/ StartTimesOut
  BY <1>4 DEF StartFails, StartTimesOut, ProcTypeOK
<1>5. CASE CleanStep
  BY <1>0, <1>5, EndingSteps DEF CleanStep, CleanedUp
<1>6. CASE OpenStep
  <2>1. CASE OpenEndsStale \/ OpenGivesUp \/ OpenFindsNoSession \/ OpenEndsOrphan
    BY <2>1, EndingSteps
  <2>2. CASE OpenTakesRunning \/ OpenPlaces \/ OpenPutsBack
    BY <2>2 DEF OpenTakesRunning, OpenPlaces, OpenPutsBack, ProcTypeOK
  <2>3. CASE \/ OpenAnswersAtOnce \/ OpenCannotSpawn \/ OpenSeesReady
             \/ \E v \in Viewers : OpenSpawns(v) \/ OpenRespawns(v)
    BY <1>0, <2>3 DEF OpenAnswersAtOnce, OpenCannotSpawn, OpenSeesReady, OpenSpawns, OpenRespawns
  <2>. QED
    BY <1>6, <2>1, <2>2, <2>3 DEF OpenStep
<1>7. CASE CloseStep
  BY <1>7, EndingSteps DEF CloseStep, CloseTakes, ProcTypeOK
<1>8. CASE RefreshViewer
  BY <1>8 DEF RefreshViewer, ProcTypeOK
<1>9. CASE TearStep
  <2>1. CASE EndViewer \/ EndSandbox \/ \E c \in Services : EndService(c)
    BY <2>1, EndingSteps
  <2>2. CASE StopScope
    BY <2>2 DEF StopScope, ProcTypeOK
  <2>3. CASE AskKwin \/ AskCdp \/ WaitForBrowsers \/ StopWallet \/ SaveCookies \/ RemoveTwin
    BY <1>0, <2>3 DEF AskKwin, AskCdp, WaitForBrowsers, StopWallet, SaveCookies, RemoveTwin
  <2>. QED
    BY <1>9, <2>1, <2>2, <2>3 DEF TearStep
<1>. QED
  BY <1>0, <1>1, <1>2, <1>3, <1>4, <1>5, <1>6, <1>7, <1>8, <1>9
  DEF Next, vars, Boot, EnterCall, ViewerReports, CheckLiveness, StopEnter, StopTake, StopRemove

LEMMA TypeStep == IInv /\ [Next]_vars => TypeOK'
<1> SUFFICES ASSUME IInv, [Next]_vars PROVE TypeOK'
  OBVIOUS
<1>. TypeOK /\ ProcTypeOK'
  BY ProcTypeStep DEF IInv
<1>h. held # NoViewer => held \in Viewers
  BY DEF TypeOK
<1> USE DEF TypeOK, StartStages, CallStages, Teardown, Fallible
<1>0. CASE UNCHANGED vars
  BY <1>0 DEF vars
<1>1. CASE MainStep \/ \E c \in Children : Receive(c)
  <2>1. CASE \E c \in Children : Spawn(c)
    <3>1. PICK c \in Children, a \in {"spawned", "none"} :
            /\ ask' = [ask EXCEPT ![c] = a]
            /\ UNCHANGED <<start, child, strayed, boot, bridge, workdir, gate, desktop, shown, call, held,
                           report, teardown, stop, saved>>
      BY <2>1 DEF Spawn
    <3>. QED
      BY <3>1
  <2>2. CASE \E c \in Children : Send(c)
    <3>1. PICK c \in Children, a \in {"sent", "none"} :
            /\ ask' = [ask EXCEPT ![c] = a]
            /\ UNCHANGED <<start, child, strayed, boot, bridge, workdir, gate, desktop, shown, call,
                           held, report, teardown, stop, saved>>
      BY <2>2 DEF Send
    <3>. QED
      BY <3>1
  <2>4. CASE \E c \in Children : Receive(c)
    BY <2>4 DEF Receive
  <2>3. CASE \E c \in Children : SpawnFails(c)
    BY <2>3 DEF SpawnFails, Expected
  <2>. QED
    BY <1>1, <2>1, <2>2, <2>3, <2>4 DEF MainStep
<1>2. CASE KernelStep \/ (\E c \in Children : Exits(c)) \/ RefreshViewer
  <2>1. CASE KernelStep
    <3>. UNCHANGED <<ask, start, child, strayed, boot, bridge, workdir, gate, desktop, shown, call,
                     held, report, teardown, stop, saved>>
      BY <2>1 DEF KernelStep, Close, KernelEnds
    <3>. QED
      OBVIOUS
  <2>2. CASE \E c \in Children : Exits(c)
    BY <2>2 DEF Exits
  <2>3. CASE RefreshViewer
    BY <2>3 DEF RefreshViewer
  <2>. QED
    BY <1>2, <2>1, <2>2, <2>3
<1>3. CASE ReadyStep
  <2>1. CASE PrepareWorkdir
    BY <2>1 DEF PrepareWorkdir
  <2>2. CASE ScanHost
    BY <2>2 DEF ScanHost
  <2>3. CASE Configure
    BY <2>3 DEF Configure
  <2>4. CASE SystemProxyReady
    BY <2>4 DEF SystemProxyReady
  <2>5. CASE WalletBusReady
    BY <2>5 DEF WalletBusReady
  <2>6. CASE MediatorReady
    BY <2>6 DEF MediatorReady
  <2>7. CASE WalletProxyReady
    BY <2>7 DEF WalletProxyReady
  <2>8. CASE ComposeCommand
    BY <2>8 DEF ComposeCommand
  <2>9. CASE BindPaths
    BY <2>9 DEF BindPaths
  <2>10. CASE Launch
    BY <2>10 DEF Launch
  <2>11. CASE BusReady
    BY <2>11 DEF BusReady
  <2>12. CASE ClaimName
    BY <2>12 DEF ClaimName
  <2>13. CASE CompositorReady
    BY <2>13 DEF CompositorReady
  <2>14. CASE NegotiateInput
    BY <2>14 DEF NegotiateInput
  <2>15. CASE Publish
    BY <2>15 DEF Publish
  <2>. QED
    BY <1>3, <2>1, <2>2, <2>3, <2>4, <2>5, <2>6, <2>7, <2>8, <2>9, <2>10, <2>11, <2>12, <2>13, <2>14, <2>15 DEF ReadyStep
<1>4. CASE StartFails \/ StartTimesOut \/ CleanStep \/ Boot
  <2>1. CASE StartFails
    BY <2>1 DEF StartFails
  <2>2. CASE StartTimesOut
    <3>1. InFuture \subseteq Started
      BY DEF InFuture
    <3>2. ask' \in [Children -> {"none", "queued", "spawned", "sent"}]
      BY <2>2 DEF StartTimesOut
    <3>. QED
      BY <2>2, <3>1, <3>2 DEF StartTimesOut
  <2>3. CASE CleanedUp
    BY <2>3 DEF CleanedUp
  <2>4. CASE \E c \in Services \cup {"sandbox"} : CleanUp(c)
    BY <2>4 DEF CleanUp
  <2>5. CASE Boot
    BY <2>5 DEF Boot
  <2>. QED
    BY <1>4, <2>1, <2>2, <2>3, <2>4, <2>5 DEF CleanStep
<1>5. CASE \E tool \in {"open", "close"} : EnterCall(tool)
  BY <1>5 DEF EnterCall
<1>6. CASE OpenStep
  <2>1. CASE OpenAnswersAtOnce
    BY <2>1 DEF OpenAnswersAtOnce
  <2>2. CASE OpenTakesRunning
    BY <2>2 DEF OpenTakesRunning, Running
  <2>3. CASE OpenEndsStale
    BY <2>3 DEF OpenEndsStale
  <2>4. CASE OpenCannotSpawn
    BY <2>4 DEF OpenCannotSpawn
  <2>5. CASE OpenFindsNoSession
    BY <2>5 DEF OpenFindsNoSession
  <2>6. CASE OpenPlaces
    BY <2>6 DEF OpenPlaces
  <2>7. CASE OpenSeesReady
    BY <2>7 DEF OpenSeesReady
  <2>8. CASE OpenGivesUp
    BY <2>8 DEF OpenGivesUp
  <2>9. CASE OpenPutsBack
    BY <2>9 DEF OpenPutsBack
  <2>10. CASE OpenEndsOrphan
    BY <2>10 DEF OpenEndsOrphan
  <2>11. CASE \E v \in Viewers : OpenSpawns(v)
    BY <2>11 DEF OpenSpawns, NewViewer
  <2>12. CASE \E v \in Viewers : OpenRespawns(v)
    BY <2>12 DEF OpenRespawns, NewViewer
  <2>. QED
    BY <1>6, <2>1, <2>2, <2>3, <2>4, <2>5, <2>6, <2>7, <2>8, <2>9, <2>10, <2>11, <2>12 DEF OpenStep
<1>7. CASE CloseStep
  <2>1. CASE CloseTakes
    BY <2>1 DEF CloseTakes
  <2>2. CASE CloseEnds
    BY <2>2 DEF CloseEnds
  <2>. QED
    BY <1>7, <2>1, <2>2 DEF CloseStep
<1>8. CASE \E v \in Viewers, state \in {"ready", "failed"} : ViewerReports(v, state)
  BY <1>8 DEF ViewerReports
<1>9. CASE CheckLiveness \/ StopEnter \/ StopTake \/ StopRemove
  <2>1. CASE CheckLiveness
    BY <2>1 DEF CheckLiveness
  <2>2. CASE StopEnter
    BY <2>2 DEF StopEnter
  <2>3. CASE StopTake
    BY <2>3 DEF StopTake
  <2>4. CASE StopRemove
    BY <2>4 DEF StopRemove
  <2>. QED
    BY <1>9, <2>1, <2>2, <2>3, <2>4
<1>10. CASE TearStep
  <2>1. CASE AskKwin
    BY <2>1 DEF AskKwin
  <2>2. CASE AskCdp
    BY <2>2 DEF AskCdp
  <2>3. CASE WaitForBrowsers
    BY <2>3 DEF WaitForBrowsers
  <2>4. CASE StopWallet
    BY <2>4 DEF StopWallet
  <2>5. CASE EndViewer
    BY <2>5 DEF EndViewer
  <2>6. CASE StopScope
    BY <2>6 DEF StopScope
  <2>7. CASE EndSandbox
    BY <2>7 DEF EndSandbox
  <2>8. CASE SaveCookies
    BY <2>8 DEF SaveCookies
  <2>9. CASE RemoveTwin
    BY <2>9 DEF RemoveTwin
  <2>10. CASE \E c \in Services : EndService(c)
    BY <2>10 DEF EndService
  <2>. QED
    BY <1>10, <2>1, <2>2, <2>3, <2>4, <2>5, <2>6, <2>7, <2>8, <2>9, <2>10 DEF TearStep
<1>. QED
  BY <1>0, <1>1, <1>2, <1>3, <1>4, <1>5, <1>6, <1>7, <1>8, <1>9, <1>10 DEF Next

LEMMA DesktopStep == IInv /\ [Next]_vars => DesktopInv'
<1> SUFFICES ASSUME IInv, [Next]_vars PROVE DesktopInv'
  OBVIOUS
<1> USE DEF IInv, DesktopInv
<1>0. CASE UNCHANGED <<start, desktop, teardown, stop>>
  BY <1>0
<1>1. CASE MainStep \/ \E c \in Children : Receive(c)
  BY <1>1 DEF MainStep, Spawn, Send, Receive, SpawnFails
<1>2. CASE ReadyStep
  BY <1>2 DEF ReadyStep, PrepareWorkdir, ScanHost, Configure, SystemProxyReady, WalletBusReady,
              MediatorReady, WalletProxyReady, ComposeCommand, BindPaths, Launch, BusReady,
              ClaimName, CompositorReady, NegotiateInput, Publish
<1>3. CASE StartFails \/ StartTimesOut \/ CleanStep
  BY <1>3 DEF StartFails, StartTimesOut, CleanStep, CleanedUp, CleanUp, Fallible, Awaits
<1>4. CASE KernelStep \/ (\E c \in Children : Exits(c)) \/ RefreshViewer \/ Boot
  BY <1>0, <1>4 DEF KernelStep, Close, KernelEnds, Exits, RefreshViewer, Boot
<1>5. CASE OpenStep \/ CloseStep
  BY <1>0, <1>5 DEF OpenStep, OpenAnswersAtOnce, OpenTakesRunning, OpenEndsStale, OpenCannotSpawn,
              OpenFindsNoSession, OpenPlaces, OpenSeesReady, OpenGivesUp, OpenPutsBack,
              OpenEndsOrphan, OpenSpawns, OpenRespawns, NewViewer, CloseStep, CloseTakes, CloseEnds
<1>6. CASE TearStep
  BY <1>6 DEF TearStep, AskKwin, AskCdp, WaitForBrowsers, StopWallet, EndViewer, StopScope,
              EndSandbox, SaveCookies, RemoveTwin, EndService
<1>7. CASE CheckLiveness \/ StopEnter \/ StopTake \/ StopRemove
  BY <1>7 DEF CheckLiveness, StopEnter, StopTake, StopRemove, TypeOK
<1>. QED
  BY <1>0, <1>1, <1>2, <1>3, <1>4, <1>5, <1>6, <1>7 DEF Next, vars, EnterCall, ViewerReports

LEMMA EndingKeepsHolders ==
  ASSUME IInv, NEW c \in Children, Ends(c), UNCHANGED <<ask, start, child, strayed>>
  PROVE  HolderInv'
  BY DEF IInv, HolderInv, Ends

LEMMA HolderStep == IInv /\ [Next]_vars => HolderInv'
<1> SUFFICES ASSUME IInv, [Next]_vars PROVE HolderInv'
  OBVIOUS
<1>. TypeOK /\ ProcTypeOK /\ DesktopInv /\ HolderInv
  BY DEF IInv, TypeOK
<1>0. CASE UNCHANGED <<proc, owner, ask, start, child, strayed>>
  BY <1>0 DEF HolderInv
<1>1. CASE MainStep \/ \E c \in Children : Receive(c)
  <2>1. CASE \E c \in Children : Spawn(c)
    BY <2>1 DEF Spawn, Expected, HolderInv, TypeOK, ProcTypeOK
  <2>2. CASE \E c \in Children : Send(c)
    BY <2>2 DEF Send, Expected, HolderInv, TypeOK, ProcTypeOK
  <2>4. CASE \E c \in Children : Receive(c)
    BY <2>4 DEF Receive, TakerOf, HolderInv, TypeOK, ProcTypeOK
  <2>3. CASE \E c \in Children : SpawnFails(c)
    BY <2>3 DEF SpawnFails, Expected, HolderInv, TypeOK, ProcTypeOK
  <2>. QED
    BY <1>1, <2>1, <2>2, <2>3, <2>4 DEF MainStep
<1>2. CASE KernelStep \/ \E c \in Children : Exits(c)
  <2>1. CASE \E c \in Children : Close(c)
    BY <2>1, EndingSteps, EndingKeepsHolders DEF Close
  <2>2. CASE \E c \in Children : KernelEnds(c) \/ Exits(c)
    BY <2>2 DEF KernelEnds, Exits, HolderInv, ProcTypeOK
  <2>. QED
    BY <1>2, <2>1, <2>2 DEF KernelStep
<1>3. CASE ReadyStep
  <2>1. CASE Publish
    BY <2>1 DEF Publish, HolderInv, ProcTypeOK
  <2>2. CASE Configure \/ SystemProxyReady \/ MediatorReady \/ Launch
    <3>1. PICK c \in Services \cup {"sandbox"} :
            /\ ask' = [ask EXCEPT ![c] = "queued"]
            /\ start' = "spawning" /\ UNCHANGED proc
            /\ \/ c = child /\ UNCHANGED <<child, owner>>
               \/ child' = c /\ owner' = owner
               \/ child' = c /\ owner' = [owner EXCEPT !["systemProxy"] = "startup"]
      BY <2>2 DEF Configure, SystemProxyReady, MediatorReady, Launch, HolderInv
    <3>3. (\A d \in Children : owner'[d] # "local") /\ strayed' = strayed
      BY <2>2 DEF Configure, SystemProxyReady, MediatorReady, Launch, HolderInv, ProcTypeOK
    <3>2. /\ start \notin {"spawning", "cleaning", "failed", "published"}
          /\ \A d \in Services \cup {"sandbox"} : ask[d] = "none"
      BY <2>2 DEF Configure, SystemProxyReady, MediatorReady, Launch, HolderInv, TypeOK
    <3>. QED
      BY <3>1, <3>2, <3>3 DEF HolderInv, TypeOK, ProcTypeOK
  <2>3. CASE WalletProxyReady
    BY <2>3 DEF WalletProxyReady, HolderInv, ProcTypeOK
  <2>4. CASE \/ PrepareWorkdir \/ ScanHost \/ WalletBusReady \/ ComposeCommand \/ BindPaths
             \/ BusReady \/ ClaimName \/ CompositorReady \/ NegotiateInput
    BY <2>4 DEF PrepareWorkdir, ScanHost, WalletBusReady, ComposeCommand, BindPaths, BusReady,
                ClaimName, CompositorReady, NegotiateInput, HolderInv
  <2>. QED
    BY <1>3, <2>1, <2>2, <2>3, <2>4 DEF ReadyStep
<1>4. CASE StartFails \/ StartTimesOut
  <2>1. CASE StartFails
    BY <2>1 DEF StartFails, HolderInv, TypeOK, ProcTypeOK, Fallible
  <2>2. CASE StartTimesOut
    <3>1. InFuture \subseteq {child} /\ strayed = {}
      BY <2>2 DEF StartTimesOut, InFuture, Awaits, HolderInv
    <3>. QED
      BY <2>2, <3>1 DEF StartTimesOut, InFuture, Awaits, HolderInv, TypeOK, ProcTypeOK
  <2>. QED
    BY <1>4, <2>1, <2>2
<1>5. CASE CleanStep
  <2>1. CASE CleanedUp
    BY <2>1 DEF CleanedUp, HolderInv
  <2>2. CASE \E c \in Services \cup {"sandbox"} : CleanUp(c)
    BY <2>2, EndingSteps, EndingKeepsHolders DEF CleanUp
  <2>. QED
    BY <1>5, <2>1, <2>2 DEF CleanStep
<1>6. CASE OpenStep
  <2>1. CASE OpenEndsStale \/ OpenGivesUp
    BY <2>1, EndingSteps, EndingKeepsHolders DEF OpenEndsStale, OpenGivesUp
  <2>2. CASE OpenFindsNoSession \/ OpenEndsOrphan
    BY <1>0, <2>2, EndingSteps, EndingKeepsHolders
    DEF OpenFindsNoSession, OpenEndsOrphan, EndsIfAny, TypeOK
  <2>3. CASE OpenTakesRunning
    BY <2>3 DEF OpenTakesRunning, Running, HolderInv, ProcTypeOK
  <2>4. CASE OpenPlaces
    BY <2>4 DEF OpenPlaces, HolderInv, TypeOK, ProcTypeOK
  <2>5. CASE OpenPutsBack
    BY <2>5 DEF OpenPutsBack, HolderInv, DesktopInv, TypeOK, ProcTypeOK
  <2>6. CASE \E v \in Viewers : OpenSpawns(v) \/ OpenRespawns(v)
    BY <2>6 DEF OpenSpawns, OpenRespawns, NewViewer, HolderInv, TypeOK, ProcTypeOK
  <2>7. CASE OpenAnswersAtOnce \/ OpenCannotSpawn \/ OpenSeesReady
    BY <1>0, <2>7 DEF OpenAnswersAtOnce, OpenCannotSpawn, OpenSeesReady
  <2>. QED
    BY <1>6, <2>1, <2>2, <2>3, <2>4, <2>5, <2>6, <2>7 DEF OpenStep
<1>7. CASE CloseStep
  <2>1. CASE CloseTakes
    BY <2>1 DEF CloseTakes, HolderInv, TypeOK, ProcTypeOK
  <2>2. CASE CloseEnds
    BY <2>2, EndingSteps, EndingKeepsHolders DEF CloseEnds
  <2>. QED
    BY <1>7, <2>1, <2>2 DEF CloseStep
<1>8. CASE RefreshViewer
  BY <1>8 DEF RefreshViewer, HolderInv, TypeOK, ProcTypeOK
<1>9. CASE TearStep
  <2>1. CASE EndViewer
    BY <1>0, <2>1, EndingSteps, EndingKeepsHolders DEF EndViewer, EndsIfAny, TypeOK
  <2>2. CASE EndSandbox \/ \E c \in Services : EndService(c)
    BY <2>2, EndingSteps, EndingKeepsHolders DEF EndSandbox, EndService
  <2>3. CASE StopScope
    BY <2>3 DEF StopScope, HolderInv, ProcTypeOK
  <2>4. CASE AskKwin \/ AskCdp \/ WaitForBrowsers \/ StopWallet \/ SaveCookies \/ RemoveTwin
    BY <1>0, <2>4 DEF AskKwin, AskCdp, WaitForBrowsers, StopWallet, SaveCookies, RemoveTwin
  <2>. QED
    BY <1>9, <2>1, <2>2, <2>3, <2>4 DEF TearStep
<1>. QED
  BY <1>0, <1>1, <1>2, <1>3, <1>4, <1>5, <1>6, <1>7, <1>8, <1>9
  DEF Next, vars, Boot, EnterCall, ViewerReports, CheckLiveness, StopEnter, StopTake, StopRemove

(* A step that starts no process and gives the Session none.               *)
OnlyLess ==
  /\ \A c \in Children : /\ proc'[c] = "up" => proc[c] = "up"
                         /\ owner'[c] = "session" => owner[c] = "session"
  /\ teardown' = teardown

LEMMA LessKeepsTeardown == ASSUME IInv, OnlyLess PROVE TeardownInv'
  BY DEF IInv, TeardownInv, OnlyLess

LEMMA TeardownStep == IInv /\ [Next]_vars => TeardownInv'
<1> SUFFICES ASSUME IInv, [Next]_vars PROVE TeardownInv'
  OBVIOUS
<1>. TypeOK /\ ProcTypeOK /\ DesktopInv /\ TeardownInv
  BY DEF IInv, TypeOK
<1>e. ASSUME NEW c \in Children, Ends(c), teardown' = teardown
      PROVE  TeardownInv'
  <2>. OnlyLess
    BY <1>e DEF OnlyLess, Ends
  <2>. QED
    BY LessKeepsTeardown
<1>0. CASE UNCHANGED <<proc, owner, teardown>>
  BY <1>0 DEF TeardownInv
<1>1. CASE MainStep \/ \E c \in Children : Receive(c)
  <2>1. CASE \E c \in Children : Spawn(c)
    BY <2>1 DEF Spawn, Expected, DesktopInv, TeardownInv, TypeOK, ProcTypeOK
  <2>2. CASE \E c \in Children : Send(c) \/ Receive(c)
    BY <2>2 DEF Send, Receive, TakerOf, TeardownInv, ProcTypeOK
  <2>3. CASE \E c \in Children : SpawnFails(c)
    BY <1>0, <2>3 DEF SpawnFails
  <2>. QED
    BY <1>1, <2>1, <2>2, <2>3 DEF MainStep
<1>2. CASE KernelStep \/ \E c \in Children : Exits(c)
  <2>1. CASE \E c \in Children : Close(c)
    BY <2>1, <1>e, EndingSteps DEF Close
  <2>2. CASE \E c \in Children : KernelEnds(c) \/ Exits(c)
    <3>. OnlyLess
      BY <2>2 DEF KernelEnds, Exits, OnlyLess, ProcTypeOK
    <3>. QED
      BY LessKeepsTeardown
  <2>. QED
    BY <1>2, <2>1, <2>2 DEF KernelStep
<1>3. CASE ReadyStep
  <2>1. CASE Publish
    BY <2>1 DEF Publish, DesktopInv, TeardownInv, ProcTypeOK
  <2>2. CASE ~Publish
    <3>. OnlyLess
      BY <1>3, <2>2
      DEF ReadyStep, PrepareWorkdir, ScanHost, Configure, SystemProxyReady, WalletBusReady,
          MediatorReady, WalletProxyReady, ComposeCommand, BindPaths, Launch, BusReady, ClaimName,
          CompositorReady, NegotiateInput, OnlyLess, ProcTypeOK
    <3>. QED
      BY LessKeepsTeardown
  <2>. QED
    BY <2>1, <2>2
<1>4. CASE StartFails \/ StartTimesOut
  <2>. OnlyLess
    BY <1>4 DEF StartFails, StartTimesOut, OnlyLess, ProcTypeOK
  <2>. QED
    BY LessKeepsTeardown
<1>5. CASE CleanStep
  BY <1>0, <1>5, <1>e, EndingSteps DEF CleanStep, CleanedUp, CleanUp
<1>6. CASE OpenStep
  <2>1. CASE OpenEndsStale \/ OpenGivesUp
    BY <2>1, <1>e, EndingSteps DEF OpenEndsStale, OpenGivesUp
  <2>2. CASE OpenFindsNoSession \/ OpenEndsOrphan
    BY <1>0, <1>e, <2>2, EndingSteps DEF OpenFindsNoSession, OpenEndsOrphan, EndsIfAny, TypeOK
  <2>3. CASE OpenTakesRunning \/ OpenPlaces
    <3>. OnlyLess
      BY <2>3 DEF OpenTakesRunning, OpenPlaces, OnlyLess, ProcTypeOK
    <3>. QED
      BY LessKeepsTeardown
  <2>4. CASE OpenPutsBack
    BY <2>4 DEF OpenPutsBack, DesktopInv, TeardownInv, TypeOK, ProcTypeOK
  <2>5. CASE \/ OpenAnswersAtOnce \/ OpenCannotSpawn \/ OpenSeesReady
             \/ \E v \in Viewers : OpenSpawns(v) \/ OpenRespawns(v)
    BY <1>0, <2>5 DEF OpenAnswersAtOnce, OpenCannotSpawn, OpenSeesReady, OpenSpawns, OpenRespawns
  <2>. QED
    BY <1>6, <2>1, <2>2, <2>3, <2>4, <2>5 DEF OpenStep
<1>7. CASE CloseStep
  <2>1. CASE CloseTakes
    <3>. OnlyLess
      BY <2>1 DEF CloseTakes, OnlyLess, ProcTypeOK
    <3>. QED
      BY LessKeepsTeardown
  <2>2. CASE CloseEnds
    BY <2>2, <1>e, EndingSteps DEF CloseEnds
  <2>. QED
    BY <1>7, <2>1, <2>2 DEF CloseStep
<1>8. CASE RefreshViewer
  <2>. OnlyLess
    BY <1>8 DEF RefreshViewer, OnlyLess, ProcTypeOK
  <2>. QED
    BY LessKeepsTeardown
<1>9. CASE CheckLiveness \/ StopTake
  BY <1>9 DEF CheckLiveness, StopTake, TeardownInv
<1>10. CASE TearStep
  <2>1. CASE EndViewer
    <3>1. EndsIfAny(shown)
      BY <2>1, EndingSteps
    <3>2. ASSUME NEW v \in Viewers
          PROVE  owner'[v] # "session"
      BY <3>1 DEF EndsIfAny, Ends, IInv, ViewerInv
    <3>. QED
      BY <2>1, <3>2 DEF EndViewer, TeardownInv
  <2>2. CASE StopScope
    BY <2>2 DEF StopScope, TeardownInv
  <2>3. CASE EndSandbox
    <3>1. Ends("sandbox")
      BY <2>3, EndingSteps
    <3>. QED
      BY <2>3, <3>1 DEF EndSandbox, Ends, TeardownInv
  <2>4. CASE \E c \in Services : EndService(c)
    BY <2>4, <1>e, EndingSteps DEF EndService
  <2>5. CASE AskKwin \/ AskCdp \/ WaitForBrowsers \/ StopWallet \/ SaveCookies \/ RemoveTwin
    BY <2>5 DEF AskKwin, AskCdp, WaitForBrowsers, StopWallet, SaveCookies, RemoveTwin, TeardownInv
  <2>. QED
    BY <1>10, <2>1, <2>2, <2>3, <2>4, <2>5 DEF TearStep
<1>. QED
  BY <1>0, <1>1, <1>2, <1>3, <1>4, <1>5, <1>6, <1>7, <1>8, <1>9, <1>10
  DEF Next, vars, Boot, EnterCall, ViewerReports, StopEnter, StopRemove

LEMMA FilesStep == IInv /\ [Next]_vars => FilesInv'
<1> SUFFICES ASSUME IInv, [Next]_vars PROVE FilesInv'
  OBVIOUS
<1>. TypeOK /\ DesktopInv /\ FilesInv
  BY DEF IInv
<1> USE DEF FilesInv
<1>0. CASE UNCHANGED <<saved, teardown, start, workdir>>
  BY <1>0
<1>1. CASE MainStep \/ \E c \in Children : Receive(c)
  BY <1>1 DEF MainStep, Spawn, Send, Receive, SpawnFails
<1>2. CASE ReadyStep
  BY <1>2 DEF ReadyStep, PrepareWorkdir, ScanHost, Configure, SystemProxyReady, WalletBusReady,
              MediatorReady, WalletProxyReady, ComposeCommand, BindPaths, Launch, BusReady,
              ClaimName, CompositorReady, NegotiateInput, Publish
<1>3. CASE StartFails \/ StartTimesOut \/ CleanStep
  BY <1>3 DEF StartFails, StartTimesOut, CleanStep, CleanedUp, CleanUp, Fallible, Awaits
<1>4. CASE KernelStep \/ (\E c \in Children : Exits(c)) \/ RefreshViewer \/ Boot
  BY <1>0, <1>4 DEF KernelStep, Close, KernelEnds, Exits, RefreshViewer, Boot
<1>5. CASE OpenStep \/ CloseStep
  BY <1>0, <1>5 DEF OpenStep, OpenAnswersAtOnce, OpenTakesRunning, OpenEndsStale, OpenCannotSpawn,
              OpenFindsNoSession, OpenPlaces, OpenSeesReady, OpenGivesUp, OpenPutsBack,
              OpenEndsOrphan, OpenSpawns, OpenRespawns, NewViewer, CloseStep, CloseTakes, CloseEnds
<1>6. CASE CheckLiveness \/ StopEnter \/ StopTake \/ StopRemove
  BY <1>6 DEF CheckLiveness, StopEnter, StopTake, StopRemove, DesktopInv, TypeOK
<1>7. CASE TearStep
  BY <1>7 DEF TearStep, AskKwin, AskCdp, WaitForBrowsers, StopWallet, EndViewer, StopScope,
              EndSandbox, SaveCookies, RemoveTwin, EndService
<1>. QED
  BY <1>0, <1>1, <1>2, <1>3, <1>4, <1>5, <1>6, <1>7 DEF Next, vars, EnterCall, ViewerReports

(* Steps that at most end viewers, or drop one that has ended.             *)
OnlyEnding ==
  /\ \A v \in Viewers :
       /\ proc'[v] = "up" => proc[v] = "up" /\ owner'[v] = owner[v]
       /\ proc[v] # "none" => proc'[v] # "none"
       /\ owner'[v] \in {"call", "session"} => owner'[v] = owner[v]
       /\ ask'[v] = ask[v]
  /\ UNCHANGED <<shown, call, held>>

LEMMA EndingKeepsViewers == ASSUME IInv, OnlyEnding PROVE ViewerInv'
  BY DEF IInv, TypeOK, ViewerInv, OnlyEnding

LEMMA ViewerStep == IInv /\ [Next]_vars => ViewerInv'
<1> SUFFICES ASSUME IInv, [Next]_vars PROVE ViewerInv'
  OBVIOUS
<1>. TypeOK /\ ProcTypeOK /\ ViewerInv
  BY DEF IInv, TypeOK
<1>e. ASSUME NEW c \in Children, Ends(c),
             UNCHANGED <<ask, shown, call, held>>
      PROVE  OnlyEnding
  BY <1>e DEF OnlyEnding, Ends
<1>n. \A v \in Viewers : v \notin Services \cup {"sandbox"}
  OBVIOUS
<1>0. CASE UNCHANGED vars
  <2>. OnlyEnding
    BY <1>0 DEF vars, OnlyEnding
  <2>. QED
    BY EndingKeepsViewers
<1>1. CASE MainStep \/ \E c \in Children : Receive(c)
  <2>1. CASE \E c \in Children : Spawn(c)
    <3>1. PICK c \in Children : Spawn(c)
      BY <2>1
    <3>2. CASE Expected(c)
      <4>1. /\ ask[c] = "queued" /\ UNCHANGED <<owner, shown, call, held>>
            /\ ask' = [ask EXCEPT ![c] = "spawned"] /\ proc' = [proc EXCEPT ![c] = "up"]
        BY <3>1, <3>2 DEF Spawn
      <4>. QED
        BY <4>1 DEF ViewerInv, HeldByCall, TypeOK, ProcTypeOK
    <3>3. CASE ~Expected(c)
      <4>1. /\ UNCHANGED <<proc, owner, shown, call, held>>
            /\ ask' = [ask EXCEPT ![c] = "none"]
            /\ c \notin Viewers
        BY <3>1, <3>3 DEF Spawn, Expected, ViewerInv
      <4>2. OnlyEnding
        BY <4>1 DEF OnlyEnding, TypeOK
      <4>. QED
        BY <4>2, EndingKeepsViewers
    <3>. QED
      BY <3>2, <3>3
  <2>2. CASE \E c \in Children : Send(c)
    BY <2>2 DEF Send, Expected, ViewerInv, HeldByCall, TypeOK, ProcTypeOK
  <2>3. CASE \E c \in Children : Receive(c)
    <3>1. PICK c \in Children : Receive(c)
      BY <2>3
    <3>2. CASE c \in Viewers
      BY <3>1, <3>2 DEF Receive, TakerOf, ViewerInv, HeldByCall, TypeOK, ProcTypeOK
    <3>3. CASE c \notin Viewers
      <4>. TakerOf(c) \in {"local", "startup"}
        BY <3>3 DEF TakerOf
      <4>. QED
        BY <3>1, <3>3 DEF Receive, ViewerInv, HeldByCall, TypeOK, ProcTypeOK
    <3>. QED
      BY <3>2, <3>3
  <2>4. CASE \E c \in Children : SpawnFails(c)
    <3>1. PICK c \in Children : SpawnFails(c)
      BY <2>4
    <3>2. CASE c \in Viewers
      <4>1. /\ call = "spawning" /\ held = c /\ call' = "placing" /\ held' = NoViewer
            /\ ask[c] = "queued" /\ ask' = [ask EXCEPT ![c] = "none"]
            /\ proc[c] # "up" /\ UNCHANGED <<proc, owner, shown>>
        BY <3>1, <3>2, <1>n DEF SpawnFails, ViewerInv, HeldByCall, TypeOK, IInv, HolderInv
      <4>. QED
        BY <4>1 DEF ViewerInv, HeldByCall, TypeOK, ProcTypeOK
    <3>3. CASE c \notin Viewers
      <4>1. /\ UNCHANGED <<proc, owner, shown, call, held>>
            /\ ask' = [ask EXCEPT ![c] = "none"]
        BY <3>1, <3>3 DEF SpawnFails, Expected, ViewerInv, TypeOK
      <4>2. OnlyEnding
        BY <3>3, <4>1 DEF OnlyEnding, TypeOK
      <4>. QED
        BY <4>2, EndingKeepsViewers
    <3>. QED
      BY <3>2, <3>3
  <2>. QED
    BY <1>1, <2>1, <2>2, <2>3, <2>4 DEF MainStep
<1>2. CASE KernelStep \/ \E c \in Children : Exits(c)
  <2>1. PICK c \in Children : Close(c) \/ KernelEnds(c) \/ Exits(c)
    BY <1>2 DEF KernelStep
  <2>2. CASE Close(c)
    BY <2>2, <1>e, EndingSteps, EndingKeepsViewers DEF Close
  <2>3. CASE KernelEnds(c) \/ Exits(c)
    <3>1. /\ proc' = [proc EXCEPT ![c] = "gone"]
          /\ owner' = owner \/ owner' = [owner EXCEPT ![c] = "nobody"]
          /\ UNCHANGED <<ask, shown, call, held>>
      BY <2>3 DEF KernelEnds, Exits
    <3>2. OnlyEnding
      BY <3>1 DEF OnlyEnding, ProcTypeOK
    <3>. QED
      BY <3>2, EndingKeepsViewers
  <2>. QED
    BY <2>1, <2>2, <2>3
<1>3. CASE ReadyStep
  <2>1. CASE Publish
    <3>1. OnlyEnding
      BY <2>1 DEF Publish, OnlyEnding, ProcTypeOK, IInv, HolderInv
    <3>. QED
      BY <3>1, EndingKeepsViewers
  <2>2. CASE ~Publish
    <3>1. /\ UNCHANGED <<proc, shown, call, held>>
          /\ \A v \in Viewers : ask'[v] = ask[v] /\ owner'[v] = owner[v]
      BY <1>3, <2>2, <1>n DEF ReadyStep, PrepareWorkdir, ScanHost, Configure, SystemProxyReady,
                  WalletBusReady, MediatorReady, WalletProxyReady, ComposeCommand, BindPaths, Launch,
                  BusReady, ClaimName, CompositorReady, NegotiateInput, TypeOK, ProcTypeOK
    <3>2. OnlyEnding
      BY <3>1 DEF OnlyEnding
    <3>. QED
      BY <3>2, EndingKeepsViewers
  <2>. QED
    BY <2>1, <2>2
<1>4. CASE StartFails \/ StartTimesOut
  <2>1. /\ UNCHANGED <<shown, call, held>>
        /\ \A v \in Viewers : proc'[v] = proc[v] /\ owner'[v] = owner[v] /\ ask'[v] = ask[v]
    <3>1. CASE StartTimesOut
      BY <3>1, <1>n DEF StartTimesOut, InFuture
    <3>2. CASE StartFails /\ UNCHANGED <<proc, owner>>
      BY <3>2 DEF StartFails
    <3>3. CASE StartFails /\ child \in Proxies /\ ~UNCHANGED <<proc, owner>>
      BY <3>3, <1>n DEF StartFails, ProcTypeOK
    <3>. QED
      BY <1>4, <3>1, <3>2, <3>3 DEF StartFails
  <2>2. OnlyEnding
    BY <2>1 DEF OnlyEnding
  <2>. QED
    BY <2>2, EndingKeepsViewers
<1>5. CASE CleanStep
  <2>1. CASE CleanedUp
    BY <2>1, EndingKeepsViewers DEF CleanedUp, OnlyEnding
  <2>2. CASE \E c \in Services \cup {"sandbox"} : CleanUp(c)
    BY <2>2, <1>e, EndingSteps, EndingKeepsViewers DEF CleanUp
  <2>. QED
    BY <1>5, <2>1, <2>2 DEF CleanStep
<1>6. CASE Boot \/ CheckLiveness \/ StopEnter \/ StopTake \/ StopRemove
  <2>1. OnlyEnding
    BY <1>6 DEF Boot, CheckLiveness, StopEnter, StopTake, StopRemove, OnlyEnding
  <2>. QED
    BY <2>1, EndingKeepsViewers
<1>7. CASE \E v \in Viewers, state \in {"ready", "failed"} : ViewerReports(v, state)
  <2>1. OnlyEnding
    BY <1>7 DEF ViewerReports, OnlyEnding
  <2>. QED
    BY <2>1, EndingKeepsViewers
<1>8. CASE \E tool \in {"open", "close"} : EnterCall(tool)
  BY <1>8 DEF EnterCall, ViewerInv, HeldByCall
<1>9. CASE OpenStep
  <2>1. CASE OpenAnswersAtOnce
    BY <2>1 DEF OpenAnswersAtOnce, ViewerInv, HeldByCall
  <2>2. CASE OpenTakesRunning
    BY <2>2 DEF OpenTakesRunning, Running, TypeOK, ProcTypeOK, ViewerInv, HeldByCall
  <2>3. CASE OpenEndsStale
    <3>1. held \in Viewers /\ Ends(held)
      BY <2>3, EndingSteps
    <3>. QED
      BY <2>3, <3>1 DEF OpenEndsStale, Ends, ViewerInv, HeldByCall, TypeOK, ProcTypeOK
  <2>4. CASE OpenCannotSpawn
    BY <2>4 DEF OpenCannotSpawn, Running, ViewerInv, HeldByCall, TypeOK
  <2>5. CASE OpenFindsNoSession \/ OpenEndsOrphan
    <3>1. EndsIfAny(held)
      BY <2>5, EndingSteps
    <3>2. CASE held = NoViewer
      BY <2>5, <3>1, <3>2 DEF OpenFindsNoSession, OpenEndsOrphan, EndsIfAny, ViewerInv, HeldByCall,
                       TypeOK, ProcTypeOK
    <3>3. CASE held # NoViewer
      <4>1. Ends(held) /\ held' = NoViewer /\ call' = "idle" /\ UNCHANGED <<ask, shown>>
        BY <2>5, <3>1, <3>3 DEF OpenFindsNoSession, OpenEndsOrphan, EndsIfAny
      <4>2. /\ \A v \in Viewers :
                 /\ ask[v] = "none"
                 /\ owner[v] = "call" => v = held
                 /\ owner[v] = "session" => v = shown
                 /\ proc[v] = "up" /\ v # held => shown = v /\ owner[v] = "session"
            /\ held \in Viewers /\ held # shown
            /\ shown = NoViewer \/ (shown \in Viewers /\ proc[shown] \notin {"none", "up"})
        BY <2>5, <3>3 DEF OpenFindsNoSession, OpenEndsOrphan, ViewerInv, TypeOK
      <4>. QED
        BY <3>3, <4>1, <4>2 DEF Ends, ViewerInv, HeldByCall, TypeOK
    <3>. QED
      BY <3>2, <3>3
  <2>6. CASE OpenPlaces
    BY <2>6 DEF OpenPlaces, ViewerInv, HeldByCall, TypeOK, ProcTypeOK
  <2>7. CASE OpenSeesReady
    BY <2>7 DEF OpenSeesReady, ViewerInv, HeldByCall
  <2>8. CASE OpenGivesUp
    <3>1. held \in Viewers /\ Ends(held)
      BY <2>8, EndingSteps
    <3>. QED
      BY <2>8, <3>1 DEF OpenGivesUp, Ends, ViewerInv, HeldByCall, TypeOK, ProcTypeOK
  <2>9. CASE OpenPutsBack
    BY <2>9 DEF OpenPutsBack, ViewerInv, HeldByCall, TypeOK, ProcTypeOK
  <2>10. CASE \E v \in Viewers : OpenSpawns(v) \/ OpenRespawns(v)
    <3>1. PICK v \in Viewers : OpenSpawns(v) \/ OpenRespawns(v)
      BY <2>10
    <3>2. /\ proc[v] = "none" /\ ask[v] = "none"
          /\ ask' = [ask EXCEPT ![v] = "queued"]
          /\ held' = v /\ call' = "spawning" /\ UNCHANGED <<proc, owner, shown>>
      BY <3>1 DEF OpenSpawns, OpenRespawns, NewViewer
    <3>3. held = NoViewer /\ (shown = NoViewer \/ proc[shown] # "up")
      BY <3>1 DEF OpenSpawns, OpenRespawns, Running, ViewerInv, HeldByCall, TypeOK
    <3>. QED
      BY <3>2, <3>3 DEF ViewerInv, HeldByCall, TypeOK
  <2>. QED
    BY <1>9, <2>1, <2>2, <2>3, <2>4, <2>5, <2>6, <2>7, <2>8, <2>9, <2>10 DEF OpenStep
<1>10. CASE CloseStep
  <2>1. CASE CloseTakes
    <3>1. CASE desktop = "published" /\ shown # NoViewer
      <4>1. /\ held' = shown /\ shown' = NoViewer /\ call' = "closing"
            /\ owner' = [owner EXCEPT ![shown] = "call"] /\ UNCHANGED <<proc, ask>>
        BY <2>1, <3>1 DEF CloseTakes
      <4>2. /\ \A v \in Viewers :
                 /\ ask[v] = "none" /\ owner[v] # "call"
                 /\ owner[v] = "session" => v = shown
                 /\ proc[v] = "up" => v = shown
            /\ shown \in Viewers /\ proc[shown] # "none"
        BY <2>1, <3>1 DEF CloseTakes, ViewerInv, HeldByCall, TypeOK
      <4>. QED
        BY <4>1, <4>2 DEF ViewerInv, HeldByCall, ProcTypeOK
    <3>2. CASE ~(desktop = "published" /\ shown # NoViewer)
      BY <2>1, <3>2 DEF CloseTakes, ViewerInv, HeldByCall, TypeOK, ProcTypeOK
    <3>. QED
      BY <3>1, <3>2
  <2>2. CASE CloseEnds
    <3>1. held \in Viewers /\ Ends(held)
      BY <2>2, EndingSteps
    <3>. QED
      BY <2>2, <3>1 DEF CloseEnds, Ends, ViewerInv, HeldByCall, TypeOK, ProcTypeOK
  <2>. QED
    BY <1>10, <2>1, <2>2 DEF CloseStep
<1>11. CASE RefreshViewer
  BY <1>11 DEF RefreshViewer, ViewerInv, HeldByCall, TypeOK, ProcTypeOK
<1>12. CASE TearStep
  <2>1. CASE EndViewer
    <3>1. EndsIfAny(shown) /\ shown \in Viewers \cup {NoViewer}
      BY <2>1, EndingSteps DEF TypeOK
    <3>2. OnlyEnding
      BY <2>1, <3>1, <1>e DEF EndViewer, EndsIfAny, OnlyEnding
    <3>. QED
      BY <3>2, EndingKeepsViewers
  <2>2. CASE EndSandbox
    BY <2>2, <1>e, EndingSteps, EndingKeepsViewers DEF EndSandbox
  <2>3. CASE \E c \in Services : EndService(c)
    BY <2>3, <1>e, EndingSteps, EndingKeepsViewers DEF EndService
  <2>4. CASE \/ AskKwin \/ AskCdp \/ WaitForBrowsers \/ StopWallet \/ StopScope
             \/ SaveCookies \/ RemoveTwin
    <3>1. OnlyEnding
      BY <2>4 DEF AskKwin, AskCdp, WaitForBrowsers, StopWallet, StopScope, SaveCookies, RemoveTwin,
                  OnlyEnding, ProcTypeOK
    <3>. QED
      BY <3>1, EndingKeepsViewers
  <2>. QED
    BY <1>12, <2>1, <2>2, <2>3, <2>4 DEF TearStep
<1>. QED
  BY <1>0, <1>1, <1>2, <1>3, <1>4, <1>5, <1>6, <1>7, <1>8, <1>9, <1>10, <1>11, <1>12 DEF Next

LEMMA InitInv == Init => IInv
  BY DEF Init, IInv, TypeOK, ProcTypeOK, DesktopInv, HolderInv, TeardownInv, FilesInv, ViewerInv,
         StartStages, CallStages, Teardown, Fallible

THEOREM ProcessesInvariance == Spec => []IInv
<1>1. IInv /\ [Next]_vars => IInv'
  BY TypeStep, DesktopStep, HolderStep, TeardownStep, FilesStep, ViewerStep DEF IInv
<1>. QED
  BY <1>1, InitInv, PTL DEF Spec

(* No process, request, owner or stage ever has a value outside its range. *)
THEOREM ProcessesTypeCorrect == Spec => []TypeOK
<1>1. IInv => TypeOK
  BY DEF IInv
<1>. QED
  BY <1>1, ProcessesInvariance, PTL

(* Every running process has somebody who will end it, wherever a start is *)
(* dropped and whoever takes the Session, but for the one a dropped start  *)
(* was waiting for or had not yet received.                                *)
THEOREM ProcessesAreOwned == Spec => []SomeoneEndsEach
<1>1. ASSUME IInv, NEW c \in Children, proc[c] = "up", ask[c] # "spawned", c \notin strayed
      PROVE  Answers(owner[c], c)
  <2>. TypeOK /\ ProcTypeOK /\ DesktopInv /\ HolderInv /\ TeardownInv /\ ViewerInv
    BY <1>1 DEF IInv, TypeOK
  <2>1. CASE c \in Viewers
    <3>1. \/ owner[c] = "channel" /\ call = "spawning" /\ held = c
          \/ owner[c] = "call" /\ call # "idle"
          \/ owner[c] = "session" /\ desktop # "absent" /\ teardown # "done"
      BY <1>1, <2>1 DEF DesktopInv, HolderInv, TeardownInv, ViewerInv, HeldByCall
    <3>. QED
      BY <3>1 DEF Answers, Expected
  <2>2. CASE c \in Started
    <3>1. \/ owner[c] = "closer"
          \/ owner[c] = "channel" /\ start = "spawning" /\ child = c
          \/ owner[c] = "local" /\ start = "awaiting"
          \/ owner[c] = "startup" /\ start \notin {"published", "failed"}
          \/ owner[c] = "session" /\ desktop # "absent" /\ teardown # "done"
      BY <1>1, <2>2 DEF DesktopInv, HolderInv, TeardownInv
    <3>. QED
      BY <3>1 DEF Answers, Expected
  <2>. QED
    BY <2>1, <2>2
<1>2. IInv => SomeoneEndsEach
  BY <1>1 DEF SomeoneEndsEach, Unanswered, IInv, HolderInv
<1>. QED
  BY <1>2, ProcessesInvariance, PTL

(* However the viewer tools, the liveness check and session_stop interleave*)
(* no second viewer shows the desktop.                                     *)
THEOREM NoSecondViewer == Spec => []OneViewer
<1>1. ASSUME IInv
      PROVE  OneViewer
  <2>1. \A v \in Running : v = held \/ v = shown
    BY <1>1 DEF IInv, ViewerInv, Running
  <2>2. \A v, w \in Running : v = w
    BY <1>1, <2>1 DEF IInv, TypeOK, ViewerInv, Running
  <2>3. CASE Running = {}
    BY <2>3, FS_EmptySet DEF OneViewer
  <2>4. CASE Running # {}
    <3>1. PICK v : Running = {v}
      BY <2>2, <2>4
    <3>. QED
      BY <3>1, FS_Singleton DEF OneViewer
  <2>. QED
    BY <2>3, <2>4
<1>2. IInv => OneViewer
  BY <1>1
<1>. QED
  BY <1>2, ProcessesInvariance, PTL

(* Nothing in the sandbox can write the cookies and the workdir any more   *)
(* when they are copied and removed.                                       *)
THEOREM SandboxEndsFirst == Spec => []FilesOutliveSandbox
<1>1. IInv => FilesOutliveSandbox
  BY DEF IInv, FilesInv, TeardownInv, FilesOutliveSandbox
<1>. QED
  BY <1>1, ProcessesInvariance, PTL
=============================================================================
