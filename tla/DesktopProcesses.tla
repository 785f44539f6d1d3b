--------------------------- MODULE DesktopProcesses ---------------------------
(***************************************************************************)
(* The host processes of one desktop and who answers for each of them:     *)
(* session_start spawns two D-Bus proxies, a private bus and the sandbox,  *)
(* holding them in StartupResources until the Session takes them;          *)
(* viewer_open and viewer_close take the viewer out of the Session while   *)
(* they wait for it; teardown ends what the Session holds. The main thread *)
(* spawns every process on request and sends the Child over a oneshot      *)
(* channel; whoever asked receives it in a step of its own. The start is   *)
(* dropped at any of its awaits when its time is up, and what only its     *)
(* future holds goes with it: a Child that is dropped keeps running.       *)
(* Nothing drops the future of a viewer tool.                              *)
(*                                                                         *)
(* The sandbox is one process: terminate_child looks no further once the   *)
(* leader of the group has exited (6543), and neither does the model.      *)
(***************************************************************************)
EXTENDS Naturals, FiniteSets

CONSTANTS
  Viewers,    \* bound: the viewer processes viewer_open may spawn
  NoViewer,   \* no viewer process
  Autoclean   \* the server removes the workdir of a start that failed

ASSUME ProcessesAssumption ==
  /\ NoViewer \notin Viewers
  /\ Autoclean \in BOOLEAN
  /\ ({NoViewer} \cup Viewers) \cap {"systemProxy", "walletBus", "walletProxy", "sandbox"} = {}

Proxies  == {"systemProxy", "walletProxy"}
Services == Proxies \cup {"walletBus"}
Children == Services \cup {"sandbox"} \cup Viewers

VARIABLES
  proc,      \* each process: "none", "up", "killed" (SIGKILL pending), "gone"
  owner,     \* who holds its Child: see Answers
  ask,       \* its request to the main thread: "none", "queued", "spawned", "sent"
  start,     \* the stage of session_start
  child,     \* the process that stage spawns or waits for
  boot,      \* the sandbox's entrypoint: "off", "bus", "kwin"
  bridge,    \* the file bridge-ready is there
  workdir,   \* the session workdir is on disk
  gate,      \* who holds the lifecycle gate
  desktop,   \* the Session: "absent", "published", "taken"
  shown,     \* Session::viewer_child
  call,      \* where the viewer tool is
  held,      \* the viewer it holds
  report,    \* what each viewer's status file says
  teardown,  \* where the teardown of the Session is
  stop,      \* where session_stop is
  saved,     \* the browser cookies have been copied back
  strayed    \* whose Child was dropped with the start's future (history)

startVars  == <<start, child, strayed>>
bootVars   == <<boot, bridge>>
viewerVars == <<shown, call, held, report>>
endVars    == <<teardown, stop, saved>>
vars == <<proc, owner, ask, startVars, bootVars, workdir, gate, desktop,
          viewerVars, endVars>>

Init ==
  /\ proc = [c \in Children |-> "none"]
  /\ owner = [c \in Children |-> "nobody"]
  /\ ask = [c \in Children |-> "none"]
  /\ start = "preparing" /\ child = "systemProxy" /\ strayed = {}
  /\ boot = "off" /\ bridge = FALSE
  /\ workdir = FALSE
  /\ gate = "start"
  /\ desktop = "absent"
  /\ shown = NoViewer /\ call = "idle" /\ held = NoViewer
  /\ report = [v \in Viewers |-> "none"]
  /\ teardown = "none" /\ stop = "idle" /\ saved = FALSE

-----------------------------------------------------------------------------
(* The main thread.                                                        *)

(* The future that asked for c is still there to take it.                  *)
Expected(c) == \/ start = "spawning" /\ child = c
               \/ call = "spawning" /\ held = c

Request(c) == ask' = [ask EXCEPT ![c] = "queued"]

(* ProcessRequest::execute: a request whose reply is closed is dropped,    *)
(* any other is spawned, whatever happens to the reply meanwhile.          *)
Spawn(c) ==
  /\ ask[c] = "queued"
  /\ IF Expected(c)
     THEN /\ ask' = [ask EXCEPT ![c] = "spawned"]
          /\ proc' = [proc EXCEPT ![c] = "up"]
     ELSE /\ ask' = [ask EXCEPT ![c] = "none"]
          /\ UNCHANGED proc
  /\ UNCHANGED <<owner, startVars, bootVars, workdir, gate, desktop, viewerVars, endVars>>

(* A proxy is a local of spawn_dbus_proxy until its socket appears; the    *)
(* others belong to the startup guard, or to the viewer call, at once.     *)
TakerOf(c) == CASE c \in Proxies                 -> "local"
                [] c \in {"walletBus", "sandbox"} -> "startup"
                [] c \in Viewers                 -> "call"

(* Mutant: the child of a closed reply is dropped.                         *)
SendDropsChild(c) ==
  /\ ask[c] = "spawned"
  /\ ask' = [ask EXCEPT ![c] = IF Expected(c) THEN "sent" ELSE "none"]
  /\ owner' = [owner EXCEPT ![c] = IF Expected(c) THEN "channel" ELSE "nobody"]
  /\ UNCHANGED <<proc, startVars, bootVars, workdir, gate, desktop, viewerVars, endVars>>

(* The reply. While the receiver is there the Child lies in the channel,   *)
(* else send gives it back and the process ends beside the call.           *)
Send(c) ==
  /\ ask[c] = "spawned"
  /\ ask' = [ask EXCEPT ![c] = IF Expected(c) THEN "sent" ELSE "none"]
  /\ owner' = [owner EXCEPT ![c] = IF Expected(c) THEN "channel" ELSE "closer"]
  /\ UNCHANGED <<proc, startVars, bootVars, workdir, gate, desktop, viewerVars, endVars>>

(* The asker is polled again and finds it there.                           *)
Receive(c) ==
  /\ ask[c] = "sent"
  /\ ask' = [ask EXCEPT ![c] = "none"]
  /\ owner' = [owner EXCEPT ![c] = TakerOf(c)]
  /\ start' = IF start = "spawning" /\ child = c
              THEN IF c = "sandbox" THEN "booting" ELSE "awaiting"
              ELSE start
  /\ call' = IF call = "spawning" /\ held = c THEN "placing" ELSE call
  /\ UNCHANGED <<proc, child, strayed, bootVars, workdir, gate, desktop, shown, held, report,
                 endVars>>

SpawnFails(c) ==
  /\ ask[c] = "queued" /\ Expected(c)
  /\ ask' = [ask EXCEPT ![c] = "none"]
  /\ IF start = "spawning" /\ child = c
     THEN start' = "cleaning" /\ UNCHANGED <<call, held>>
     ELSE call' = "placing" /\ held' = NoViewer /\ UNCHANGED start
  /\ UNCHANGED <<proc, owner, child, strayed, bootVars, workdir, gate, desktop, shown, report,
                 endVars>>

(* terminate_child: TERM, then KILL; one that stays in the kernel after    *)
(* that is left to a reaper thread.                                        *)
Terminate(c) ==
  \/ /\ proc' = [proc EXCEPT ![c] = "gone"]
     /\ owner' = [owner EXCEPT ![c] = "nobody"]
  \/ /\ proc[c] = "up"
     /\ proc' = [proc EXCEPT ![c] = "killed"]
     /\ owner' = [owner EXCEPT ![c] = "closer"]

(* The thread behind a cancelled spawn, and the reaper thread.             *)
Close(c) ==
  /\ owner[c] = "closer" /\ proc[c] = "up"
  /\ Terminate(c)
  /\ UNCHANGED <<ask, startVars, bootVars, workdir, gate, desktop, viewerVars, endVars>>

KernelEnds(c) ==
  /\ proc[c] = "killed"
  /\ proc' = [proc EXCEPT ![c] = "gone"]
  /\ owner' = [owner EXCEPT ![c] = "nobody"]
  /\ UNCHANGED <<ask, startVars, bootVars, workdir, gate, desktop, viewerVars, endVars>>

(* A process may end by itself at any time; its Child stays where it is.   *)
Exits(c) ==
  /\ proc[c] = "up"
  /\ proc' = [proc EXCEPT ![c] = "gone"]
  /\ UNCHANGED <<owner, ask, startVars, bootVars, workdir, gate, desktop, viewerVars, endVars>>

-----------------------------------------------------------------------------
(* session_start.                                                          *)

GoTo(from, to) == start = from /\ start' = to
startRest == <<strayed, gate, desktop, viewerVars, endVars>>

PrepareWorkdir ==
  /\ GoTo("preparing", "scanning")
  /\ workdir' = TRUE
  /\ UNCHANGED <<proc, owner, ask, child, bootVars, startRest>>

ScanHost ==
  /\ GoTo("scanning", "configuring")
  /\ UNCHANGED <<proc, owner, ask, child, bootVars, workdir, startRest>>

Configure ==
  /\ GoTo("configuring", "spawning") /\ Request("systemProxy")
  /\ UNCHANGED <<proc, owner, child, bootVars, workdir, startRest>>

(* The socket of the service appeared; the proxy joins the guard.          *)
SystemProxyReady ==
  /\ child = "systemProxy" /\ GoTo("awaiting", "spawning")
  /\ owner' = [owner EXCEPT !["systemProxy"] = "startup"]
  /\ child' = "walletBus" /\ Request("walletBus")
  /\ UNCHANGED <<proc, bootVars, workdir, startRest>>

WalletBusReady ==
  /\ child = "walletBus" /\ proc["walletBus"] = "up" /\ GoTo("awaiting", "mediating")
  /\ UNCHANGED <<proc, owner, ask, child, bootVars, workdir, startRest>>

(* One snapshot of the host wallet, then the session's own wallet service. *)
MediatorReady ==
  /\ GoTo("mediating", "spawning")
  /\ child' = "walletProxy" /\ Request("walletProxy")
  /\ UNCHANGED <<proc, owner, bootVars, workdir, startRest>>

WalletProxyReady ==
  /\ child = "walletProxy" /\ GoTo("awaiting", "commanding")
  /\ owner' = [owner EXCEPT !["walletProxy"] = "startup"]
  /\ UNCHANGED <<proc, ask, child, bootVars, workdir, startRest>>

(* The command line of the sandbox is built in three synchronous parts.    *)
ComposeCommand ==
  /\ GoTo("commanding", "binding")
  /\ UNCHANGED <<proc, owner, ask, child, bootVars, workdir, startRest>>

BindPaths ==
  /\ GoTo("binding", "launching")
  /\ UNCHANGED <<proc, owner, ask, child, bootVars, workdir, startRest>>

Launch ==
  /\ GoTo("launching", "spawning")
  /\ child' = "sandbox" /\ Request("sandbox")
  /\ UNCHANGED <<proc, owner, bootVars, workdir, startRest>>

(* wait_for_sandbox_path gives up when the sandbox has exited.             *)
SandboxReached(b) == proc["sandbox"] = "up" /\ boot \in b

BusReady ==
  /\ SandboxReached({"bus", "kwin"}) /\ GoTo("booting", "claiming")
  /\ UNCHANGED <<proc, owner, ask, child, bootVars, workdir, startRest>>

(* The server owns org.kde.KWin and serves the devices before it lets the  *)
(* entrypoint start KWin.                                                  *)
ClaimName ==
  /\ boot = "bus" /\ GoTo("claiming", "starting")
  /\ bridge' = TRUE
  /\ UNCHANGED <<proc, owner, ask, child, boot, workdir, startRest>>

CompositorReady ==
  /\ SandboxReached({"kwin"}) /\ GoTo("starting", "negotiating")
  /\ UNCHANGED <<proc, owner, ask, child, bootVars, workdir, startRest>>

NegotiateInput ==
  /\ proc["sandbox"] = "up" /\ GoTo("negotiating", "publishing")
  /\ UNCHANGED <<proc, owner, ask, child, bootVars, workdir, startRest>>

(* StartupResources::into_parts: the guard is disarmed, the Session owns.  *)
Publish ==
  /\ GoTo("publishing", "published")
  /\ owner' = [c \in Children |-> IF owner[c] = "startup" THEN "session" ELSE owner[c]]
  /\ desktop' = "published"
  /\ gate' = "free"
  /\ UNCHANGED <<proc, ask, child, strayed, bootVars, workdir, viewerVars, endVars>>

(* An error on the way. A proxy whose socket did not appear in time is     *)
(* killed and waited for; the guard ends the rest.                         *)
Fallible == {"preparing", "scanning", "configuring", "awaiting", "mediating",
             "commanding", "binding", "launching", "booting", "claiming",
             "starting", "negotiating", "publishing"}
StartFails ==
  /\ start \in Fallible
  /\ start' = "cleaning"
  /\ IF start = "awaiting" /\ child \in Proxies
     THEN /\ proc' = [proc EXCEPT ![child] = "gone"]
          /\ owner' = [owner EXCEPT ![child] = "nobody"]
     ELSE UNCHANGED <<proc, owner>>
  /\ UNCHANGED <<ask, child, bootVars, workdir, startRest>>

(* The deadline: the future is dropped at an await, its locals with it: a  *)
(* proxy whose socket it waits for, and a Child that was sent and not yet  *)
(* received.                                                               *)
Awaits == {"scanning", "spawning", "awaiting", "mediating", "booting", "claiming",
           "starting", "negotiating", "publishing"}
InFuture == {c \in Services \cup {"sandbox"} : owner[c] = "local" \/ ask[c] = "sent"}
StartTimesOut ==
  /\ start \in Awaits
  /\ start' = "cleaning"
  /\ owner' = [c \in Children |-> IF c \in InFuture THEN "nobody" ELSE owner[c]]
  /\ ask' = [c \in Children |-> IF c \in InFuture THEN "none" ELSE ask[c]]
  /\ strayed' = strayed \cup InFuture
  /\ UNCHANGED <<proc, child, bootVars, workdir, gate, desktop, viewerVars, endVars>>

(* StartupResources::cleanup: the sandbox with its scope, then the others. *)
CleanUp(c) ==
  /\ start = "cleaning" /\ owner[c] = "startup"
  /\ c # "sandbox" => owner["sandbox"] # "startup"
  /\ Terminate(c)
  /\ UNCHANGED <<ask, startVars, bootVars, workdir, startRest>>

CleanedUp ==
  /\ GoTo("cleaning", "failed")
  /\ \A c \in Children : owner[c] # "startup"
  /\ workdir' = (workdir /\ ~Autoclean)
  /\ gate' = "free"
  /\ UNCHANGED <<proc, owner, ask, child, strayed, bootVars, desktop, viewerVars, endVars>>

(* The entrypoint inside the sandbox. It starts KWin when bridge-ready     *)
(* appears, and after 15 s without it.                                     *)
Boot ==
  /\ proc["sandbox"] = "up" /\ boot # "kwin"
  /\ boot' = IF boot = "off" THEN "bus" ELSE "kwin"
  /\ UNCHANGED <<proc, owner, ask, startVars, bridge, workdir, startRest>>

-----------------------------------------------------------------------------
(* viewer_open and viewer_close. They hold the lifecycle gate throughout,  *)
(* and the session's lock only where they look and where they put back.    *)

callRest == <<startVars, bootVars, workdir, desktop, endVars>>
Running == {v \in Viewers : proc[v] = "up"}

EnterCall(tool) ==
  /\ call = "idle" /\ gate = "free"
  /\ gate' = "viewer" /\ call' = tool
  /\ UNCHANGED <<proc, owner, ask, shown, held, report, callRest>>

LeaveCall == gate' = "free" /\ call' = "idle"

(* No desktop, or a viewer that is ready already.                          *)
OpenAnswersAtOnce ==
  /\ call = "open"
  /\ \/ desktop # "published"
     \/ shown \in {v \in Running : report[v] = "ready"}
  /\ LeaveCall
  /\ UNCHANGED <<proc, owner, ask, shown, held, report, callRest>>

(* A viewer that is still starting is taken out of the Session to be       *)
(* waited for, any other running one to be ended; an exited one stays.     *)
OpenTakesRunning ==
  /\ call = "open" /\ desktop = "published"
  /\ shown \in {v \in Running : report[v] # "ready"}
  /\ held' = shown /\ shown' = NoViewer
  /\ owner' = [owner EXCEPT ![shown] = "call"]
  /\ call' = IF report[shown] = "starting" THEN "placing" ELSE "stale"
  /\ UNCHANGED <<proc, ask, gate, report, callRest>>

(* spawn_viewer asks the main thread for a new process.                    *)
NewViewer(v) ==
  /\ proc[v] = "none" /\ ask[v] = "none"
  /\ Request(v)
  /\ held' = v /\ call' = "spawning"
  /\ report' = [report EXCEPT ![v] = "starting"]

OpenSpawns(v) ==
  /\ call = "open" /\ desktop = "published"
  /\ shown \notin Running
  /\ NewViewer(v)
  /\ UNCHANGED <<proc, owner, gate, shown, callRest>>

(* Mutant: the stale viewer is only let go of.                             *)
OpenForgetsStale ==
  /\ call = "stale"
  /\ owner' = [owner EXCEPT ![held] = "nobody"]
  /\ call' = "respawning" /\ held' = NoViewer
  /\ UNCHANGED <<proc, ask, gate, shown, report, callRest>>

OpenEndsStale ==
  /\ call = "stale"
  /\ Terminate(held)
  /\ call' = "respawning" /\ held' = NoViewer
  /\ UNCHANGED <<ask, gate, shown, report, callRest>>

OpenRespawns(v) ==
  /\ call = "respawning"
  /\ NewViewer(v)
  /\ UNCHANGED <<proc, owner, gate, shown, callRest>>

(* No viewer binary or no host display: nothing is spawned.                *)
OpenCannotSpawn ==
  /\ \/ call = "respawning"
     \/ call = "open" /\ desktop = "published" /\ shown \notin Running
  /\ call' = "placing"
  /\ UNCHANGED <<proc, owner, ask, gate, shown, held, report, callRest>>

(* The session's lock again. Stopped meanwhile: the new viewer ends here.  *)
OpenFindsNoSession ==
  /\ call = "placing" /\ desktop # "published"
  /\ IF held = NoViewer THEN UNCHANGED <<proc, owner>> ELSE Terminate(held)
  /\ held' = NoViewer
  /\ LeaveCall
  /\ UNCHANGED <<ask, shown, report, callRest>>

(* An exited viewer left in the Session goes; the new one is taken out     *)
(* again to be waited for.                                                 *)
OpenPlaces ==
  /\ call = "placing" /\ desktop = "published"
  /\ shown' = NoViewer
  /\ owner' = [c \in Children |-> IF c = shown THEN "nobody" ELSE owner[c]]
  /\ call' = IF held = NoViewer THEN "returning" ELSE "watching"
  /\ UNCHANGED <<proc, ask, gate, held, report, callRest>>

OpenSeesReady ==
  /\ call = "watching" /\ held \in Running /\ report[held] = "ready"
  /\ call' = "returning"
  /\ UNCHANGED <<proc, owner, ask, gate, shown, held, report, callRest>>

(* It failed, exited, or showed no frame in time: it is ended.             *)
OpenGivesUp ==
  /\ call = "watching" /\ ~(held \in Running /\ report[held] = "ready")
  /\ Terminate(held)
  /\ held' = NoViewer /\ call' = "returning"
  /\ UNCHANGED <<ask, gate, shown, report, callRest>>

(* Mutant: the viewer goes back into the Session it was taken from.        *)
OpenPutsBackAnyway ==
  /\ call = "returning"
  /\ shown' = held /\ held' = NoViewer
  /\ owner' = [c \in Children |-> IF c = held THEN "session" ELSE owner[c]]
  /\ LeaveCall
  /\ UNCHANGED <<proc, ask, report, callRest>>

OpenPutsBack ==
  /\ call = "returning" /\ desktop = "published"
  /\ shown' = held /\ held' = NoViewer
  /\ owner' = [c \in Children |-> IF c = held THEN "session" ELSE owner[c]]
  /\ LeaveCall
  /\ UNCHANGED <<proc, ask, report, callRest>>

OpenEndsOrphan ==
  /\ call = "returning" /\ desktop # "published"
  /\ IF held = NoViewer THEN UNCHANGED <<proc, owner>> ELSE Terminate(held)
  /\ held' = NoViewer
  /\ LeaveCall
  /\ UNCHANGED <<ask, shown, report, callRest>>

CloseTakes ==
  /\ call = "close"
  /\ IF desktop = "published" /\ shown # NoViewer
     THEN /\ held' = shown /\ shown' = NoViewer /\ call' = "closing"
          /\ owner' = [owner EXCEPT ![shown] = "call"]
          /\ UNCHANGED gate
     ELSE LeaveCall /\ UNCHANGED <<shown, held, owner>>
  /\ UNCHANGED <<proc, ask, report, callRest>>

CloseEnds ==
  /\ call = "closing"
  /\ Terminate(held)
  /\ held' = NoViewer
  /\ LeaveCall
  /\ UNCHANGED <<ask, shown, report, callRest>>

(* refresh_viewer_child, before an input call: an exited viewer is dropped.*)
RefreshViewer ==
  /\ desktop = "published" /\ shown # NoViewer /\ proc[shown] = "gone"
  /\ owner' = [owner EXCEPT ![shown] = "nobody"]
  /\ shown' = NoViewer
  /\ UNCHANGED <<proc, ask, gate, call, held, report, callRest>>

(* The viewer writes its status file.                                      *)
ViewerReports(v, state) ==
  /\ proc[v] = "up" /\ report[v] \in {"starting", "ready"} \ {state}
  /\ report' = [report EXCEPT ![v] = state]
  /\ UNCHANGED <<proc, owner, ask, gate, shown, call, held, callRest>>

-----------------------------------------------------------------------------
(* The end of a desktop.                                                   *)

endRest == <<ask, startVars, bootVars, viewerVars>>

(* The liveness check takes the Session of a dead sandbox, without gate.   *)
(* No browser is left to flush.                                            *)
CheckLiveness ==
  /\ desktop = "published" /\ proc["sandbox"] = "gone"
  /\ desktop' = "taken" /\ teardown' = "viewer"
  /\ UNCHANGED <<proc, owner, workdir, gate, stop, saved, endRest>>

StopEnter ==
  /\ stop = "idle" /\ gate = "free" /\ start \in {"published", "failed"}
  /\ gate' = "stop" /\ stop' = "entered"
  /\ UNCHANGED <<proc, owner, workdir, desktop, teardown, saved, endRest>>

StopTake ==
  /\ stop = "entered" /\ teardown \in {"none", "done"}
  /\ IF desktop = "published"
     THEN desktop' = "taken" /\ teardown' = "browsers"
     ELSE UNCHANGED <<desktop, teardown>>
  /\ stop' = "tearing"
  /\ UNCHANGED <<proc, owner, workdir, gate, saved, endRest>>

StopRemove ==
  /\ stop = "tearing" /\ teardown \in {"none", "done"}
  /\ workdir' = (workdir /\ ~Autoclean)
  /\ gate' = "free" /\ stop' = "done"
  /\ UNCHANGED <<proc, owner, desktop, teardown, saved, endRest>>

Tear(from, to) == teardown = from /\ teardown' = to
tearRest == <<workdir, gate, desktop, stop, endRest>>

(* Browsers are asked through KWin, then CDP, then by signal, to flush.    *)
AskKwin == Tear("browsers", "cdp") /\ UNCHANGED <<proc, owner, saved, tearRest>>
AskCdp == Tear("cdp", "signal") /\ UNCHANGED <<proc, owner, saved, tearRest>>
WaitForBrowsers == Tear("signal", "wallet") /\ UNCHANGED <<proc, owner, saved, tearRest>>
StopWallet == Tear("wallet", "viewer") /\ UNCHANGED <<proc, owner, saved, tearRest>>

EndViewer ==
  /\ Tear("viewer", "scope")
  /\ IF shown = NoViewer THEN UNCHANGED <<proc, owner>> ELSE Terminate(shown)
  /\ UNCHANGED <<saved, tearRest>>

(* SessionScope::stop ends the sandbox through systemd, or cannot.         *)
StopScope ==
  /\ Tear("scope", "sandbox")
  /\ \/ proc["sandbox"] = "up" /\ proc' = [proc EXCEPT !["sandbox"] = "gone"]
     \/ UNCHANGED proc
  /\ UNCHANGED <<owner, saved, tearRest>>

(* Mutant: systemd's answer is trusted.                                    *)
EndSandboxByScope ==
  /\ Tear("sandbox", "services")
  /\ UNCHANGED <<proc, owner, saved, tearRest>>

EndSandbox ==
  /\ Tear("sandbox", "services")
  /\ Terminate("sandbox")
  /\ UNCHANGED <<saved, tearRest>>

EndService(c) ==
  /\ teardown = "services" /\ owner[c] = "session"
  /\ Terminate(c)
  /\ UNCHANGED <<teardown, saved, tearRest>>

(* Cookies go back to the host's profiles; then the disk twin goes.        *)
SaveCookies ==
  /\ Tear("services", "files")
  /\ \A c \in Services : owner[c] # "session"
  /\ saved' = TRUE
  /\ UNCHANGED <<proc, owner, tearRest>>

RemoveTwin == Tear("files", "done") /\ UNCHANGED <<proc, owner, saved, tearRest>>

-----------------------------------------------------------------------------
MainStep == \E c \in Children : Spawn(c) \/ Send(c) \/ SpawnFails(c)
KernelStep == \E c \in Children : Close(c) \/ KernelEnds(c)
ReadyStep ==
  \/ PrepareWorkdir \/ ScanHost \/ Configure
  \/ SystemProxyReady \/ WalletBusReady \/ MediatorReady \/ WalletProxyReady
  \/ ComposeCommand \/ BindPaths \/ Launch \/ BusReady \/ ClaimName
  \/ CompositorReady \/ NegotiateInput \/ Publish
CleanStep == CleanedUp \/ \E c \in Services \cup {"sandbox"} : CleanUp(c)
OpenStep ==
  \/ OpenAnswersAtOnce \/ OpenTakesRunning \/ OpenEndsStale \/ OpenCannotSpawn
  \/ OpenFindsNoSession \/ OpenPlaces \/ OpenSeesReady \/ OpenGivesUp
  \/ OpenPutsBack \/ OpenEndsOrphan
  \/ \E v \in Viewers : OpenSpawns(v) \/ OpenRespawns(v)
CloseStep == CloseTakes \/ CloseEnds
TearStep ==
  \/ AskKwin \/ AskCdp \/ WaitForBrowsers \/ StopWallet \/ EndViewer \/ StopScope
  \/ EndSandbox \/ SaveCookies \/ RemoveTwin
  \/ \E c \in Services : EndService(c)

Next ==
  \/ MainStep \/ KernelStep \/ \E c \in Children : Receive(c) \/ Exits(c)
  \/ ReadyStep \/ StartFails \/ StartTimesOut \/ CleanStep \/ Boot
  \/ \E tool \in {"open", "close"} : EnterCall(tool)
  \/ OpenStep \/ CloseStep \/ RefreshViewer
  \/ \E v \in Viewers, state \in {"ready", "failed"} : ViewerReports(v, state)
  \/ CheckLiveness \/ StopEnter \/ StopTake \/ StopRemove \/ TearStep

Spec == Init /\ [][Next]_vars

(* Threads and tasks run; the kernel ends what was killed. A start either  *)
(* goes on or reaches its deadline. Nobody has to call a tool.             *)
Fairness ==
  /\ WF_vars(MainStep) /\ WF_vars(StartTimesOut) /\ WF_vars(CleanStep)
  /\ \A c \in Children : WF_vars(Receive(c)) /\ WF_vars(Close(c)) /\ WF_vars(KernelEnds(c))
  /\ WF_vars(ReadyStep) /\ WF_vars(OpenStep) /\ WF_vars(CloseStep)
  /\ WF_vars(TearStep)
FairSpec == Spec /\ Fairness

-----------------------------------------------------------------------------
(* Who answers for a process, and until when: the guard until its cleanup  *)
(* is over, the Session until its teardown has passed it, a viewer tool    *)
(* while it runs, a thread of its own for as long as it takes, and a       *)
(* channel while its receiver is there.                                    *)
Answers(o, c) ==
  CASE o = "closer"  -> TRUE
    [] o = "channel" -> Expected(c)
    [] o = "startup" -> start \notin {"published", "failed"}
    [] o = "local"   -> start = "awaiting"
    [] o = "session" -> desktop # "absent" /\ teardown # "done"
    [] o = "call"    -> call # "idle"
    [] o = "nobody"  -> FALSE
Unanswered == {c \in Children : /\ proc[c] = "up" /\ ask[c] # "spawned"
                                /\ ~Answers(owner[c], c)}

(* Every running process is in the hands of something that will end it,    *)
(* whoever takes the Session while a viewer tool holds the viewer. Only a  *)
(* start that is dropped lets a process go, one at most and never a viewer:*)
(* the one it was sent and did not receive, or the proxy it waits for      *)
(* (6576, 4029, 14577).                                                    *)
SomeoneEndsEach ==
  /\ Unanswered \subseteq strayed
  /\ strayed # {} => start \in {"cleaning", "failed"} /\ strayed = {child}

(* "The guard owns them until the Session takes them, so cancelling the    *)
(* startup future cannot detach a process or task that has no reachable    *)
(* cleanup path" (6576-6578).                                              *)
GuardOwnsChildren == Unanswered = {}

(* However viewer_open, viewer_close, the liveness check and session_stop  *)
(* interleave, no second viewer shows the desktop (14523-14562).           *)
OneViewer == Cardinality(Running) <= 1

(* The cookie files are copied, and the disk twin and the workdir removed, *)
(* only when no process of the sandbox can write them any more: it has     *)
(* exited or a SIGKILL is pending (8461-8496).                             *)
FilesOutliveSandbox ==
  saved \/ (start = "published" /\ ~workdir) => proc["sandbox"] # "up"

(* A start that failed leaves nothing running but what it let go, and a    *)
(* desktop that was torn down nothing at all.                              *)
EndedLeavesNothing ==
  /\ start = "failed" ~> \A c \in Children \ strayed : proc[c] \in {"none", "gone"}
  /\ teardown = "done" ~> \A c \in Children : proc[c] \in {"none", "gone"}
=============================================================================
