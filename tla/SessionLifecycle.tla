--------------------------- MODULE SessionLifecycle ---------------------------
(***************************************************************************)
(* One session handle of the server (struct KwinMcp in src/main.rs) and    *)
(* everything that moves it: the session_start that creates it, any number *)
(* of concurrent session_stop calls, the deferred cleanup of a start whose *)
(* host call blocked, the liveness check every tool call and the reaper    *)
(* make, the idle reaper, and the server's shutdown. They run as tasks of  *)
(* one tokio runtime and interleave at their awaits; code between two      *)
(* awaits can still interleave with another thread, so a step here is what *)
(* one lock acquisition covers. The four shared facts are:                 *)
(*                                                                         *)
(*   death    a mutex around the terminal record, "none" until it is set   *)
(*   desktop  the RwLock around Option<Session>                            *)
(*   owned    WorkdirOwnership, with the workdir and its disk twin         *)
(*   gate     start_gate, the lifecycle lock of start, stop and expiry     *)
(*                                                                         *)
(* The liveness check takes no gate, and registering a failed start runs   *)
(* after its gate is open: those two are what makes this hard.             *)
(***************************************************************************)
EXTENDS Naturals, SessionPhases

CONSTANTS
  Stops,        \* the concurrent session_stop calls on this handle
  Autoclean,    \* the server owns and removes session workdirs
  Ttl,          \* idle sessions expire
  ServerStops,  \* whether behaviours in which the server shuts down count
  MaxFailures   \* bound: how often removing the workdir may fail

ASSUME ConstantsAssumption ==
  /\ Autoclean \in BOOLEAN /\ Ttl \in BOOLEAN /\ ServerStops \in BOOLEAN
  /\ Ttl => Autoclean
  /\ MaxFailures \in Nat
  /\ Stops \cap {"free", "start", "deferred", "reaper", "shutdown"} = {}

VARIABLES
  registered,   \* the router's map holds the handle
  death,        \* terminal status
  desktop,      \* the Session: where the one value ever published is
  sandbox,      \* the sandbox process: "none", "up" or "exited"
  present,      \* the workdir or its disk twin is on disk
  owned,        \* cleanup ownership of them is claimed
  failures,     \* failed removals so far
  gate,         \* who holds the lifecycle gate
  record,       \* what the lifecycle log answers for this session ID
  start,        \* where session_start is
  error,        \* the kind of error it failed with
  hostCall,     \* the blocking host scan of session_start
  deferred,     \* the deferred cleanup of a blocked start
  stop,         \* where each session_stop is
  saw,          \* what each session_stop read and has not used yet
  reaper,       \* where the reaper is on this handle
  shutdown      \* where the server's shutdown is

handleVars   == <<registered, death, desktop, sandbox>>
diskVars     == <<present, owned, failures>>
startVars    == <<start, error, hostCall, deferred>>
stopVars     == <<stop, saw>>
serverVars   == <<reaper, shutdown>>
vars == <<handleVars, diskVars, gate, record, startVars, stopVars, serverVars>>

-----------------------------------------------------------------------------
(* The pieces the calls share.                                             *)

(* WorkdirOwnership::remove, under its one lock: nothing owned, or both    *)
(* directories go and ownership with them, or the removal fails and both   *)
(* stay. `outcome' is what the caller is told.                             *)
RemoveWorkdir(outcome) ==
  \/ /\ outcome = "NothingOwned"
     /\ ~owned
     /\ UNCHANGED diskVars
  \/ /\ outcome = "Removed"
     /\ owned
     /\ owned' = FALSE /\ present' = FALSE
     /\ UNCHANGED failures
  \/ /\ outcome = "Retained"
     /\ owned /\ failures < MaxFailures
     /\ failures' = failures + 1
     /\ UNCHANGED <<present, owned>>

Cleanups == {"not_requested", "not_owned", "removed", "retained"}
NoRecord == [status |-> "none", cleanup |-> "none"]

(* record_lifecycle: append a record. A reader of the log keeps the latest *)
(* end time, and of two records of one end a "retained" never displaces a  *)
(* "removed". The records of one handle carry the end time of its death    *)
(* record; a desktop that died carries the time of each append, and no     *)
(* "retained" of it can follow a "removed".                                *)
RecordLifecycle(s, cleanup) ==
  record' = IF record.cleanup = "removed" /\ cleanup = "retained"
            THEN record
            ELSE [status |-> s, cleanup |-> cleanup]

(* record_terminal_cleanup: the same, for the recorded terminal status.    *)
RecordTerminalCleanup(cleanup) ==
  IF death = "none" THEN UNCHANGED record ELSE RecordLifecycle(death, cleanup)

StartupCleanupLabel(owns, exists) ==
  CASE owns                            -> "retained"
    [] ~owns /\ Autoclean /\ ~exists   -> "removed"
    [] ~owns /\ exists                 -> "not_owned"
    [] ~owns /\ ~Autoclean /\ ~exists  -> "not_requested"

HasDesktop == desktop = "published"
Nothing == [busy |-> FALSE, desktop |-> FALSE, plan |-> "none", removed |-> FALSE]

-----------------------------------------------------------------------------
Init ==
  /\ registered = TRUE
  /\ death = "none"
  /\ desktop = "absent"
  /\ sandbox = "none"
  /\ present = FALSE /\ owned = FALSE /\ failures = 0
  /\ gate = "free"
  /\ record = NoRecord
  /\ start = "queued" /\ error = "none" /\ hostCall = "none"
  /\ deferred = "none"
  /\ stop = [c \in Stops |-> "idle"]
  /\ saw = [c \in Stops |-> Nothing]
  /\ reaper = "idle"
  /\ shutdown = "running"

(***************************************************************************)
(* session_start, from the moment its call holds a new handle.             *)
(***************************************************************************)

(* startup_timeout_seconds out of range: refused before the gate.          *)
StartRefuse ==
  /\ start = "queued"
  /\ start' = "failed" /\ error' = "invalid"
  /\ UNCHANGED <<handleVars, diskVars, gate, record, hostCall, deferred,
                 stopVars, serverVars>>

(* The deadline covers the wait for the gate.                              *)
StartGateTimeout ==
  /\ start = "queued" /\ gate # "free"
  /\ start' = "failed" /\ error' = "internal"
  /\ UNCHANGED <<handleVars, diskVars, gate, record, hostCall, deferred,
                 stopVars, serverVars>>

(* A stop that abandoned the handle while the start waited has set death.  *)
StartEnter ==
  /\ start = "queued" /\ gate = "free"
  /\ \/ /\ death # "none"
        /\ start' = "failed" /\ error' = "invalid"
        /\ UNCHANGED gate
     \/ /\ death = "none"
        /\ start' = "checking" /\ gate' = "start"
        /\ UNCHANGED error
  /\ UNCHANGED <<handleVars, diskVars, record, hostCall, deferred, stopVars,
                 serverVars>>

(* A parameter or the host is refused with nothing created yet.            *)
StartReject(kind) ==
  /\ start = "checking"
  /\ start' = "cleaning" /\ error' = kind
  /\ UNCHANGED <<handleVars, diskVars, gate, record, hostCall, deferred,
                 stopVars, serverVars>>

StartCreateWorkdir ==
  /\ start = "checking"
  /\ present' = TRUE /\ owned' = Autoclean
  /\ start' = "preparing"
  /\ UNCHANGED <<handleVars, failures, gate, record, error, hostCall,
                 deferred, stopVars, serverVars>>

(* disk_min_free_mib overflows: a parameter refused after the creation.    *)
StartRejectLate ==
  /\ start = "preparing"
  /\ start' = "cleaning" /\ error' = "invalid"
  /\ UNCHANGED <<handleVars, diskVars, gate, record, hostCall, deferred,
                 stopVars, serverVars>>

(* prepare_host_view goes to a blocking thread that writes the workdir.    *)
StartScanHost ==
  /\ start = "preparing"
  /\ start' = "scanning" /\ hostCall' = "running"
  /\ UNCHANGED <<handleVars, diskVars, gate, record, error, deferred,
                 stopVars, serverVars>>

HostCallReturns ==
  /\ hostCall = "running"
  /\ hostCall' = "returned"
  /\ UNCHANGED <<handleVars, diskVars, gate, record, start, error, deferred,
                 stopVars, serverVars>>

StartLaunch ==
  /\ start = "scanning" /\ hostCall = "returned"
  /\ start' = "launching" /\ hostCall' = "none"
  /\ UNCHANGED <<handleVars, diskVars, gate, record, error, deferred,
                 stopVars, serverVars>>

(* Any later step fails; the startup guard has stopped its processes when  *)
(* the error reaches session_start.                                        *)
StartFail ==
  /\ \/ start \in {"preparing", "launching"}
     \/ start = "scanning" /\ hostCall = "returned"
  /\ start' = "cleaning" /\ error' = "internal" /\ hostCall' = "none"
  /\ UNCHANGED <<handleVars, diskVars, gate, record, deferred, stopVars,
                 serverVars>>

StartPublish ==
  /\ start = "launching"
  /\ desktop' = "published" /\ sandbox' = "up"
  /\ start' = "published"
  /\ UNCHANGED <<registered, death, diskVars, gate, record, error, hostCall,
                 deferred, stopVars, serverVars>>

StartReturn ==
  /\ start = "published"
  /\ start' = "done" /\ gate' = "free"
  /\ UNCHANGED <<handleVars, diskVars, record, error, hostCall, deferred,
                 stopVars, serverVars>>

(* The hard limit drops the start. With the host call still blocked, the   *)
(* gate and the workdir pass to a task that waits for it.                  *)
StartTimeout ==
  /\ start \in {"scanning", "launching"}
  /\ \/ /\ hostCall = "running"
        /\ start' = "failed" /\ error' = "blocked"
        /\ deferred' = "waiting" /\ gate' = "deferred"
        /\ UNCHANGED hostCall
     \/ /\ hostCall # "running"
        /\ start' = "cleaning" /\ error' = "internal" /\ hostCall' = "none"
        /\ UNCHANGED <<deferred, gate>>
  /\ UNCHANGED <<handleVars, diskVars, record, stopVars, serverVars>>

(* A bug to tell apart: rejected parameters stay the error of a start whose *)
(* workdir could not be removed.                                           *)
StartCleanUpKeepsError ==
  /\ start = "cleaning"
  /\ \E outcome \in {"NothingOwned", "Removed", "Retained"} :
       RemoveWorkdir(outcome)
  /\ start' = "failed" /\ gate' = "free"
  /\ UNCHANGED <<handleVars, record, error, hostCall, deferred, stopVars,
                 serverVars>>

(* autoclean_unpublished_workdir, then the gate opens. A workdir that is   *)
(* not removed turns any error into an internal one.                       *)
StartCleanUp ==
  /\ start = "cleaning"
  /\ \E outcome \in {"NothingOwned", "Removed", "Retained"} :
       /\ RemoveWorkdir(outcome)
       /\ error' = IF outcome = "Retained" THEN "internal" ELSE error
  /\ start' = "failed" /\ gate' = "free"
  /\ UNCHANGED <<handleVars, record, hostCall, deferred, stopVars, serverVars>>

(***************************************************************************)
(* What call_tool does with a failed session_start: register_failed_start, *)
(* on the call's task, after the start has given its gate away.            *)
(***************************************************************************)

RegisterForget ==
  /\ start = "failed" /\ FailedStart(error) = "Forget"
  /\ registered' = FALSE
  /\ start' = "done"
  /\ UNCHANGED <<death, desktop, sandbox, diskVars, gate, record, error,
                 hostCall, deferred, stopVars, serverVars>>

(* A stop that arrived first already recorded the handle's end.            *)
RegisterCheck ==
  /\ start = "failed" /\ FailedStart(error) # "Forget"
  /\ start' = IF death # "none" THEN "done" ELSE "marking"
  /\ UNCHANGED <<handleVars, diskVars, gate, record, error, hostCall, deferred,
                 stopVars, serverVars>>

RegisterMark ==
  /\ start = "marking"
  /\ \/ /\ FailedStart(error) = "Blocked"
        /\ death' = "start_blocked" /\ start' = "done"
     \/ /\ FailedStart(error) = "Failed"
        /\ death' = "start_failed" /\ start' = "labelling"
  /\ UNCHANGED <<registered, desktop, sandbox, diskVars, gate, record, error,
                 hostCall, deferred, stopVars, serverVars>>

RegisterRecord ==
  /\ start = "labelling"
  /\ RecordTerminalCleanup(StartupCleanupLabel(owned, present))
  /\ start' = "done"
  /\ UNCHANGED <<handleVars, diskVars, gate, error, hostCall, deferred,
                 stopVars, serverVars>>

(***************************************************************************)
(* The deferred cleanup of a blocked start, which holds the gate: wait for *)
(* the host call, remove the workdir, record it if the handle is marked    *)
(* start_blocked by then, open the gate.                                   *)
(***************************************************************************)

DeferredRemove ==
  /\ deferred = "waiting" /\ hostCall = "returned"
  /\ \E outcome \in {"NothingOwned", "Removed", "Retained"} :
       RemoveWorkdir(outcome)
  /\ deferred' = "recording" /\ hostCall' = "none"
  /\ UNCHANGED <<handleVars, gate, record, start, error, stopVars, serverVars>>

DeferredRecord ==
  /\ deferred = "recording"
  /\ IF death = "start_blocked"
     THEN RecordTerminalCleanup(StartupCleanupLabel(owned, present))
     ELSE UNCHANGED record
  /\ deferred' = "done" /\ gate' = "free"
  /\ UNCHANGED <<handleVars, diskVars, start, error, hostCall, stopVars,
                 serverVars>>

(***************************************************************************)
(* session_stop, call c.                                                   *)
(***************************************************************************)

Goes(c, from, to) == stop[c] = from /\ stop' = [stop EXCEPT ![c] = to]

(* resolve finds the handle; try_lock tells whether the gate is held.      *)
StopBegin(c) ==
  /\ registered /\ shutdown = "running"
  /\ Goes(c, "idle", "probing")
  /\ saw' = [saw EXCEPT ![c] = [Nothing EXCEPT !.busy = gate # "free"]]
  /\ UNCHANGED <<handleVars, diskVars, gate, record, startVars, serverVars>>

StopProbe(c) ==
  /\ \/ StopIsPending(death, saw[c].busy) /\ Goes(c, "probing", "idle")
     \/ ~StopIsPending(death, saw[c].busy) /\ Goes(c, "probing", "waiting")
  /\ UNCHANGED <<handleVars, diskVars, gate, record, startVars, saw, serverVars>>

(* Bugs to tell apart: a stop that goes on without the gate, as shutdown   *)
(* does, and one that waits for the gate without a deadline.               *)
StopGoesOnWithoutGate(c) ==
  /\ gate # "free"
  /\ Goes(c, "waiting", "entered")
  /\ UNCHANGED <<handleVars, diskVars, gate, record, startVars, saw, serverVars>>

StopWaitsForever(c) == FALSE /\ UNCHANGED vars

StopGateTimeout(c) ==
  /\ gate # "free"
  /\ Goes(c, "waiting", "idle")
  /\ UNCHANGED <<handleVars, diskVars, gate, record, startVars, saw, serverVars>>

StopEnter(c) ==
  /\ gate = "free" /\ gate' = c
  /\ Goes(c, "waiting", "entered")
  /\ UNCHANGED <<handleVars, diskVars, record, startVars, saw, serverVars>>

(* registry_phase reads the desktop under its lock, then the status.       *)
StopReadDesktop(c) ==
  /\ Goes(c, "entered", "planning")
  /\ saw' = [saw EXCEPT ![c].desktop = HasDesktop]
  /\ UNCHANGED <<handleVars, diskVars, gate, record, startVars, serverVars>>

StopChoose(c) ==
  LET plan == StopPlan(Phase(saw[c].desktop, death))
      next == [Teardown |-> "taking", Clear |-> "removing",
               Abandon |-> "abandoning"]
  IN  /\ Goes(c, "planning", next[plan])
      /\ saw' = [saw EXCEPT ![c].plan = plan]
      /\ UNCHANGED <<handleVars, diskVars, gate, record, startVars, serverVars>>

(* A bug to tell apart: a stop that records its status over the death that *)
(* took the desktop first.                                                 *)
StopTakeOverwrites(c) ==
  /\ death' = "stopped" /\ desktop' = IF HasDesktop THEN "closing" ELSE desktop
  /\ Goes(c, "taking", IF HasDesktop THEN "closing" ELSE "removing")
  /\ UNCHANGED <<registered, sandbox, diskVars, gate, record, startVars, saw,
                 serverVars>>

(* Under the desktop's write lock: the status first, then the desktop.     *)
StopTake(c) ==
  /\ \/ /\ HasDesktop
        /\ death' = "stopped" /\ desktop' = "closing"
        /\ Goes(c, "taking", "closing")
     \/ /\ ~HasDesktop
        /\ UNCHANGED <<death, desktop>>
        /\ Goes(c, "taking", "removing")
  /\ UNCHANGED <<registered, sandbox, diskVars, gate, record, startVars, saw,
                 serverVars>>

StopTornDown(c) ==
  /\ desktop = "torn"
  /\ Goes(c, "closing", "removing")
  /\ UNCHANGED <<handleVars, diskVars, gate, record, startVars, saw, serverVars>>

StopAbandon(c) ==
  /\ death' = "start_failed"
  /\ Goes(c, "abandoning", "removing")
  /\ UNCHANGED <<registered, desktop, sandbox, diskVars, gate, record,
                 startVars, saw, serverVars>>

StopRemove(c) ==
  /\ \E outcome \in {"NothingOwned", "Removed"} :
       /\ RemoveWorkdir(outcome)
       /\ saw' = [saw EXCEPT ![c].removed = outcome = "Removed"]
  /\ Goes(c, "removing", "recording")
  /\ UNCHANGED <<handleVars, gate, record, startVars, serverVars>>

(* The removal failed: record it and answer an error; the handle stays.    *)
StopRetain(c) ==
  /\ RemoveWorkdir("Retained")
  /\ RecordTerminalCleanup("retained")
  /\ gate' = "free"
  /\ Goes(c, "removing", "idle")
  /\ UNCHANGED <<handleVars, startVars, saw, serverVars>>

StopRecord(c) ==
  /\ IF \/ saw[c].plan \in {"Teardown", "Abandon"}
        \/ ClearWritesRecord(death, saw[c].removed)
     THEN RecordTerminalCleanup(
            IF saw[c].removed THEN "removed" ELSE "not_requested")
     ELSE UNCHANGED record
  /\ gate' = "free"
  /\ Goes(c, "recording", "answered")
  /\ UNCHANGED <<handleVars, diskVars, startVars, saw, serverVars>>

(* call_tool drops the handle of a stop that finished.                     *)
StopUnregister(c) ==
  /\ registered' = FALSE
  /\ Goes(c, "answered", "idle")
  /\ saw' = [saw EXCEPT ![c] = Nothing]
  /\ UNCHANGED <<death, desktop, sandbox, diskVars, gate, record, startVars,
                 serverVars>>

Stop(c) ==
  \/ StopBegin(c) \/ StopProbe(c) \/ StopGateTimeout(c) \/ StopEnter(c)
  \/ StopReadDesktop(c) \/ StopChoose(c) \/ StopTake(c) \/ StopTornDown(c)
  \/ StopAbandon(c) \/ StopRemove(c) \/ StopRetain(c) \/ StopRecord(c)
  \/ StopUnregister(c)

(***************************************************************************)
(* The end of a desktop. A taken Session is first asked to close its       *)
(* browsers (at awaits, so dropping the caller drops it there), then torn  *)
(* down on a blocking thread that finishes whoever waits for it: processes *)
(* stopped, browser cookies saved, the disk overlay deleted.               *)
(***************************************************************************)

SandboxExits ==
  /\ sandbox = "up"
  /\ sandbox' = "exited"
  /\ UNCHANGED <<registered, death, desktop, diskVars, gate, record, startVars,
                 stopVars, serverVars>>

BrowsersClose ==
  /\ desktop = "closing"
  /\ desktop' = "tearing"
  /\ UNCHANGED <<registered, death, sandbox, diskVars, gate, record, startVars,
                 stopVars, serverVars>>

TearDown ==
  /\ desktop = "tearing"
  /\ desktop' = "torn" /\ sandbox' = "exited"
  /\ UNCHANGED <<registered, death, diskVars, gate, record, startVars,
                 stopVars, serverVars>>

(* A bug to tell apart: a death recorded with the Session left in place.   *)
CheckLivenessKeepsSession ==
  /\ death = "none" /\ HasDesktop /\ sandbox = "exited"
  /\ death' = "dead"
  /\ UNCHANGED <<registered, desktop, sandbox, diskVars, gate, record, startVars,
                 stopVars, serverVars>>

(* check_liveness, of any tool call or the reaper: no gate.                *)
CheckLiveness ==
  /\ death = "none" /\ HasDesktop /\ sandbox = "exited"
  /\ death' = "dead" /\ desktop' = "tearing"
  /\ UNCHANGED <<registered, sandbox, diskVars, gate, record, startVars,
                 stopVars, serverVars>>

(***************************************************************************)
(* expire_if_idle: the reaper only tries the gate.                         *)
(***************************************************************************)

Expire ==
  /\ reaper = "idle" /\ registered /\ gate = "free"
  /\ IdleExpired(Phase(HasDesktop, death), TRUE, Ttl)
  /\ gate' = "reaper"
  /\ death' = "expired" /\ desktop' = "closing"
  /\ reaper' = "closing"
  /\ UNCHANGED <<registered, sandbox, diskVars, record, startVars, stopVars,
                 shutdown>>

ExpireRemove ==
  /\ reaper = "closing" /\ desktop = "torn"
  /\ \E outcome \in {"NothingOwned", "Removed", "Retained"} :
       /\ RemoveWorkdir(outcome)
       /\ RecordLifecycle("expired",
            [NothingOwned |-> "not_owned", Removed |-> "removed",
             Retained |-> "retained"][outcome])
  /\ reaper' = "idle" /\ gate' = "free"
  /\ UNCHANGED <<handleVars, startVars, stopVars, shutdown>>

(***************************************************************************)
(* run_server's end: the reaper is aborted, then every registered handle   *)
(* is cleaned up, with its gate or, after 20 s, without it. Calls already  *)
(* running go on meanwhile, and the process exits some time after that.    *)
(***************************************************************************)

ShutdownBegin ==
  /\ ServerStops /\ shutdown = "running"
  /\ shutdown' = IF registered THEN "aborted" ELSE "finished"
  /\ \/ /\ reaper = "closing"
        /\ reaper' = "aborted" /\ gate' = "free"
        /\ desktop' = IF desktop = "closing" THEN "dropped" ELSE desktop
     \/ /\ reaper # "closing"
        /\ UNCHANGED <<reaper, gate, desktop>>
  /\ UNCHANGED <<registered, death, sandbox, diskVars, record, startVars,
                 stopVars>>

ShutdownEnter ==
  /\ shutdown = "aborted"
  /\ gate' = IF gate = "free" THEN "shutdown" ELSE gate
  /\ shutdown' = "entered"
  /\ UNCHANGED <<handleVars, diskVars, record, startVars, stopVars, reaper>>

(* The desktop is taken with no terminal status recorded.                  *)
ShutdownTake ==
  /\ shutdown = "entered"
  /\ \/ /\ HasDesktop
        /\ desktop' = "closing" /\ shutdown' = "closing"
     \/ /\ ~HasDesktop
        /\ shutdown' = "removing"
        /\ UNCHANGED desktop
  /\ UNCHANGED <<registered, death, sandbox, diskVars, gate, record, startVars,
                 stopVars, reaper>>

(* A bug to tell apart: a live desktop goes with no record but its status's.*)
ShutdownRemoveUnrecorded ==
  /\ shutdown = "removing" \/ (shutdown = "closing" /\ desktop = "torn")
  /\ \E outcome \in {"NothingOwned", "Removed", "Retained"} :
       RemoveWorkdir(outcome)
  /\ RecordTerminalCleanup("removed")
  /\ shutdown' = "finished"
  /\ gate' = IF gate = "shutdown" THEN "free" ELSE gate
  /\ UNCHANGED <<handleVars, startVars, stopVars, reaper>>

ShutdownRemove ==
  /\ shutdown = "removing" \/ (shutdown = "closing" /\ desktop = "torn")
  /\ \E outcome \in {"NothingOwned", "Removed", "Retained"} :
       LET cleanup == [NothingOwned |-> "not_requested", Removed |-> "removed",
                       Retained |-> "retained"][outcome]
       IN  /\ RemoveWorkdir(outcome)
           /\ CASE shutdown = "closing" -> RecordLifecycle("stopped", cleanup)
                [] shutdown = "removing" ->
                     IF ClearWritesRecord(death, outcome # "NothingOwned")
                     THEN RecordTerminalCleanup(cleanup)
                     ELSE UNCHANGED record
  /\ shutdown' = "finished"
  /\ gate' = IF gate = "shutdown" THEN "free" ELSE gate
  /\ UNCHANGED <<handleVars, startVars, stopVars, reaper>>

-----------------------------------------------------------------------------

StartStep ==
  \/ StartRefuse \/ StartGateTimeout \/ StartEnter
  \/ \E kind \in {"invalid", "internal"} : StartReject(kind)
  \/ StartCreateWorkdir \/ StartRejectLate \/ StartScanHost \/ StartLaunch
  \/ StartFail \/ StartPublish \/ StartReturn \/ StartTimeout \/ StartCleanUp
  \/ RegisterForget \/ RegisterCheck \/ RegisterMark \/ RegisterRecord

DeferredStep == DeferredRemove \/ DeferredRecord

DesktopStep == BrowsersClose \/ TearDown \/ CheckLiveness

ShutdownStep == ShutdownEnter \/ ShutdownTake \/ ShutdownRemove

Next ==
  \/ StartStep
  \/ HostCallReturns
  \/ DeferredStep
  \/ \E c \in Stops : Stop(c)
  \/ SandboxExits
  \/ DesktopStep
  \/ Expire
  \/ ExpireRemove
  \/ ShutdownBegin
  \/ ShutdownStep

Spec == Init /\ [][Next]_vars

(* The runtime runs every ready task; the host call alone may never return.*)
Fairness ==
  /\ WF_vars(StartStep)
  /\ WF_vars(DeferredStep)
  /\ WF_vars(BrowsersClose) /\ WF_vars(TearDown) /\ WF_vars(CheckLiveness /\ shutdown = "running")
  /\ WF_vars(ExpireRemove)
  /\ WF_vars(ShutdownStep)
  /\ \A c \in Stops : WF_vars(Stop(c) /\ ~StopBegin(c))

FairSpec == Spec /\ Fairness

-----------------------------------------------------------------------------
(* Properties.                                                             *)

StartStates == {"queued", "checking", "preparing", "scanning", "launching",
                "published", "cleaning", "failed", "marking", "labelling",
                "done"}
StopStates  == {"idle", "probing", "waiting", "entered", "planning", "taking",
                "closing", "abandoning", "removing", "recording", "answered"}

TypeOK ==
  /\ registered \in BOOLEAN
  /\ death \in Statuses \cup {"none"}
  /\ desktop \in {"absent", "published", "closing", "tearing", "torn", "dropped"}
  /\ sandbox \in {"none", "up", "exited"}
  /\ present \in BOOLEAN /\ owned \in BOOLEAN /\ failures \in 0..MaxFailures
  /\ gate \in Stops \cup {"free", "start", "deferred", "reaper", "shutdown"}
  /\ record \in [status : Statuses \cup {"none"}, cleanup : Cleanups \cup {"none"}]
  /\ start \in StartStates
  /\ error \in {"none", "invalid", "internal", "blocked"}
  /\ hostCall \in {"none", "running", "returned"}
  /\ deferred \in {"none", "waiting", "recording", "done"}
  /\ stop \in [Stops -> StopStates]
  /\ saw \in [Stops -> [busy : BOOLEAN, desktop : BOOLEAN, removed : BOOLEAN,
                        plan : {"none", "Teardown", "Clear", "Abandon"}]]
  /\ reaper \in {"idle", "closing", "aborted"}
  /\ shutdown \in {"running", "aborted", "entered", "closing", "removing",
                   "finished"}

(* registry_phase's comment: a missing desktop always comes with its       *)
(* status, so no reader takes an ended handle for one still starting.      *)
MissingDesktopHasStatus == desktop \notin {"absent", "published"} => death # "none"

(* The workdir is never removed under the start that fills it, the host    *)
(* call that may still write to it, or the desktop that runs in it.        *)
WorkdirInUse ==
  \/ start \in {"preparing", "scanning", "launching", "published"}
  \/ hostCall = "running"
  \/ HasDesktop

WorkdirOutlivesItsUsers == WorkdirInUse => present

(* Only a shutdown that gave up waiting for the gate, 20 s into a blocked  *)
(* start, removes a workdir that is still in use.                          *)
OnlyForcedShutdownPullsWorkdir ==
  [][present /\ WorkdirInUse /\ ~present' =>
       shutdown \in {"removing", "closing"} /\ gate # "shutdown"]_vars

(* A workdir the server owns keeps a handle that session_stop can retry.   *)
OwnedHasRetry == owned => registered

(* No call that could still write this handle's record is under way.       *)
Quiet ==
  /\ start = "done" /\ deferred \in {"none", "done"} /\ reaper # "closing"
  /\ \A c \in Stops : stop[c] = "idle"

(* Does not hold, "its record names what this removal left" (7355): a       *)
(* handle that ended and was cleared left a record for a later server.     *)
EndIsRecorded ==
  Quiet /\ ~registered /\ death # "none" => record # NoRecord

(* What the record says of the workdir is what the disk holds.             *)
RecordTellsTheDisk ==
  Quiet /\ record # NoRecord =>
    /\ owned <=> record.cleanup = "retained"
    /\ record.cleanup = "removed" => ~present

(* Does not hold, "unless a clear removed nothing and the handle's end is   *)
(* already recorded" (14812): a recorded removal stays recorded.            *)
RemovalStaysRecorded ==
  [][record.cleanup = "removed" => record'.cleanup = "removed"]_vars

(* Does not hold, "When a session stops, kwin-mcp saves its Chromium        *)
(* profile cookie databases" (README.md:763): the cookies of a desktop that *)
(* ended are read before its disk goes.                                    *)
TeardownBeforeRemoval == desktop \in {"closing", "tearing"} => present

(* Does not hold, "this cleanup must survive cancellation" (7020) when the  *)
(* reaper is aborted: no desktop is let go of without its teardown.        *)
NoDesktopDropped == desktop # "dropped"

(* A shutdown that got the gate leaves no desktop that ran unrecorded.     *)
ShutdownRecordsDesktops ==
  [][shutdown' = "finished" /\ gate = "shutdown" /\ desktop # "absent" =>
       record' # NoRecord]_vars

(* session_stop always answers, even behind a host call that never returns.*)
StopAnswers == \A c \in Stops : stop[c] = "waiting" ~> stop[c] = "idle"

(* A sandbox that exited is noticed whether or not a tool is called.       *)
DeathNoticed == HasDesktop /\ sandbox = "exited" ~> ~HasDesktop

(* The abstract handle.                                                    *)
Registry == INSTANCE SessionRegistry WITH
  phase  <- IF ~registered THEN "Gone"
            ELSE IF death # "none" THEN "Terminal"
            ELSE IF desktop = "absent" THEN "Starting" ELSE "Running",
  status <- IF registered THEN death ELSE "none"

ImplementsRegistry == Registry!Spec
=============================================================================
