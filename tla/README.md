# kwin-mcp in TLA+

kwin-mcp is an MCP server that gives an agent isolated KWin desktops. One server
process reads JSON-RPC from its client, starts a sandboxed desktop for each
`session_start`, drives it with input, screenshot, accessibility and clipboard
tools, and cleans up after it. This directory models the parts of the server
whose correctness depends on the order of concurrent steps. The code is `src/`;
line numbers below are of `src/src/main.rs` unless another file is named.

Contents: inventory · hard behaviour · modules and how they map to the code ·
runs, bounds and fairness · proofs · findings · what is not modelled · plan.

## 1. Inventory

### Components with state of their own

| Component | Code | State | Operations | Talks to |
|---|---|---|---|---|
| Session handle | struct 6704-6741, 6814-7436, tools 13010-14850 | `death` record, `Option<Session>` behind an RwLock, `start_gate`, `input_gate`, `pending_cleanup`, workdir ownership | `session_start`, `session_stop`, `check_liveness`, `expire_if_idle`, `register_failed_start`, `shutdown_cleanup` | router, sandbox, log, disk |
| Registry decisions | `session_registry.rs` | none | `phase`, `stop_plan`, `stop_is_pending`, `failed_start`, `clear_writes_record` | handle |
| Workdir ownership and sweeps | 7595-8162 | lease and sandbox markers, disk twin, per-process ownership | create, mark, claim, remove, two sweeps at server start | every server of the user, through the file system |
| Router | 19357-20037 | map of handles, attached sessions, shared limit | `resolve`, `call_tool`, `list`, `reap`, forward | handles, control sockets |
| Input order | 20039-20100, 18686-18692 | ticket counters per desktop | enqueue, wait, drop | stdin, router |
| Stdio wire | 20102-20386 | unread bytes, requests in and out, paused/reading/parsing | receive, send, freeze, thaw | client, reload |
| Live reload | 20390-20895 | restore record, kept descriptors | reexecute, reattach, watch | handles, wire, kernel `exec` |
| Lifecycle log | 12388-12785 | two files of rows, each with a lock, shared by servers | append, rotate, migrate, read back | handle, router |
| Control socket | 18696-19142 | socket file, connections | bind, sweep stale, serve, attach, forward | other servers |
| Startup resources and scope | 5946-6652, 11587-11990 | child processes, systemd scope, mounts | launch, diagnose, tear down in order | kernel, systemd |
| Viewer | 10017-10240, 14475-14705, `bin/kwin-viewer.rs`, `input_bridge.rs` | child process, status and activity files, frame mailbox | open, close, pause agent input | handle, user |
| Sent input | 2421-2835, 3208-3578 | keys and buttons held | press, release, drop | EIS, uinput |
| Input audit log | 2835-3205 | records, byte budget | begin, finish | tools |
| Clipboard | 11174-11260, `clipboard.rs` | owned selections per desktop | read, write, watch ownership | Wayland |
| KWin scripts | 305-725 | one lock per KWin | load, run, unload | KWin |
| Wallet mediator | 726-1830 | session-local wallet entries | D-Bus calls, shutdown | apps |
| Browser cookies | `browser_cookies.rs` | saved databases | merge, persist at teardown | disk |
| Accessibility, find_ui, window activation | 10303-12245 | none between calls | queries and waits | AT-SPI, KWin |
| Import, export | `file_import.rs`, 8711, 11495 | none | wait for a stable file, copy | disk |
| Overlays, binds, FUSE bridge | 12-301, 4274-5660 | mounts | mount, serve | kernel |
| Screenshots | 8760-9130 | none | capture, encode | PipeWire |
| Deployment, strict wrapper, CLI, host environment | `bin/*`, 18063-18418, `host_environment.rs` | installed files | install, restore, parse | host |

### What makes each of the main ones correct

* **Handle.** Nobody removes a workdir in use; whatever the server owns can
  still be cleaned by a caller; a handle without a desktop says why; its end is
  recorded once, truthfully; every stop answers; a death is noticed.
* **Input order and admission.** Input keeps arrival order per desktop; no call
  is skipped, lost asleep or left waiting; one driver per desktop; every call
  is answered.
* **Workdirs across servers.** A sweep removes what a crashed server left and
  never what a live one uses, whatever instant the crash chose.
* **Wire and reload.** No request is lost, answered twice or left unanswered
  over an `exec`; a reload never hangs the server.
* **Lifecycle log.** A reader gets the last end and cleanup of a session,
  although several writers append, rotate and migrate.
* **Control sockets.** A serving server stays reachable; a forwarded call runs in the
  process it was meant for or nowhere, and its caller is told which.
* **Processes of a desktop.** Somebody answers for every process until it ended.
* **Input and clipboards.** Nothing stays pressed; text never becomes a shortcut; the
  agent's and the user's clipboards do not reach each other but as asked.
* **Viewer.** What the user lets go of is let go of in the session; the agent gives
  way; "ready" means that the picture is there and the window lives.
* **Wallets.** The host is asked rarely and by one at a time; what an app was answered
  stays true for its next call.

### How they interact

`receive` reads a line, reserves the input turn and hands the request to its own
task. The task runs `call_tool`: resolve the handle, check its liveness, wait
for turn, `input_gate` and a permit of the shared limit, run the tool. Lifecycle
tools take `start_gate` inside that. A reaper task visits every handle and
applies the liveness check and the idle limit. A reload freezes the wire, takes
every `start_gate`, saves the handles and replaces the process image. Shutdown
aborts the control socket and the reaper, then cleans every handle up. Servers
of one user share the file system, the lifecycle log and each other's control
sockets, and no lock but the ones they take on files.

### Behaviour that is hard

Steps that hold no common lock (liveness check against stop, registration of a
failed start against its deferred cleanup); futures dropped at an await (the
reaper's abort, the reaper's 2 s limit, an input call interrupted by the
viewer); a host call that never returns; two locks taken in two orders; wake-ups
beside a counter; a crash between two file operations; one log for many writers.
`PROJECT.json` lists each hazard at its line with the properties that cover it.

## 2. The modules

| Module | Models | Role |
|---|---|---|
| `SessionPhases` | `session_registry.rs` | pure decisions, shared by the next two |
| `SessionRegistry` | what a handle promises its callers | abstract specification |
| `SessionLifecycle`, `MCSessionLifecycle` | one handle and everything that moves it | detailed specification |
| `TurnOrder` | README.md:798, "retain arrival order within a desktop" | abstract specification |
| `InputOrder` | `InputOrder`, `InputTurn` and their `Notify` | component |
| `CallAdmission`, `MCCallAdmission` | `call_tool` around a tool: turn, gates, permit | composes `InputOrder` with the gates |
| `WorkdirSweep` | the workdirs of all servers of a user and both sweeps | component |
| `SessionWire` | `SessionStdio`: receive, send, freeze, thaw | component |
| `Reload`, `MCReload` | `watch_reload`, `reexecute`, `reattach` | composes `SessionWire` with the handles |
| `SessionControl`, `MCSessionControl` | control sockets, attach, forward, `--keep-sessions` | component |
| `DesktopProcesses`, `MCDesktopProcesses` | the host processes of one desktop | component |
| `LifecycleLog` | the log files shared by servers of two versions | component |
| `HostWallet` | the snapshot of the host wallet | component |
| `SessionWallet` | the wallet the session's apps see | component |
| `Stores`, `MCStores` | what several processes of a user keep at once | the three above and `WorkdirSweep` side by side |
| `SentInput` | input tools, EIS queue, input log's memory | component |
| `Clipboards` | session and host clipboard, viewer handoff, reload | component |
| `ViewerInput` | what the window forwards, how the agent gives way | component |
| `ViewerWindow` | local and remote viewer, their reports | component |
| `DesktopInput`, `MCDesktop` | what reaches a desktop and is shown of it | the four above side by side |
| `SessionLifecycleProofs`, `CallAdmissionProofs`, `ReloadProofs`, `SessionControlProofs`, `DesktopProcessesProofs` | | theorems about the module each is named after and what it extends |
| `StoresProofs` | | theorems about `WorkdirSweep`, `HostWallet`, `SessionWallet` and `LifecycleLog` |
| `DesktopInputProofs` | | theorems about `ViewerInput`, `ViewerWindow`, `Clipboards` and `SentInput` |
| `DataInduction` | | induction over numbers and recursive functions, for the last two |

`Stores` and `DesktopInput` put components side by side that share no state: each is
extended or an instance, and its properties have a name there for the runs and the
theorems. `MCStores` and `MCDesktop` choose one of them (`part`) in the initial state and
let it alone move, so a run covers each component's own state graph and none of the
pointless interleavings. An operator that stands for a plausible bug (`TakeSlotAtAge`,
`FocusLostKeepsKeys`, ...) is defined before the definition it would replace; no
specification uses it.

### SessionLifecycle

State: `registered` is the router's map entry; `death` the mutex-guarded terminal
status; `desktop` where the one published `Session` value is (in the RwLock, or
taken by whoever is `closing` its browsers or `tearing` it down, or dropped
without); `sandbox` the sandbox process; `present`, `owned` the workdir with its
disk twin and the claim on it; `gate` the holder of `start_gate`; `record` what
the lifecycle log would answer for this ID; and one program counter for each of
`session_start` (`start`, with the class of its `error`), its blocking host call
and deferred cleanup, every `session_stop` (`stop`, with what it `saw` and has
not used yet), the reaper and the shutdown.

A step covers what the code does under one lock acquisition or between two
awaits. So `StopReadDesktop`/`StopChoose` read the desktop and the status in two
steps as `registry_phase` does, `RegisterCheck`/`RegisterMark`/`RegisterRecord`
are the three separate moments of `register_failed_start`, and
`CheckLiveness` may fall between any of them: it takes no gate. `StartTimeout`
hands gate and cleanup to the deferred task when the 20 s limit finds the host
call blocked. `ShutdownEnter` continues without the gate, as the code does when
it stays taken for 20 s.

Abstracted: the tools of a running session, the sandbox's internals (one process
that is up or has exited), times (a limit may strike whenever what it guards is
still waiting), messages, paths, and the parameters of `session_start` (a start
may be rejected at the two places where the code can reject it). `RecordLifecycle`
folds the log's supersede rule into what a reader would see for one handle.

### InputOrder and CallAdmission

`InputOrder` has per desktop the three counters of the code (`next`, `serving`,
`done`) and per call its `ticket`, its place in `wait` and whether a
notification reached it since it enabled one (`woken`). `Enable`, `Check` and
`Await` are the three moments of `InputTurn::wait`; `Retire` and `Notify` are the
two halves of `Drop`, before and after the mutex is let go. A turn may be retired
before its call waited, which is what an early error reply does. The order of
another server's desktop is reached through a `Weak`: `Restarts` says when the
next call finds nothing behind it and starts a new order.

`CallAdmission` extends it with the place of each request in `call_tool`, the two
gates and the permits. Ordered calls take turn, `input_gate`, pause check, permit;
`viewer_open`/`viewer_close` take permit, `start_gate` (with its deadline),
`input_gate` (without one); calls forwarded here from another server take no turn;
calls for another server's desktop take only a turn. `Finish` stands for a tool
that returns and for agent input the viewer interrupts: both release what the
tool's body took. Abstracted: what tools do, the viewer's quiet period (the check
may find it quiet or not), messages.

### WorkdirSweep

A workdir stands with the server that made it. `server` is where that server is:
creating directory, lease, lock and twin, spawning and marking the sandbox, running,
removing twin, lease and directory, done or dead. `dir`, `twin` and `linked` are what
the file system holds; `marker` what the lease says, which an open descriptor still
reads after the file is unlinked; `lock` the holder of its lock. A sweeper goes
through the orphans, then the leaked workdirs, then the leaked twins; `seenRefs` is
what it read of the command lines before the second of these, and may be stale.

Each system call that another process can see is a step: `CreateLease`/`LockLease`,
`Visit` (the open)/`TryLock`/`TakeOrphan`, `Visit`/`TakeLeak`/`SweepDir`. A removal is
twin, lease, directory, as `remove_dir_all` empties what it removes; it may fail
between any two, and server and sweeper may be killed between any two steps. A killed
server's sandbox may live on. `Close` may leave the sandbox too: `terminate_child` does
not wait for a process blocked in the kernel.

Abstracted: the mounts (`LeaveRest`, a sweep that finds one leaves the workdir), the
contents of the directories, reuse of a process ID (a live process of that ID only
makes a sweep wait), several workdirs of one server, the list of owners that
`--sweep-workdirs` may be given, and the exec of a reload, which keeps the lease open.

### SessionWire and Reload

A line of stdin is two chunks, because a read may end inside one. `receiver` is where
the service's loop is in `receive()`, `freezer` where the reload watcher is in
`freeze()`; `stirred` and `roused` are notifications that reached each since it enabled
its `Notified`. Every place that lets the mutex go is a step, and `TakeAnswer` may drop
`receive()` at any await, as the service's `select!` does. A dropped read that has
eaten input leaves it in `input`; one dropped while it waits for bytes leaves `reading`
set (`Stranded`), which is why `FreezeSettles` excepts that.

`Reload` extends it. Handles are in any state their lifecycle leaves them in when the
wire is frozen; the liveness check, expiries and forwarded stops go on beside
`TakeGate`/`ReadStatus`/`WriteHandle`. `Exec` keeps what the code keeps: descriptors
without close-on-exec and the memfd. `RestoreEnds` applies the saved sessions, then the
workdirs to clean up, then the statuses, in the order of `reattach`. `original` is the
handle when its gate was taken, against which `ReloadKeepsHandles` compares.

Abstracted: the build of the new binary, the session's fields that are copied as they
are, and the contents of messages.

### LifecycleLog

Two files of whole rows, `file["legacy"]` and `file["current"]`, each under a lock of its
own. `append_lifecycle_record` writes a row at once where there is room (`AppendRow`); to a
full file it is three steps under the lock: `Empty` (12567-12595), `WriteBack` of all but
the oldest row (12596-12597), `AppendRow`. A newer server moves the rows which older
readers cannot parse, under the lock of the legacy file: `Split`, an append per row,
`LockCurrent`, `Truncate` and `Rewrite`; an older one appends to the legacy file. A server
may be killed between any two steps: its locks are free, and what it had in hand of a file
it emptied (`InHand`) is gone. `Supersedes` decides between rows of one session. Lookups
read the two files one after the other. History: `acked`, the rows whose append returned;
`dropped`, the rows that made room; `lost`, those that a kill took; `known`, what was
acknowledged when a lookup began. Abstracted: the fields of a row, the size of the file
(rows are counted), a write cut short by a full disk or a kill, the recovery copy that
nothing reads, and the truncation of a file longer than the limit (12642), which no append
leaves behind.

### SessionControl

Server processes of which two have one PID, one after the other. A socket file names
the socket it was bound to; `/proc/net/unix` is what a sweep read of it at its start,
and may be stale. The sweep looks, probes and unlinks in three steps; `BindLook`,
`BindClear` and `Bind` are the server's own. A call verifies the owner's PID and start
time, connects, verifies again, sends, runs, and returns, and may lose its connection
before or after it ran. Every server may be killed, reloaded, signalled or left by its
client at any step. Abstracted: one desktop per server; the PID of one server is never
the caller's own, and no PID is used again between a sweep's look at a socket and its
unlinking.

### DesktopProcesses

For each process the state the kernel has it in, who holds its `Child`, and its
request to the main thread, which spawns it if the asker still waits (`Spawn`), sends the
`Child` over the oneshot channel (`Send`), or ends it when the receiver is gone; the asker
takes it out in a step of its own (`Receive`). `session_start` goes through its stages and
may fail or be dropped at each; what its guard `StartupResources` holds then ends in a
cleanup of its own, and what only its future holds, a `Child` still in the channel or a
proxy whose socket it polls for (`InFuture`), keeps running: `strayed` remembers it.
Only the start is dropped: `session_start` alone runs under a limit (13084), the `select!`
that drops a call (19930) is for agent input, and viewer tools are not.
`viewer_open` and `viewer_close` take the viewer out of the `Session` and put it back;
teardown goes through browsers, wallet, viewer, scope, sandbox, cookies, services and
twin in the code's order. `KernelEnds` separates a SIGKILL sent from a process gone.
Abstracted: the command line, files and memory limits. The sandbox is one process:
`terminate_child` looks no further once the leader of the group has exited (6543).

### HostWallet and SessionWallet

`HostWallet`: `slot` is the lock on the snapshot file, `spaced` whether its modification
time is old enough, `marker` the file that says kwalletd6 did not answer. The steps are
the D-Bus calls in their order, each of which may be the last one (a limit, an error, the
budget). The services change between any two steps. `SessionWallet`: a call's task takes
the state lock twice (`FindName`, then its work) and answers after it let it go;
`SaveState` and `StartState` (or `ExecFails`) are the reload, `Shutdown` the teardown. The
tasks go on between save and exec; `settled` keeps every answer that reached an app, and
`forgotten` names those that the saved state does not know. Folders and entries are the
number of changes made.

### SentInput

A tool is the sequence of its events. `queue` holds requests in the EIS context no
flush has sent; with a full socket a part of them goes, and the rest with the next
flush. `keys` is what `SentInput` has pressed and not released, `held` what the input
log takes for pressed; they are updated in the code's order around a flush and a log
line that can each fail. `Stop` drops the tool at any of its awaits, `Drop` is
`SentInput::drop`, which sends a release for whatever is left, delivered or not.
`down` is what KWin holds down; the properties read `After(queue, down)`, which is
what it will hold down. Abstracted: key tables, layouts, pacing, the log's byte
budget. One letter key, one combination.

### Clipboards

Two selections, each with the process it lives in: it is gone with it. `chord` is the
viewer's input thread (what `ClipboardBridge::before` does before the key is
forwarded), `restore` the thread that puts the agent's selection back, `store` the
server's `ClipboardStore` and the reload. Waits may end at any time. `generation`
counts changes as the code's does; a change between a write and the reading of the
generation is taken for the store's own, as in 11227-11231. Abstracted: all MIME types
are one text, PRIMARY is a flag (`marked`).

### ViewerInput and ViewerWindow

`ViewerInput`: `down` is what the user physically holds, `heldKeys`, `heldButtons`,
`activeTouch` are the window's fields, `pressed` what the session has down for it. The
window gets keys only with the focus, but buttons and fingers to their end. Each send
first sets the activity marker (`quietFor`). `CallStarts` and `CheckViewer` are the
router's look before and during an input call; `Tick` is one check interval.

`ViewerWindow`: the server's child and a remote viewer write one status file through
one temporary file (`WriteTemporary`, `Rename`). The window's thread maps, waits,
draws, beats; the feed and the user end it through the `shutdown` flag, looked at in
the draw callback. `Report` is `viewer_report`. Abstracted: drawing, scaling, NumLock,
the bytes of the two streams.

## 3. Runs

| Run | Question | Result |
|---|---|---|
| `lifecycle_handle` | A server that keeps running: do workdir, status, record and callers stay in step, do all stops answer, is a death noticed, does the handle implement `SessionRegistry`? | holds |
| `lifecycle_shutdown` | The same with a shutdown at any moment: is every torn-down desktop recorded, and does only a shutdown that gave up on the gate pull a workdir in use? | holds |
| `admission` | Two ordered calls, a viewer change and a stop on one desktop with two permits, or two calls to another server's desktop and a forwarded call: order, wake-ups, one driver, every call answered? | holds |
| `sweep` | A server killed anywhere, a sweep killed anywhere and the timer's sweeps: is only what nobody uses removed, and is it removed? | holds |
| `reload` | A reload at any moment of the wire's work while handles die, expire and are stopped: is a line, a call, a lease, a status or a workdir lost, does the freeze end? | holds |
| `control` | A sweep, an attach and a forwarded call beside servers that are killed, reloaded, left by their client and follow one another under one PID: is the serving one reachable, is the attached one reached, is the caller told the truth, does a drained server end? | holds |
| `processes` | A start dropped anywhere, viewer tools, a liveness check, stops and stubborn processes: is somebody left to end each one but the one that a dropped start let go, does it end, and only then the files? | holds |
| `stores` | The log under two versions and kills; the host's wallet under three servers; a session's wallet under three calls and a reload: is a row lost but to a kill in the middle of a rewrite, an answer but between save and exec, is the host spared? | holds |
| `desktop` | Input tools dropped, failing and meeting a full socket anywhere; the clipboards under user, agent, application and reload; the window's input with focus, buttons and fingers in any order beside agent calls; two viewers and their reports: is anything left pressed or stuck, is text a shortcut, does the right text arrive and come back, does the agent give way, is "ready" true? | holds |
| `permit_deadlock` | Are reads never starved by queued input? | violated, finding 1 |
| `reload_dead_desktop` | Does a reload preserve live sessions? | violated, finding 2 |
| `dropped_start` | Does the guard own whatever a cancelled start spawned? | violated, finding 3 |

### Bounds

* Handles: two `session_stop` calls (the races of stops are between one that decides
  and one that acts), one failed removal and its retry. Handles share nothing in this
  module but the log, whose answers are per session ID. The theorems hold for any set.
* Admission: two calls with turns exercise early drops in both orders; one more call
  of each other kind makes every pair of lock orders meet. Two permits for one
  desktop, as the deadlock of finding 1 needs as many blocked desktops as permits; the
  run that shows it has one. Requests are one-shot.
* Sweeps: workdirs meet only in a sweeper's list, so one workdir, one sweep that may
  fail and the timer's sweeps show every race; the theorems hold for any number of
  each.
* Reload: two lines (one that follows another half read, one that is no message), two
  handles (one written while the other one changes), one reload. The initial state is
  any number of lines already answered and handles in any state, so a second reload
  starts from a state the first one does.
* Control: two processes of one PID, one of another, an attach and a call, one reload;
  a sweep looks at its entries one by one, and two are enough for it to have read the
  second one's state before it acts on the first.
* Processes: two viewers, so that a second one may start while the first one ends.
* Stores: two rows per session and three per file, so that rotation, migration and a
  second end all happen; three servers at the slot, one with the Secret Service
  switch; three calls of two apps, two handles, one reload.
* Desktop: three operations (one that leaves something queued or held, one that meets
  it, one more), a text that needs shift to go down and up; three changes of a
  clipboard beyond what a handoff in progress does.
* Viewer: a modifier and a letter, both buttons, two fingers, a quiet period of three
  intervals; `MaxBeats = 1` and a file stale after two heartbeats, so that a report is
  fresh, stale and renewed. The theorems have no bound.
* `CHECK_DEADLOCK FALSE` is said where the system may stop: a handle cleared for good,
  a server ended, a process gone, a bound used up. In `CallAdmission` a finished run
  is an explicit step (`AllReplied`), so the `admission` run does check for deadlock.

### Fairness

`FairSpec` of `SessionLifecycle`: the runtime runs every ready task, so each step
of a start, stop, deferred cleanup, teardown and shutdown that stays enabled is
taken. Nothing obliges a client to call (`StopBegin`), a start to meet an error, a
sandbox to exit or the blocked host call to return (`HostCallReturns`): the
properties hold "even behind a host call that never returns". The liveness check
is fair while the server runs because the reaper is spawned unconditionally and
visits every handle. That assumes the diagnosis of a dead sandbox ends within the
2 s the reaper grants it (6741): its `systemctl` query alone may take 2 s
(6000), and if systemd does not answer every check is dropped before the status is
set. `DeathNoticed` does not speak of that case (section 5).

`Fairness` of `CallAdmission`: weak fairness of every call's next step. tokio's
mutexes and semaphore serve waiters first come, first served and each request
runs once, so weak fairness is not more than they give. That a tool ends
(`Finish`) rests on the limits each tool has.

`FairSpec` of `WorkdirSweep`: a sweep under way goes on (or is killed), the timer
(18359: "kwin-mcp-shim runs this on a timer") starts another, and a sandbox ends
some day: it is sent SIGTERM when its parent dies. A server is never obliged to do
anything. The timer's own sweeps meet no mount and no failing removal, which says
that not every sweep does; the other sweeps may.

`Fairness` of `Reload`: the runtime polls every woken task of the wire. No call has to
end and no client has to write, so `FreezeSettles` says that the freeze waits for
running calls and for nothing else.

`Fairness` of `SessionControl`: a server's own steps (its start, its polls, its exit)
wait for nobody. No peer has to answer. `DrainEnds` needs the idle time to pass
(`TimePasses`), which forwarded calls may interrupt again and again only within their
bound.

`Fairness` of `DesktopProcesses`: threads and tasks run, the kernel ends what has a
SIGKILL pending, a start that hangs reaches its deadline. Nobody has to call a tool,
and no process has to exit by itself.

The other modules state no fairness, and their runs check no liveness.

## 4. Proofs

Everything below is checked by TLAPS for every value of the constants: any number of
callers, servers, lines, workdirs, rows, viewers and keys, and texts of any length. The
safety properties of all passing runs are among them.

| Theorem | Says |
|---|---|
| *`SessionLifecycle`, `SessionRegistry`* | |
| `TypeCorrect` | type invariant |
| `RetryStays` | an owned workdir keeps a registered handle, also through a shutdown |
| `StatusBeforeDesktop` | a handle without its desktop has its status (while the server runs) |
| `WorkdirKept` | no workdir is removed in use (while the server runs) |
| `RecordsTellTheDisk` | once no call is under way the record says what the disk holds (while the server runs) |
| `Refinement` | `SessionLifecycle` implements `SessionRegistry` (while the server runs) |
| `OnlyForcedShutdownsPull` | only a shutdown that gave up on the gate pulls a workdir in use |
| `ShutdownRecordsItsDesktop` | a shutdown that has the gate leaves a record of every desktop it tears down |
| *`CallAdmission`, `InputOrder`, `TurnOrder`* | |
| `OrderRefinement`, `CallsKeepArrivalOrder` | the tickets, and whole calls, implement `TurnOrder` |
| `CallsAreWoken` | no call sleeps at its own turn without a wake-up under way |
| `CallsAreNotSkipped` | the ticket being served is always still held |
| `AdmissionTypeCorrect`, `DesktopHasOneDriver` | types; one driver per desktop |
| *`Reload`, `SessionWire`* | |
| `TypeCorrect` | type invariant: what is saved and restored is a handle |
| `LinesInOrder` | taken, held, buffered and unread lines are what the client wrote, in order, each once |
| `CallsAreAnswered` | no image is replaced under a call that runs or is half answered |
| `LeasesStayLocked` | an owned workdir's lease is locked through copy, exec and adoption |
| `HandlesAreKept` | a handle that was written keeps status, workdir and desktop |
| *`SessionControl`* | |
| `ServersAreReachable` | the socket file of a serving server's PID is its own |
| `CallsReachTheAttached` | a forwarded call runs in the attached process or nowhere |
| `AnswersAreTrue` | "not forwarded" is said only of calls that never run, an answer only of one that ran |
| *`DesktopProcesses`* | |
| `ProcessesTypeCorrect` | type invariant |
| `ProcessesAreOwned` | every running process has somebody who will end it, but for one, at most, that a dropped start was sent or waited for |
| `NoSecondViewer` | one viewer at a time |
| `SandboxEndsFirst` | cookies and workdir are touched only when the sandbox has ended |
| *`Stores`* | |
| `ServersKept` | no sweep removes anything of a workdir whose server is still with it |
| `OrphansAreDead` | the orphan sweep removes nothing under a sandbox |
| `LoneTwins` | a twin without its workdir is no living server's |
| `HostSpared` | the host's wallet is asked by one server at a time, kwalletd6 not while its marker is fresh |
| `AnswersCount` | a wallet answer stays true for the app's next call, over any number of reloads, unless it was given after one of them saved the state |
| `RecordedRowsAreKept` | an acknowledged row is in its file, or in the memory of the living server that rewrites it, until later ones take its place or a kill takes that memory |
| `LookupsAreCurrent` | a lookup answers the latest row acknowledged before it that neither made room nor was lost to a kill, or a later one |
| *`DesktopInput`* | |
| `UserLetsGo` | nothing is pressed in the session that the viewer's user let go of |
| `GivesWay` | agent input shares the desktop with the user for less than one check interval |
| `ReadyTellsTheTruth` | a viewer called ready shows the session and its event loop ran lately |
| `AgentTextIsBack` | the agent's text returns after every undisturbed copy, paste and reload |
| `ShortcutsCarryUsersText` | a shortcut nothing came in between carries the user's text |
| `ReloadsOverwriteNothing` | a reload overwrites no later selection |
| `NothingIsLeft` | between operations KWin holds what the input log takes for held, and only what `keyboard_press` left |
| `TextStaysText` | no character is queued with a modifier down but the shift it needs |

Hardly any of the properties is inductive. What follows says what each invariant adds.

**Lifecycle.** `IInv` adds who holds the gate
in each phase of each caller (`GateHolder`), where a desktop that is not published
came from (`DesktopOrigin`), that a blocked host call keeps start or deferred
cleanup on the gate (`HostCallOwner`), which errors leave which cleanup
(`FailureKind`), what a stop that has read the phase may still rely on
(`StopKnows`: the phase it read can only have moved on in ways its plan allows),
how a failed start comes to be forgotten (`HandleLeft`) and that ownership implies
presence. One lemma per conjunct shows every action keeps it. The theorems "while
the server runs" assume `~ServerStops`, because a shutdown that gives up on the gate
does break them.

**Records.** `RecordIsTrue` says of every moment what the property says of quiet ones: the
label is true of the workdir, except while the stop that has just removed a retained one
is on its way to record it. `RecordWriters` keeps the writers apart: the deferred cleanup
of a blocked start writes only where no record is, because the registration of that
start leaves the record to it.

**Shutdown.** A shutdown either has the gate, and then no call is in the middle of its
own work on the handle, or has given up on it: `ShutdownGate`. Until it looks at the
handle, a desktop that is gone has a status, no stop abandons one, and a workdir in use is
owned (`BeforeInv`). `EndAccounted` names who will record an end that is not recorded yet:
whatever clears a dead handle, the stop that stopped it, whatever removes an expired
workdir.

**Admission.** `OrderInv` says where the tickets are: every number between
`serving` and `next` is retired or is the ticket of exactly one call still there,
and the served one is not retired. `RetireEffect` shows that `Drop` moves the
counter past retired numbers only. `NoLostWakeup` is inductive with it: whoever
moves the counter is `notifying` until it has woken every listener. Refinement
maps "ahead of me" to the smaller tickets still out. Each step of `CallAdmission` is
a step of `InputOrder` or leaves it alone (`StepsAreOrderSteps`), so whole calls
inherit its theorems. `DesktopHasOneDriver` needs `InputHeld`: from its gate to its
drop an ordered call is the gate's holder, a viewer call while its tool runs.

**Wire and reload.** The order of lines is shown place by place instead of by comparing
sequences: the k-th chunk that the client ever writes is known, and `PlacesInv` says which
k the buffer and the pipe begin with, counting the lines that left and the one being
parsed. `FreezeInv`: a frozen wire is quiet, and a paused one starts nothing, so no
call runs when the image is replaced. `GateInv` says what a held lifecycle gate still
lets happen to its handle (a status where there was none, no removal); `SavedInv` follows
the written copy through the exec to the place in `reattach` that applies it, and
`LeaseInv` says which of claim and copied descriptor locks the lease at each of these
steps. Handles move beside each other: one lemma says what another handle's step leaves
of this one.

**Control sockets.** No lock is held between two steps of different servers. What carries
the invariant is that a PID is one living process (`OneOfPid`). So nobody lives under the
PID whose file a sweep is about to unlink (`SweepInv`), although it read the table of
sockets long before; the file of a living PID is that process's (`SocketInv`); and
the process found by a connection whose owner was verified after it was made is the
attached one (`CallInv`, in three parts: the open connection, the request, the answer).

**Processes.** `HolderInv` hands every process on: the main thread has it until it sends
it, the channel until it is received, the startup guard until the start is over, the
`Session` from then on, the teardown or a waiting thread at the end. The start asks for one
process at a time and is over once it is dropped, so one process at most strays, the one
the start was at. `ViewerInv` does the same for viewers: one is in the `Session` or with
the one viewer tool that asked for it or took it out, and while the tool has one the
`Session` shows none that runs. `TeardownInv` and `FilesInv` order the end. Steps that only
end processes share a lemma (`OnlyLess`, `OnlyEnding`).

**Sweeps.** A sweep checks first and removes later, so the invariant must carry what
it checked over the steps between. `ServersLock`: from its lease on a server holds the
lock, and a complete marker exists only while it does or after it is over.
`SweepersLocks`: a sweeper at work on an orphan holds that lock. Together they say that
the server of a locked, marked workdir is over, so nothing spawns a sandbox after
`kill` said there is none: `SweepsKnow`. `WorkdirFrames`, the order in which directory and
twin come and go, gives `LoneTwins`. One step per action.

**Host wallet.** `SlotHeld`: whoever waits for its spacing or reads holds the lock file.
That is "one at a time"; it is also why the marker cannot become fresh under someone who
asks kwalletd6, since only the holder writes it and stops asking when it does.

**Session wallet.** `PromiseInv`: the state honours every answer that was given and not
forgotten, and the saved state every such answer that it knows. The two differ by the calls
that ran between save and exec; the exec makes those of them that were answered `forgotten`
and the others lost, and whoever asks later was told of no third kind (`AnsweredInv`).

**Log.** A file's rows are `Here`: in it, with the server that holds its lock and rewrites
it, dropped or lost. `LockInv` says who holds a lock and where in an append or a migration,
and that one who has a file emptied holds its lock; it gives a migration the legacy file
for itself. `HereStays`: nothing leaves `Here`, except that a migration takes from the
legacy file what `MoveInv` knows to be in the current one. `MoveInv` says where each row is
between the migration's steps: in the part to be written back, in the current file, or in
the part still to be moved. `RowInv` says where an acknowledged row may be, and
`LookupInv` that a lookup between its two reads has found whatever is not in the file it
has yet to read: rows move in the direction of the reading and never against it, and a
file that can be read is in nobody's hand. Neither theorem speaks of what a kill in the
middle of a rewrite took (`lost`); section 5 says that it happens (`RecentRowsRetained`).

**Viewer.** `KeysInv`: what is pressed for the window is in `heldKeys`, which is empty
without the focus. `ButtonsInv`: until a button goes down during a touch, the count
`held_buttons` is the number of buttons down and a finger has the pointer only at
zero, so that lifting the finger releases nobody else's button. `AgentInv` says how
old the marker may be between two checks of a running call. `Honest`, of both files of
the window's reports: one that says the local viewer is ready was written after a frame
was shown, and while it is fresh the event loop has rested no longer than it is old.

**Clipboards.** `JoinInv`: a shortcut reads nothing before the restore thread of the last
one has ended. `BackInv`: until somebody else interferes, the agent's text is in the
session, in the handoff that is to put it back, or in the reload that is. `LentInv`
follows what an undisturbed handoff carries, `StoreInv` what the store may believe about
the generation it remembers.

**Sent input.** The properties speak of `After(queue, down)`, what KWin will hold down,
and a flush may send any part of the queue: `AfterInParts` shows that this changes nothing
(some requests now and the rest later come to the same), so each event acts on the
whole. `HistoryInv`: KWin and the input log differ only in keys that the operation's
`SentInput` still has. `TextInv`: the modifiers down while text is typed are
keys of that `SentInput`, and a ctrl that is down is released before the first
character (`CtrlIsFirst`).

**Data.** `After`, `type_with_profile`, `Latest` and `Rows` are recursive functions over
sequences. `DataInduction` proves induction from the library's fact that finite sets are
well-founded under inclusion: every non-empty set of numbers has a least one, a set closed
under successor has all of them (`Inductive`), and a recursion whose step is a function
has a solution (`FoldExists`).

Assumptions: the named assumption of each module, evaluated by TLC in the runs of that
module or of the module that instantiates it (callers, servers, viewers, keys, buttons
and fingers have distinct names; the values for "nobody" and "nothing" are not among
them; kinds, owners and desktops fit; bounds are numbers). The theorems about an instance
take its assumption as a hypothesis.

Model-checked only: every liveness property (`StopAnswers`, `DeathNoticed`, `MarkedIsReaped`,
`FreezeSettles`, `DrainEnds`, `EndedLeavesNothing`, `EveryCallAnswered`), as fairness is
out of the prover's reach.

## 5. Findings

Three are runs that end in a violation of what a comment or the README says.

1. `ReadsNotStarved` (14681, 14501). An ordered call waits for a permit while it holds
   `input_gate`; a viewer call waits for `input_gate`, without a deadline, while it
   holds a permit. As many such desktops as permits (one on a single-CPU host) stop
   every call of the server for good.
2. `LiveDesktopsSurvive` (20964). A desktop that died just before a reload, unrecorded,
   cannot be reattached; the error ends the server with every other desktop.
3. `GuardOwnsChildren` (4029, 3995). The comment on `StartupResources` (6576-6578) says that
   a cancelled start detaches no process. The main thread's `reply.send` succeeds while the
   receiver is there; if the start's time is up before its future is polled again
   (4059-4061), the `Child` is dropped in the channel and its process, which may be the
   sandbox, runs until the server ends. So does a proxy whose start is dropped while it
   polls for the proxy's socket: it joins the guard only after that.

The following statements stand in the modules as formulas that do not hold either. They
have no run of their own; adding one to the properties of the run named shows its
counterexample.

| Statement | Run | What the code does |
|---|---|---|
| `EndIsRecorded` | `lifecycle_handle` | If the host call of a blocked start returns between the timeout's answer and `register_failed_start`, the deferred cleanup (7357) sees no status and writes no record; the stop that clears the handle removes nothing and writes none either. |
| `RemovalStaysRecorded` | `lifecycle_handle` | The second of two stops on a dead handle replaces `removed` by `not_requested` with a later time (14828). |
| `TeardownBeforeRemoval` | `lifecycle_handle` | A stop may remove the disk twin while the teardown of the dead desktop (7022) still has cookies to read from it. |
| `NoDesktopDropped` | `lifecycle_shutdown` | Aborting the reaper (21086) while it closes browsers drops the taken `Session`; its teardown never runs. |
| `LeakedIsReaped` | `sweep` | A server killed between `create_lease` and `mark_sandbox` leaves an empty lease; the orphan sweep passes over an incomplete marker (7913) and the other sweep over any lease. `MarkedIsReaped` shows that everything else is reaped. |
| `SurvivorsKeepWorkdir` | `sweep` | The second sweep reads the command lines (7961) before it lists the directories; a workdir created between, whose server is killed at once, is removed under its sandbox. |
| `RetriesAreRecorded` | `reload` | A handle reattached only for its workdir has no session ID (20622); the stop that removes the workdir cannot be recorded, and the log says retained for ever. |
| `EveryHandleIsTold` | `reload` | `reexecute` reads the status (20669) before it waits for the session lock; a death recorded between leaves the handle with neither desktop nor status (20676). |
| `SavedIdsReachTheirOwner` | `control` | A saved ID is a PID and a number counted from 1 (19424); without `session_attach` it reaches whichever server has that PID now. |
| `RecentRowsRetained` | `stores` | "The log is capped at 1 MiB and retains recent records" (README.md:788 of the repository). To append to a full file it is emptied (12595) and then written again (12597); a server killed between the two takes every record of it along, also those of others. A migration killed between 12763 and 12765 does so with the rows it would leave in the older file, but for a recovery copy that nothing reads. `RecordedRowsSurvive` and `AnswersAreCurrent` hold of every row that no such kill took. |
| `WritesStayInTheSession` | `stores` | Writes to the session's wallet "stay in the session and end with it" (README.md:235 of the repository). A live reload saves the wallet (20740) and replaces the image later (20786), and nothing stops the mediator's tasks between the two: a write, or a handle, that was answered there is gone in the new image, while app and session live on. `AnsweredCallsCount` holds of every other answer. |
| `HeldUntilReleased` | `desktop` | Another combination that is released, or dropped, takes a modifier that `keyboard_press` left down. |
| `OwnershipSurvivesReload` | `desktop` | When another client changed PRIMARY, a reload does not write the agent's text again (11247-11261). |
| `PressedIsHeld` | `desktop` | A button that goes down during a touch is not counted (kwin-viewer.rs:1576), so a drag after it may not move. |

Met on the way, without a formula:

* README.md:132 of the repository says workdirs without a lease marker "remain for
  individual review", but a server started with `--autoclean` runs
  `sweep_dead_owner_workdirs` (20946), which removes them.
* The reaper gives each liveness check 2 s (6741), and the diagnosis of a dead sandbox
  asks `systemctl` with a limit of 2 s itself (6000): a systemd that does not answer
  keeps a death from being recorded by the reaper.
* The shutdown flag of a viewer is looked at in the draw callback, which the
  compositor does not call for a hidden window: the viewer stays until the server ends
  it (kwin-viewer.rs:921).
* Reading the host wallet may take 6 s by each of the two ways, and the budget for
  both with the wait for the slot is 12 s: after a wedged kwalletd6 the second way may
  be cut short.
* Two threads of `kwin-viewer --serve` report through one temporary file, so one's
  report may be renamed with the other's content.
* A reload forgets which sessions the client had attached; an ID then goes the way of
  `SavedIdsReachTheirOwner`.
* A log row cut short by a full disk makes later lookups fail at it; nothing repairs
  it.
* A live reload makes a new EIS connection (20549) but carries the input log's history of
  what is held over (20517), whatever KWin does with the keys of the old connection.
  `SentInput` has no reload, and its theorems say nothing of the input after one.
* `terminate_child` returns when the leader of a process group has exited (6543), whatever
  else of the group runs.

## 6. Not modelled, and why

* Pure I/O or formatting: screenshots, FUSE bridge, overlays, binds and mount tables,
  command line, host environment, key tables and layouts, EIS negotiation, uinput,
  rendering and scaling, accessibility tree and `find_ui` queries.
* Planned below: KWin scripts' lock, browser cookie merge, file stability, deployment.
* Within modelled components: `PROJECT.json` says for each what its modules leave out.
  Actions that stand for the environment (a kernel that ends a process, an application
  that copies, a compositor that hides a window) are marked external in its map.

## 7. Plan

1. **BrowserCookies**: the merge of saved, host and session rows as an operator
   against a reference; the order copy, persist, remove across a crash.
2. **KwinScripts**: one lock per KWin, load, run, unload with calls dropped between.
3. **InputLog**: the byte budget and what a full log refuses. NumLock's hand-over
   between the viewer and the session.
4. **Deploy**: install and restore with a failure between any two steps; file
   stability of imports.
5. **Activation**: the waits of window activation and `find_ui` with windows that come
   and go.

Proofs, next: where the theorems carry an exception, the statement without it under the
condition that makes it true (`WorkdirKept` and `Refinement` with a shutdown that gets the
gate; `SomeoneEndsEach` of starts that are not dropped); that `SessionWire` implements a
FIFO of lines, and `SentInput` a keyboard without a queue, as refinements.
