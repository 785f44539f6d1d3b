------------------------------ MODULE ViewerWindow ------------------------------
(***************************************************************************)
(* The life of a viewer and what it reports (run, window_loop, serve and   *)
(* write_status in src/bin/kwin-viewer.rs, the window's event loop in      *)
(* vendor/screen-13-window, viewer_report in src/main.rs).                 *)
(*                                                                         *)
(* Two processes may show one session at once and report in one file:      *)
(*   local   the server's child: a main thread with the window, and the    *)
(*           threads that feed it, which all end it by one shutdown flag   *)
(*   remote  kwin-viewer --serve, started over ssh by another machine: its *)
(*           main thread streams frames, its input thread reads records    *)
(* A report is written to a temporary file, one for both, and renamed.     *)
(*                                                                         *)
(* A thread is at its next step and may have a report under way before it. *)
(***************************************************************************)
EXTENDS Naturals

CONSTANTS
  Stale,      \* VIEWER_STATUS_STALE_AFTER, in heartbeats
  MaxBeats    \* bound on the heartbeats of the window

ViewerWindowAssumption == Stale \in Nat \ {0} /\ MaxBeats \in Nat

Threads == {"local", "remote", "records"}
Process(t) == IF t = "local" THEN "local" ELSE "remote"

VARIABLES
  at,         \* each thread's next step
  report,     \* its report under way: "none", or the state to write
  written,    \* that report is in the temporary file
  temporary, status,   \* the two files: who reports what, and how long ago
  shutdown,   \* each process's flag
  feed,       \* the local viewer's connections still hold
  surface,    \* its window: "unmapped", "shown" or "hidden"
  frame,      \* its mailbox has a frame
  queued,     \* first_frame_queued
  ready,      \* ready_reported
  submitted,  \* the remote viewer said that it presented a frame
  shown,      \* a frame of the session is in the local window (history)
  beats,
  rested      \* heartbeats since the local event loop last ran (history)

threads == <<at, report, written>>
files   == <<temporary, status>>
screen  == <<feed, surface, frame, queued, ready, shown, beats, rested>>
vars    == <<threads, files, shutdown, screen, submitted>>

NoFile == [who |-> "nobody", state |-> "none", age |-> 0]

Init ==
  /\ at = [t \in Threads |-> CASE t = "local" -> "connect" [] t = "remote" -> "start"
                                  [] OTHER -> "waiting"]
  /\ report = [t \in Threads |-> IF t = "local" THEN "starting" ELSE "none"]
  /\ written = [t \in Threads |-> FALSE]
  /\ temporary = NoFile /\ status = NoFile
  /\ shutdown = [p \in {"local", "remote"} |-> FALSE]
  /\ feed = TRUE /\ surface = "unmapped" /\ frame = FALSE
  /\ queued = FALSE /\ ready = FALSE /\ submitted = FALSE
  /\ shown = FALSE /\ beats = 0 /\ rested = 0

-----------------------------------------------------------------------------
(* write_status *)

Free(t) == report[t] = "none"
(* The input thread ends with its process.                                 *)
Alive(t) == t = "records" => ~(at["remote"] = "exited" /\ Free("remote"))

WriteTemporary(t) ==
  /\ ~Free(t) /\ ~written[t] /\ Alive(t)
  /\ rested' = IF t = "local" THEN 0 ELSE rested
  /\ temporary' = [who |-> Process(t), state |-> report[t], age |-> 0]
  /\ written' = [written EXCEPT ![t] = TRUE]
  /\ UNCHANGED <<at, report, status, shutdown, feed, surface, frame, queued, ready, shown,
                 beats, submitted>>

(* The other process may have renamed the file: that report is lost.       *)
Rename(t) ==
  /\ written[t] /\ Alive(t)
  /\ IF temporary = NoFile THEN UNCHANGED files
     ELSE status' = temporary /\ temporary' = NoFile
  /\ written' = [written EXCEPT ![t] = FALSE]
  /\ report' = [report EXCEPT ![t] = "none"]
  /\ UNCHANGED <<at, shutdown, screen, submitted>>

Goes(t, from, to, what) ==
  /\ at[t] = from /\ Free(t)
  /\ at' = [at EXCEPT ![t] = to]
  /\ report' = [report EXCEPT ![t] = what]
  /\ UNCHANGED <<written, files>>

Runs(from, to, what) == Goes("local", from, to, what) /\ rested' = 0

-----------------------------------------------------------------------------
(* The local viewer *)

(* The sockets, the watchers and the screencast stream.                    *)
Connect ==
  /\ Runs("connect", "window", "starting")
  /\ UNCHANGED <<shutdown, feed, surface, frame, queued, ready, shown, beats, submitted>>

ConnectFails ==
  /\ Runs("connect", "exited", "failed")
  /\ UNCHANGED <<shutdown, feed, surface, frame, queued, ready, shown, beats, submitted>>

(* PipeWire stores a frame; only the newest is kept.                       *)
FrameArrives ==
  /\ feed /\ at["local"] = "window" /\ ~frame
  /\ frame' = TRUE
  /\ UNCHANGED <<threads, files, shutdown, feed, surface, queued, ready, shown, beats, rested,
                 submitted>>

(* KWin closes or fails the stream, or a connection ends: its thread sets  *)
(* the flag.                                                               *)
FeedEnds ==
  /\ feed /\ at["local"] = "window"
  /\ feed' = FALSE
  /\ shutdown' = [shutdown EXCEPT !["local"] = TRUE]
  /\ UNCHANGED <<threads, files, surface, frame, queued, ready, shown, beats, rested, submitted>>

(* The first size is given, or the user minimises and restores the window: *)
(* a hidden one is not redrawn.                                            *)
SurfaceChanges ==
  /\ at["local"] = "window"
  /\ surface' = IF surface = "shown" THEN "hidden" ELSE "shown"
  /\ UNCHANGED <<threads, files, shutdown, feed, frame, queued, ready, shown, beats, rested,
                 submitted>>

Redraws == surface = "shown"

LeaveWindow(to, what) ==
  /\ Runs("window", to, what)
  /\ shutdown' = [shutdown EXCEPT !["local"] = TRUE]
  /\ UNCHANGED <<feed, surface, frame, queued, ready, shown, beats, submitted>>

DrawLeaves == Redraws /\ shutdown["local"] /\ LeaveWindow("closing", "none")

(* No frame was submitted in four seconds. The first draw waits for one.   *)
DrawTimesOut == Redraws /\ ~shutdown["local"] /\ ~ready /\ LeaveWindow("failing", "failed")

(* A frame is uploaded, or is lost when that fails, and what there is is   *)
(* presented; then the submission callback runs.                           *)
Draw ==
  /\ Redraws /\ ~shutdown["local"] /\ (queued \/ frame)
  /\ frame' = FALSE
  /\ queued' \in {queued, queued \/ frame}
  /\ shown' = (shown \/ queued')
  /\ ready' = queued'
  /\ Runs("window", "window", IF queued' /\ ~ready THEN "ready" ELSE "none")
  /\ UNCHANGED <<shutdown, feed, surface, beats, submitted>>

(* A swapchain image cannot be presented: unwrap ends the process.         *)
DrawPanics ==
  /\ Redraws /\ ~shutdown["local"]
  /\ Runs("window", "exited", "none")
  /\ UNCHANGED <<shutdown, feed, surface, frame, queued, ready, shown, beats, submitted>>

(* The event loop's timer, which runs without redraws too.                 *)
Heartbeat ==
  /\ surface # "unmapped" /\ ready /\ beats < MaxBeats
  /\ Runs("window", "window", "ready")
  /\ beats' = beats + 1
  /\ UNCHANGED <<shutdown, feed, surface, frame, queued, ready, shown, submitted>>

CloseRequested == LeaveWindow("closing", "closed")

(* The other threads are told to leave, and joined.                        *)
Close ==
  /\ \/ Runs("closing", "exited", "closed")
     \/ Runs("failing", "exited", "failed")
  /\ UNCHANGED <<shutdown, feed, surface, frame, queued, ready, shown, beats, submitted>>

Exited == at["local"] = "exited" /\ Free("local")

-----------------------------------------------------------------------------
(* The remote viewer's server side *)

RemoteGoes(from, to, what) == Goes("remote", from, to, what) /\ UNCHANGED <<screen, submitted>>

RemoteStarts ==
  /\ RemoteGoes("start", "connect", "starting")
  /\ UNCHANGED shutdown

RemoteConnects ==
  /\ RemoteGoes("connect", "streaming", "starting")
  /\ UNCHANGED shutdown

RemoteConnectFails ==
  /\ RemoteGoes("connect", "exited", "none")
  /\ UNCHANGED shutdown

(* The client presented its first frame.                                   *)
RemotePresents ==
  /\ Goes("records", "waiting", "reading", "ready")
  /\ at["remote"] \in {"streaming", "closing"}
  /\ submitted' = TRUE
  /\ UNCHANGED <<shutdown, screen>>

(* The ssh pipe ends.                                                      *)
RecordsEnd ==
  /\ at["remote"] \in {"streaming", "closing"}
  /\ at["records"] # "ended" /\ Free("records")
  /\ at' = [at EXCEPT !["records"] = "ended"]
  /\ shutdown' = [shutdown EXCEPT !["remote"] = TRUE]
  /\ UNCHANGED <<report, written, files, screen, submitted>>

RemoteFeedEnds ==
  /\ at["remote"] = "streaming"
  /\ shutdown' = [shutdown EXCEPT !["remote"] = TRUE]
  /\ UNCHANGED <<threads, files, screen, submitted>>

(* The flag is seen, four seconds passed without a presented frame, or the *)
(* pipe cannot be written.                                                 *)
RemoteLeaves ==
  /\ RemoteGoes("streaming", "closing", "none")
  /\ shutdown' = [shutdown EXCEPT !["remote"] = TRUE]

RemoteReports ==
  /\ \/ RemoteGoes("closing", "exited", "closed")
     \/ RemoteGoes("closing", "exited", "failed")
  /\ UNCHANGED shutdown

-----------------------------------------------------------------------------
(* Time, and the server *)

(* A heartbeat's time passes.                                              *)
Tick ==
  /\ rested <= Stale
  /\ rested' = rested + 1
  /\ status' = [status EXCEPT !.age = IF @ > Stale THEN @ ELSE @ + 1]
  /\ temporary' = [temporary EXCEPT !.age = IF temporary = NoFile \/ @ > Stale THEN @ ELSE @ + 1]
  /\ UNCHANGED <<threads, shutdown, feed, surface, frame, queued, ready, shown, beats, submitted>>

(* A report by another process counts.                                     *)
ReportOfAnybody ==
  IF \/ Exited
     \/ status.state \in {"failed", "closed"}
     \/ status.state = "ready" /\ status.age > Stale
  THEN "unavailable"
  ELSE IF status.state = "ready" THEN "ready" ELSE "starting"

(* viewer_report: what the server tells the agent of its child.            *)
Report ==
  IF \/ Exited
     \/ status.who = "remote"
     \/ status.state \in {"failed", "closed"}
     \/ status.state = "ready" /\ status.age > Stale
  THEN "unavailable"
  ELSE IF status.state = "ready" THEN "ready" ELSE "starting"

Next ==
  \/ \E t \in Threads : WriteTemporary(t) \/ Rename(t)
  \/ Connect \/ ConnectFails \/ FrameArrives \/ FeedEnds \/ SurfaceChanges
  \/ DrawLeaves \/ DrawTimesOut \/ Draw \/ DrawPanics \/ Heartbeat \/ CloseRequested \/ Close
  \/ RemoteStarts \/ RemoteConnects \/ RemoteConnectFails \/ RemotePresents
  \/ RecordsEnd \/ RemoteFeedEnds \/ RemoteLeaves \/ RemoteReports
  \/ Tick

Spec == Init /\ [][Next]_vars

-----------------------------------------------------------------------------
(* While the server calls the viewer ready, the session's picture is in    *)
(* its window and its event loop has run within the last three heartbeats, *)
(* whatever the remote viewer reports in the same files.                   *)
ReadyIsTrue == Report = "ready" => shown /\ rested <= Stale
=============================================================================
