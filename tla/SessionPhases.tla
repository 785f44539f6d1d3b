---------------------------- MODULE SessionPhases ----------------------------
(***************************************************************************)
(* The decisions of src/session_registry.rs: pure functions of whether a   *)
(* handle's desktop is published and of its recorded terminal status,      *)
(* which is "none" until one is recorded.                                  *)
(***************************************************************************)

StartStatuses   == {"start_failed", "start_blocked"}
DesktopStatuses == {"dead", "stopped", "expired"}
Statuses        == StartStatuses \cup DesktopStatuses

(* A terminal status wins over a desktop that is still set.                *)
Phase(hasDesktop, status) ==
  IF status # "none" THEN "Terminal"
  ELSE IF hasDesktop THEN "Running" ELSE "Starting"

(* What session_stop does once it holds the lifecycle gate.                *)
StopPlan(phase) ==
  CASE phase = "Running"  -> "Teardown"
    [] phase = "Terminal" -> "Clear"
    [] phase = "Starting" -> "Abandon"

(* Whether session_stop answers at once instead of waiting for the gate;   *)
(* the phase is Terminal(start_blocked) whether or not a desktop is set.   *)
StopIsPending(status, gateBusy) == gateBusy /\ status = "start_blocked"

(* Only a running desktop expires, once idle for the whole TTL.            *)
IdleExpired(phase, idle, ttl) == phase = "Running" /\ ttl /\ idle

(* How a failed session_start leaves its handle, by the kind of its error. *)
FailedStart(error) ==
  CASE error = "blocked"  -> "Blocked"
    [] error = "invalid"  -> "Forget"
    [] error = "internal" -> "Failed"

(* A bug to tell apart: a clear that records only a death.                 *)
ClearRecordsDeathsOnly(status, removed) == status = "dead"

(* Whether clearing a terminal handle writes a lifecycle record.           *)
ClearWritesRecord(status, removed) == removed \/ status = "dead"
=============================================================================
