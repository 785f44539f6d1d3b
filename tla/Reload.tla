-------------------------------- MODULE Reload --------------------------------
(***************************************************************************)
(* The in-place reload of src/main.rs: watch_reload freezes the wire,      *)
(* reexecute() writes every handle to a memfd and replaces the process     *)
(* image, reattach() rebuilds the handles in the new one. Handles change   *)
(* meanwhile: the reaper's check_liveness() takes no lifecycle gate, a     *)
(* stop or an expiry needs the gate that reexecute() collects one by one.  *)
(*                                                                         *)
(* Before the freeze the handles are in any state that their lifecycle     *)
(* (SessionLifecycle) leaves them in, so they start to move here when the  *)
(* wire is frozen. A call that another server forwarded comes through the  *)
(* control socket, which no freeze stops.                                  *)
(***************************************************************************)
EXTENDS SessionWire

CONSTANTS
  Handles,      \* the registered sessions
  NoHandle,     \* none of them
  MaxReloads    \* bound on the times the binary changes

ASSUME ReloadAssumption == NoHandle \notin Handles /\ MaxReloads \in Nat

VARIABLES
  server,     \* "up", "restoring" in the new image, or "gone"
  reloads,    \* images replaced or tried so far
  registered, \* the handles in the router's map
  handle,     \* what each one holds
  alive,      \* the desktops whose sandbox runs
  logged,     \* cleanup the lifecycle log tells of each handle
  diagnosing, \* the handle check_liveness() holds locked
  watcher,    \* where reexecute() is with the current handle
  todo,       \* the handles it has not written yet, the current one included
  current,
  readStatus, \* the status it read of the current one
  gates,      \* the lifecycle gates it holds
  saved,      \* ServerRestore, by handle
  original    \* each handle when its gate was taken (history)

handleVars == <<registered, handle, alive, logged, diagnosing>>
saveVars   == <<watcher, todo, current, readStatus, gates, saved, original>>
reloadVars == <<server, reloads, handleVars, saveVars>>
vars       == <<wireVars, reloadVars>>

(* A handle: has it a Session, its terminal status, whether it owns its    *)
(* workdir, the descriptors that hold the lease's lock, and whether it     *)
(* knows its session ID.                                                   *)
Status == {"none", "dead", "expired", "stopped", "start_failed"}
Handle == [desk : BOOLEAN, status : Status, owns : BOOLEAN,
           lease : SUBSET {"claim", "copy"}, named : BOOLEAN]

(* ServerRestore lists a handle as a session, for cleanup, with a status.  *)
Saved  == [session : BOOLEAN, cleanup : BOOLEAN, status : Status]

Owned(h)   == handle[h].owns
Unsaved    == [session |-> FALSE, cleanup |-> FALSE, status |-> "none"]
NewHandle  == [desk |-> FALSE, status |-> "none", owns |-> FALSE,
               lease |-> {}, named |-> FALSE]

(* A desktop, an end whose removal failed, an end without a workdir, and a *)
(* start that failed without a record.                                     *)
Settled ==
  {k \in Handle : /\ k.status \in {"none", "expired"}
                  /\ k.lease = IF k.owns THEN {"claim"} ELSE {}
                  /\ k.named}

Init ==
  /\ WireInit
  /\ server = "up" /\ reloads = 0
  /\ registered \in SUBSET Handles
  /\ handle \in [Handles -> {NewHandle} \cup {k \in Settled : ~k.desk \/ k.status = "none"}]
  /\ \A h \in Handles : h \in registered <=> handle[h].named
  /\ alive = {h \in Handles : handle[h].desk}
  /\ logged = [h \in Handles |-> IF handle[h].status = "expired"
                                 THEN IF handle[h].owns THEN "retained" ELSE "not_owned"
                                 ELSE "none"]
  /\ diagnosing = NoHandle
  /\ watcher = "idle" /\ todo = {} /\ current = NoHandle /\ readStatus = "none"
  /\ gates = {}
  /\ saved = [h \in Handles |-> Unsaved]
  /\ original = handle

-----------------------------------------------------------------------------
(* The handles while the wire is frozen, and after a reload *)

Stirring == server = "up" /\ (freezer = "frozen" \/ reloads > 0)

SandboxDies(h) ==
  /\ Stirring \/ server = "restoring"
  /\ h \in alive
  /\ alive' = alive \ {h}
  /\ UNCHANGED <<wireVars, server, reloads, registered, handle, logged, diagnosing, saveVars>>

(* check_liveness(): the session stays locked while systemd is asked why   *)
(* the sandbox ended.                                                      *)
Diagnose(h) ==
  /\ Stirring
  /\ diagnosing = NoHandle
  /\ h \in registered \ alive
  /\ handle[h].desk /\ handle[h].status = "none"
  /\ diagnosing' = h
  /\ UNCHANGED <<wireVars, server, reloads, registered, handle, alive, logged, saveVars>>

RecordDeath ==
  /\ Stirring
  /\ diagnosing # NoHandle
  /\ handle' = [handle EXCEPT ![diagnosing].status = "dead", ![diagnosing].desk = FALSE]
  /\ diagnosing' = NoHandle
  /\ UNCHANGED <<wireVars, server, reloads, registered, alive, logged, saveVars>>

(* What removal of the workdir leaves: all of it gone, or still owned.     *)
Removal(h, status) ==
  \E removed \in IF Owned(h) THEN BOOLEAN ELSE {FALSE} :
    /\ handle' = [handle EXCEPT ![h].status = status, ![h].desk = FALSE,
                    ![h].owns = Owned(h) /\ ~removed,
                    ![h].lease = IF removed THEN @ \ {"claim"} ELSE @]
    /\ logged' = [logged EXCEPT ![h] =
                    IF ~handle[h].named THEN @
                    ELSE IF removed THEN "removed"
                    ELSE IF Owned(h) THEN "retained"
                    ELSE IF @ = "none" THEN "not_owned" ELSE @]

(* expire_if_idle(): only with the handle's gate.                          *)
Expire(h) ==
  /\ Stirring
  /\ h \in registered \ gates
  /\ h # diagnosing
  /\ handle[h].desk /\ handle[h].status = "none"
  /\ Removal(h, "expired")
  /\ alive' = alive \ {h}
  /\ UNCHANGED <<wireVars, server, reloads, registered, diagnosing, saveVars>>

(* session_stop, forwarded or after the reload. The handle goes when all   *)
(* is cleaned up.                                                          *)
Stop(h) ==
  /\ Stirring
  /\ h \in registered \ gates
  /\ h # diagnosing
  /\ Removal(h, IF handle[h].desk THEN "stopped"
                ELSE IF handle[h].status = "none" THEN "start_failed"
                ELSE handle[h].status)
  /\ registered' = IF handle'[h].owns THEN registered ELSE registered \ {h}
  /\ alive' = alive \ {h}
  /\ UNCHANGED <<wireVars, server, reloads, diagnosing, saveVars>>

-----------------------------------------------------------------------------
(* watch_reload and reexecute() *)

(* The binary changed and stayed the same for two seconds.                 *)
BinaryChanges ==
  /\ server = "up" /\ reloads < MaxReloads
  /\ watcher = "idle"
  /\ Freeze
  /\ watcher' = "freezing"
  /\ reloads' = reloads + 1
  /\ UNCHANGED <<server, handleVars, todo, current, readStatus, gates, saved, original>>

StartSaving ==
  /\ watcher = "freezing" /\ freezer = "frozen"
  /\ watcher' = "next"
  /\ todo' = registered
  /\ saved' = [h \in Handles |-> Unsaved]
  /\ UNCHANGED <<wireVars, server, reloads, handleVars, current, readStatus, gates, original>>

(* The gate is awaited without a deadline.                                 *)
TakeGate(h) ==
  /\ watcher = "next" /\ h \in todo
  /\ current' = h
  /\ gates' = gates \cup {h}
  /\ original' = [original EXCEPT ![h] = handle[h]]
  /\ watcher' = "gated"
  /\ UNCHANGED <<wireVars, server, reloads, handleVars, todo, readStatus, saved>>

(* The status is read first,                                               *)
ReadStatus ==
  /\ watcher = "gated"
  /\ readStatus' = handle[current].status
  /\ watcher' = "read"
  /\ UNCHANGED <<wireVars, server, reloads, handleVars, todo, current, gates, saved, original>>

WriteSessionLeaseOnly ==
  /\ watcher = "read"
  /\ diagnosing # current
  /\ LET k == handle[current]
         silent == ~k.desk /\ k.status = "none"
     IN saved' = [saved EXCEPT ![current] =
            [session |-> k.desk,
             cleanup |-> ~k.desk /\ k.owns,
             status  |-> IF silent THEN "start_failed" ELSE readStatus]]
  /\ handle' = [handle EXCEPT ![current].lease =
                  IF handle[current].desk /\ "claim" \in @ THEN @ \cup {"copy"} ELSE @]
  /\ todo' = todo \ {current}
  /\ watcher' = "next"
  /\ UNCHANGED <<wireVars, server, reloads, registered, alive, logged, diagnosing,
                 current, readStatus, gates, original>>

(* then the session, once nobody holds its lock: a desktop is written with *)
(* its descriptors, a handle without one is listed for cleanup, and gets a *)
(* status if it still has none.                                            *)
WriteHandle ==
  /\ watcher = "read"
  /\ diagnosing # current
  /\ LET k == handle[current]
         silent == ~k.desk /\ k.status = "none"
     IN saved' = [saved EXCEPT ![current] =
            [session |-> k.desk,
             cleanup |-> ~k.desk /\ k.owns,
             status  |-> IF silent THEN "start_failed" ELSE readStatus]]
  /\ handle' = [handle EXCEPT ![current].lease =
                  IF "claim" \in @ THEN @ \cup {"copy"} ELSE @]
  /\ todo' = todo \ {current}
  /\ watcher' = "next"
  /\ UNCHANGED <<wireVars, server, reloads, registered, alive, logged, diagnosing,
                 current, readStatus, gates, original>>

Uncopied(h) == [handle[h] EXCEPT !.lease = @ \ {"copy"}]

(* exec failed, or a descriptor could not be copied: the copies and gates  *)
(* are dropped and the wire is thawed.                                     *)
ReloadFails ==
  /\ watcher \in {"read", "next"}
  /\ handle' = [h \in Handles |-> Uncopied(h)]
  /\ gates' = {} /\ todo' = {} /\ watcher' = "idle" /\ current' = NoHandle
  /\ saved' = [h \in Handles |-> Unsaved]
  /\ Thaw
  /\ UNCHANGED <<server, reloads, registered, alive, logged, diagnosing, readStatus, original>>

(* exec: descriptors without the close-on-exec flag and the memfd are all  *)
(* that reaches the new image.                                             *)
Exec ==
  /\ watcher = "next" /\ todo = {}
  /\ Replace(input)
  /\ server' = "restoring"
  /\ registered' = {}
  /\ handle' = [h \in Handles |-> [NewHandle EXCEPT !.lease = handle[h].lease \cap {"copy"}]]
  /\ diagnosing' = NoHandle
  /\ gates' = {} /\ watcher' = "restoring" /\ current' = NoHandle
  /\ UNCHANGED <<reloads, alive, logged, todo, readStatus, saved, original>>

-----------------------------------------------------------------------------
(* reattach() *)

Adopted(h) == IF "copy" \in handle[h].lease THEN {"claim"} ELSE {}

(* The session's bus, proxy and input devices are connected to anew.       *)
ReattachSession(h) ==
  /\ server = "restoring"
  /\ saved[h].session /\ h \notin registered
  /\ h \in alive
  /\ handle' = [handle EXCEPT ![h] = [desk |-> TRUE, status |-> "none",
                    owns |-> Adopted(h) # {}, lease |-> Adopted(h), named |-> TRUE]]
  /\ registered' = registered \cup {h}
  /\ UNCHANGED <<wireVars, server, reloads, alive, logged, diagnosing, saveVars>>

(* One that does not answer ends run_server, and every session with it.    *)
ReattachFails(h) ==
  /\ server = "restoring"
  /\ saved[h].session /\ h \notin registered
  /\ h \notin alive
  /\ server' = "gone"
  /\ alive' = {}
  /\ registered' = {}
  /\ handle' = [k \in Handles |-> NewHandle]
  /\ UNCHANGED <<wireVars, reloads, logged, diagnosing, saveVars>>

Cleaned(h) == [NewHandle EXCEPT !.owns = TRUE, !.lease = Adopted(h)]

RestoreStatusesAnew ==
  /\ server = "restoring"
  /\ \A h \in Handles : saved[h].session => h \in registered
  /\ handle' = [h \in Handles |->
       IF saved[h].session THEN handle[h]
       ELSE IF saved[h].cleanup /\ saved[h].status = "none" THEN Cleaned(h)
       ELSE [NewHandle EXCEPT !.status = saved[h].status,
                              !.named = saved[h].status # "none"]]
  /\ registered' = {h \in Handles : saved[h] # Unsaved}
  /\ server' = "up" /\ watcher' = "idle"
  /\ UNCHANGED <<wireVars, reloads, alive, logged, diagnosing, todo, current, readStatus,
                 gates, saved, original>>

(* After the sessions, the workdirs left to clean up and then the statuses.*)
(* Only a handle that its status creates is given its session ID.          *)
RestoreEnds ==
  /\ server = "restoring"
  /\ \A h \in Handles : saved[h].session => h \in registered
  /\ handle' = [h \in Handles |->
       IF saved[h].session THEN [handle[h] EXCEPT !.status = saved[h].status]
       ELSE IF saved[h].cleanup THEN [Cleaned(h) EXCEPT !.status = saved[h].status]
       ELSE [NewHandle EXCEPT !.status = saved[h].status,
                              !.named = saved[h].status # "none"]]
  /\ registered' = {h \in Handles : saved[h] # Unsaved}
  /\ server' = "up" /\ watcher' = "idle"
  /\ UNCHANGED <<wireVars, reloads, alive, logged, diagnosing, todo, current, readStatus,
                 gates, saved, original>>

-----------------------------------------------------------------------------
Wire == server = "up" /\ WireNext /\ UNCHANGED reloadVars

Next ==
  \/ Wire
  \/ \E h \in Handles : SandboxDies(h) \/ Diagnose(h) \/ Expire(h) \/ Stop(h)
  \/ RecordDeath
  \/ BinaryChanges \/ StartSaving \/ ReadStatus \/ WriteHandle \/ ReloadFails \/ Exec
  \/ \E h \in Handles : TakeGate(h) \/ ReattachSession(h) \/ ReattachFails(h)
  \/ RestoreEnds

Spec == Init /\ [][Next]_vars

(* The runtime polls every task that is woken. No answer is promised: a    *)
(* call may run for ever, and the client may stay silent.                  *)
Fairness ==
  /\ WF_vars(Wire /\ Register) /\ WF_vars(Wire /\ Look) /\ WF_vars(Wire /\ Unpark)
  /\ WF_vars(Wire /\ Parse) /\ WF_vars(Wire /\ StartRead)
  /\ WF_vars(Wire /\ (ReadSome \/ ReadWoken))
  /\ \A n \in Line : WF_vars(Wire /\ WriteAnswer(n)) /\ WF_vars(Wire /\ Settle(n))
  /\ WF_vars(Wire /\ FreezeEnable) /\ WF_vars(Wire /\ FreezeCheck)
  /\ WF_vars(Wire /\ FreezeWoken)

FairSpec == Spec /\ Fairness

-----------------------------------------------------------------------------
(* Properties *)

TypeOK ==
  /\ WireTypeOK
  /\ server \in {"up", "restoring", "gone"} /\ reloads \in 0..MaxReloads
  /\ registered \subseteq Handles /\ alive \subseteq Handles /\ gates \subseteq Handles
  /\ handle \in [Handles -> Handle] /\ original \in [Handles -> Handle]
  /\ saved \in [Handles -> Saved] /\ todo \subseteq Handles
  /\ diagnosing \in Handles \cup {NoHandle} /\ current \in Handles \cup {NoHandle}
  /\ watcher \in {"idle", "freezing", "next", "gated", "read", "restoring"}

(* A workdir that a running server still owns has its lease locked by one  *)
(* of its descriptors, through the copy, the exec and the adoption, so no  *)
(* sweep takes it for an orphan's meanwhile.                               *)
LeaseNeverLapses ==
  \A h \in Handles :
    \/ server = "up" /\ h \in registered /\ Owned(h)
    \/ server = "restoring" /\ saved[h] # Unsaved /\ original[h].owns
    => handle[h].lease # {}

(* Every handle that reexecute() wrote is in the image that goes on, with  *)
(* the terminal status and the workdir it had when its gate was taken: no  *)
(* reader of the old statuses, and no cleanup still owed, is lost.         *)
ReloadKeepsHandles ==
  [][ server = "restoring" /\ server' = "up" =>
        \A h \in Handles : saved[h] # Unsaved =>
          /\ original[h].status # "none" => handle'[h].status = original[h].status
          /\ handle'[h].owns = original[h].owns
          /\ saved[h].session => handle'[h].desk
    ]_vars

(* "An in-place source reload preserves its PID, pipes, and live           *)
(* sessions": the new image does not give up while a desktop still runs.   *)
LiveDesktopsSurvive == [][server' = "gone" => alive = {}]_vars

(* Does not hold, "Session stops ... are recorded" (README.md:788): the     *)
(* lifecycle log does not say that a workdir was retained which a stop     *)
(* has removed since: every stop is recorded.                              *)
RetriesAreRecorded ==
  server = "up" => \A h \in Handles : logged[h] = "retained" => Owned(h)

(* Does not hold, "a handle with neither a desktop nor a status failed      *)
(* without recording it" (20674): once the reload is over, every handle    *)
(* has a desktop or a status, as one whose start is not running always has.*)
EveryHandleIsTold ==
  server = "up" /\ watcher = "idle" =>
    \A h \in registered : saved[h] = Unsaved \/ handle[h].desk \/ handle[h].status # "none"
=============================================================================
