---------------------------- MODULE WorkdirSweep ----------------------------
(***************************************************************************)
(* The workdirs that several servers of one user keep in one directory,    *)
(* and the two sweeps with which a server (or kwin-mcp-shim, on a timer)   *)
(* removes what crashed servers left: sweep_orphaned_workdirs trusts the   *)
(* lease, sweep_dead_owner_workdirs looks at workdirs that have none and   *)
(* then at disk twins that have no workdir.  No lock orders a sweep and a  *)
(* server but the one each takes on the lease file.                        *)
(*                                                                         *)
(* A workdir stands for itself and the server that created it.  A server   *)
(* and a sweeper may be killed between any two of their system calls.      *)
(***************************************************************************)
EXTENDS FiniteSets

CONSTANTS
    Workdir,   \* names kwin-mcp-<pid>-<number>, never used twice
    Sweeper,   \* processes that sweep once: servers that start, for one
    Timer      \* the sweeps kwin-mcp-shim starts one after another

ASSUME SweepAssumption ==
    /\ Timer \subseteq Sweeper
    /\ "server" \notin Sweeper /\ "nobody" \notin Sweeper

VARIABLES
    server,     \* where the workdir's server is with it
    autoclean,  \* it was started with --autoclean or --ttl
    dir, twin,  \* the workdir and its disk twin exist
    linked,     \* the workdir holds a lease file
    marker,     \* what the lease file says, also once it is unlinked
    lock,       \* who holds the lock on the lease file
    sandbox,    \* the sandbox's process group
    at, kind,   \* where a sweeper is, and in which sweep
    on,         \* the workdir it looks at
    todo,       \* those it listed and has not looked at
    seenRefs    \* those some command line named at the start of the sweep

serverVars  == <<server, autoclean>>
diskVars    == <<dir, twin, linked, marker>>
sweepVars   == <<at, kind, on, todo, seenRefs>>
vars        == <<serverVars, diskVars, lock, sandbox, sweepVars>>

ServerSteps == {"absent", "created", "opened", "leased", "overlaid", "spawned",
                "running", "closing", "twinless", "unlinked", "done", "dead"}
SweepSteps  == {"idle", "listing", "choosing", "opened", "locked", "unleased",
                "twin", "lease", "dir", "ended"}

TypeOK ==
    /\ server \in [Workdir -> ServerSteps]
    /\ autoclean \in [Workdir -> BOOLEAN]
    /\ dir \in [Workdir -> BOOLEAN]
    /\ twin \in [Workdir -> BOOLEAN]
    /\ linked \in [Workdir -> BOOLEAN]
    /\ marker \in [Workdir -> {"none", "empty", "group"}]
    /\ lock \in [Workdir -> {"nobody", "server"} \cup Sweeper]
    /\ sandbox \in [Workdir -> {"none", "up", "exited"}]
    /\ at \in [Sweeper -> SweepSteps]
    /\ kind \in [Sweeper -> {"orphans", "leaks", "twins"}]
    /\ on \in [Sweeper -> Workdir]
    /\ todo \in [Sweeper -> SUBSET Workdir]
    /\ seenRefs \in [Sweeper -> SUBSET Workdir]

Init ==
    /\ server = [w \in Workdir |-> "absent"]
    /\ autoclean \in [Workdir -> BOOLEAN]
    /\ dir = [w \in Workdir |-> FALSE]
    /\ twin = [w \in Workdir |-> FALSE]
    /\ linked = [w \in Workdir |-> FALSE]
    /\ marker = [w \in Workdir |-> "none"]
    /\ lock = [w \in Workdir |-> "nobody"]
    /\ sandbox = [w \in Workdir |-> "none"]
    /\ at = [s \in Sweeper |-> "idle"]
    /\ kind = [s \in Sweeper |-> "orphans"]
    /\ on \in [Sweeper -> Workdir]
    /\ todo = [s \in Sweeper |-> {}]
    /\ seenRefs = [s \in Sweeper |-> {}]

\* The lock on w's lease file is let go if its holder is who.
Unlock(who, w) == IF lock[w] = who THEN [lock EXCEPT ![w] = "nobody"] ELSE lock

-----------------------------------------------------------------------------
(* The server of a workdir. *)

ServerMoves(w, from, to) ==
    /\ server[w] \in from
    /\ server' = [server EXCEPT ![w] = to]
    /\ UNCHANGED <<autoclean, sweepVars>>

CreateDir(w) ==
    /\ ServerMoves(w, {"absent"}, "created")
    /\ dir' = [dir EXCEPT ![w] = TRUE]
    /\ UNCHANGED <<twin, linked, marker, lock, sandbox>>

\* create_lease, up to the open of a new and empty file.
CreateLease(w) ==
    /\ autoclean[w]
    /\ ServerMoves(w, {"created"}, "opened")
    /\ linked' = [linked EXCEPT ![w] = TRUE]
    /\ marker' = [marker EXCEPT ![w] = "empty"]
    /\ UNCHANGED <<dir, twin, lock, sandbox>>

\* create_lease, its try_lock.
LockLease(w) ==
    /\ lock[w] = "nobody"
    /\ ServerMoves(w, {"opened"}, "leased")
    /\ lock' = [lock EXCEPT ![w] = "server"]
    /\ UNCHANGED <<diskVars, sandbox>>

\* A sweep got the lock first: the start fails and clears up.
LoseLease(w) ==
    /\ lock[w] # "nobody"
    /\ ServerMoves(w, {"opened"}, "closing")
    /\ UNCHANGED <<diskVars, lock, sandbox>>

CreateTwin(w) ==
    /\ ServerMoves(w, IF autoclean[w] THEN {"leased"} ELSE {"created"}, "overlaid")
    /\ twin' = [twin EXCEPT ![w] = TRUE]
    /\ UNCHANGED <<dir, linked, marker, lock, sandbox>>

SpawnSandbox(w) ==
    /\ ServerMoves(w, {"overlaid"}, "spawned")
    /\ sandbox' = [sandbox EXCEPT ![w] = "up"]
    /\ UNCHANGED <<diskVars, lock>>

MarkSandbox(w) ==
    /\ ServerMoves(w, {"spawned"}, "running")
    /\ marker' = IF autoclean[w] THEN [marker EXCEPT ![w] = "group"] ELSE marker
    /\ UNCHANGED <<dir, twin, linked, lock, sandbox>>

\* A start that fails, a stop, the idle limit, a shutdown: the sandbox is
\* killed first, but one blocked in the kernel outlives terminate_child.
Close(w) ==
    /\ ServerMoves(w, {"created", "leased", "overlaid", "spawned", "running"}, "closing")
    /\ \/ UNCHANGED sandbox
       \/ sandbox[w] = "up" /\ sandbox' = [sandbox EXCEPT ![w] = "exited"]
    /\ UNCHANGED <<diskVars, lock>>

\* remove_session_workdir takes the twin first.  Without --autoclean only the
\* teardown of a running desktop takes it, and the workdir stays.
RemoveTwin(w) ==
    /\ ServerMoves(w, {"closing"}, IF autoclean[w] THEN "twinless" ELSE "done")
    /\ twin' = [twin EXCEPT ![w] = FALSE]
    /\ UNCHANGED <<dir, linked, marker, lock, sandbox>>

KeepTwin(w) ==
    /\ ~autoclean[w]
    /\ ServerMoves(w, {"closing"}, "done")
    /\ UNCHANGED <<diskVars, lock, sandbox>>

\* remove_dir_all empties the workdir before it removes it.
UnlinkLease(w) ==
    /\ ServerMoves(w, {"twinless"}, "unlinked")
    /\ linked' = [linked EXCEPT ![w] = FALSE]
    /\ UNCHANGED <<dir, twin, marker, lock, sandbox>>

RemoveDir(w) ==
    /\ ServerMoves(w, {"unlinked"}, "done")
    /\ dir' = [dir EXCEPT ![w] = FALSE]
    /\ lock' = Unlock("server", w)
    /\ UNCHANGED <<twin, linked, marker, sandbox>>

\* WorkdirCleanup::Retained: the claim and its lock stay for the next attempt.
Retain(w) ==
    /\ ServerMoves(w, {"twinless", "unlinked"}, "closing")
    /\ UNCHANGED <<diskVars, lock, sandbox>>

\* The server exits or is killed.  Its descriptors close; its sandbox may live on.
ServerEnds(w) ==
    /\ ServerMoves(w, ServerSteps \ {"absent", "dead"}, "dead")
    /\ lock' = Unlock("server", w)
    /\ UNCHANGED <<diskVars, sandbox>>

SandboxExits(w) ==
    /\ sandbox[w] = "up"
    /\ sandbox' = [sandbox EXCEPT ![w] = "exited"]
    /\ UNCHANGED <<serverVars, diskVars, lock, sweepVars>>

ServerNext(w) ==
    \/ CreateDir(w) \/ CreateLease(w) \/ LockLease(w) \/ LoseLease(w)
    \/ CreateTwin(w) \/ SpawnSandbox(w) \/ MarkSandbox(w) \/ Close(w)
    \/ RemoveTwin(w) \/ KeepTwin(w) \/ UnlinkLease(w) \/ RemoveDir(w)
    \/ Retain(w) \/ ServerEnds(w)

-----------------------------------------------------------------------------
(* A sweeper. *)

SweepMoves(s, from, to) ==
    /\ at[s] = from
    /\ at' = [at EXCEPT ![s] = to]
    /\ UNCHANGED <<serverVars, sandbox>>

\* Both sweeps read the mounts, the second one every command line, before
\* they look at the first workdir.  A sandbox's names the workdir it binds.
StartSweep(s) ==
    /\ SweepMoves(s, "idle", "listing")
    /\ kind' = [kind EXCEPT ![s] = "orphans"]
    /\ UNCHANGED <<diskVars, lock, on, todo, seenRefs>>

List(s) ==
    /\ SweepMoves(s, "listing", "choosing")
    /\ todo' = [todo EXCEPT ![s] =
                  {w \in Workdir : IF kind[s] = "twins" THEN twin[w] ELSE dir[w]}]
    /\ UNCHANGED <<diskVars, lock, kind, on, seenRefs>>

\* After the orphans come the leaks, in the runtime directories before the disk root.
EndList(s) ==
    /\ todo[s] = {}
    /\ kind[s] # "twins"
    /\ SweepMoves(s, "choosing", "listing")
    /\ \/ /\ kind[s] = "orphans"
          /\ kind' = [kind EXCEPT ![s] = "leaks"]
          /\ seenRefs' = [seenRefs EXCEPT ![s] = {w \in Workdir : sandbox[w] = "up"}]
       \/ /\ kind[s] = "leaks"
          /\ kind' = [kind EXCEPT ![s] = "twins"]
          /\ UNCHANGED seenRefs
    /\ UNCHANGED <<diskVars, lock, on, todo>>

EndSweep(s) ==
    /\ todo[s] = {}
    /\ kind[s] = "twins"
    /\ SweepMoves(s, "choosing", IF s \in Timer THEN "idle" ELSE "ended")
    /\ seenRefs' = [seenRefs EXCEPT ![s] = {}]
    /\ UNCHANGED <<diskVars, lock, kind, on, todo>>

\* An entry is opened, or passed over: an orphan has a lease, a leaked
\* workdir none, a leaked twin no workdir of its name.
Visit(s, w) ==
    /\ w \in todo[s]
    /\ SweepMoves(s, "choosing",
         CASE kind[s] = "orphans" -> IF linked[w] THEN "opened" ELSE "choosing"
           [] kind[s] = "leaks"   -> IF dir[w] /\ ~linked[w] THEN "unleased" ELSE "choosing"
           [] kind[s] = "twins"   -> IF twin[w] /\ ~dir[w] THEN "unleased" ELSE "choosing")
    /\ todo' = [todo EXCEPT ![s] = @ \ {w}]
    /\ on' = [on EXCEPT ![s] = w]
    /\ UNCHANGED <<diskVars, lock, kind, seenRefs>>

LockUnchecked(s) ==
    /\ SweepMoves(s, "opened", "locked")
    /\ lock' = IF lock[on[s]] = "nobody" THEN [lock EXCEPT ![on[s]] = s] ELSE lock
    /\ UNCHANGED <<diskVars, kind, on, todo, seenRefs>>

TryLock(s) ==
    /\ SweepMoves(s, "opened", IF lock[on[s]] = "nobody" THEN "locked" ELSE "choosing")
    /\ lock' = IF lock[on[s]] = "nobody" THEN [lock EXCEPT ![on[s]] = s] ELSE lock
    /\ UNCHANGED <<diskVars, kind, on, todo, seenRefs>>

GroupUnasked(w) == marker[w] = "group"

\* The marker is complete and kill(-group, 0) says ESRCH.
Orphaned(w) == marker[w] = "group" /\ sandbox[w] # "up"

TakeOrphan(s) ==
    /\ Orphaned(on[s])
    /\ SweepMoves(s, "locked", "twin")
    /\ UNCHANGED <<diskVars, lock, kind, on, todo, seenRefs>>

\* /proc/<pid>/exe is no kwin-mcp and no command line named the workdir.
Leaked(s, w) == server[w] = "dead" /\ w \notin seenRefs[s]

TakeLeak(s) ==
    /\ Leaked(s, on[s])
    /\ SweepMoves(s, "unleased", IF kind[s] = "twins" THEN "twin" ELSE "dir")
    /\ UNCHANGED <<diskVars, lock, kind, on, todo, seenRefs>>

PassOverLocked(s) ==
    /\ \/ at[s] = "locked" /\ ~Orphaned(on[s])
       \/ at[s] = "unleased" /\ ~Leaked(s, on[s])
    /\ SweepMoves(s, at[s], "choosing")
    /\ UNCHANGED <<diskVars, lock, kind, on, todo, seenRefs>>

\* It does not qualify.
PassOver(s) ==
    /\ \/ at[s] = "locked" /\ ~Orphaned(on[s])
       \/ at[s] = "unleased" /\ ~Leaked(s, on[s])
    /\ SweepMoves(s, at[s], "choosing")
    /\ lock' = Unlock(s, on[s])
    /\ UNCHANGED <<diskVars, kind, on, todo, seenRefs>>

SweepTwin(s) ==
    /\ SweepMoves(s, "twin", IF kind[s] = "orphans" THEN "lease" ELSE "choosing")
    /\ twin' = [twin EXCEPT ![on[s]] = FALSE]
    /\ UNCHANGED <<dir, linked, marker, lock, kind, on, todo, seenRefs>>

SweepLease(s) ==
    /\ SweepMoves(s, "lease", "dir")
    /\ linked' = [linked EXCEPT ![on[s]] = FALSE]
    /\ UNCHANGED <<dir, twin, marker, lock, kind, on, todo, seenRefs>>

SweepDir(s) ==
    /\ SweepMoves(s, "dir", "choosing")
    /\ dir' = [dir EXCEPT ![on[s]] = FALSE]
    /\ linked' = [linked EXCEPT ![on[s]] = FALSE]
    /\ lock' = Unlock(s, on[s])
    /\ UNCHANGED <<twin, marker, kind, on, todo, seenRefs>>

\* Something was mounted inside, or a removal fails: what is left is
\* retained for another sweep.
LeaveRest(s) ==
    /\ s \notin Timer
    /\ at[s] \in {"locked", "unleased", "twin", "lease", "dir"}
    /\ SweepMoves(s, at[s], "choosing")
    /\ lock' = Unlock(s, on[s])
    /\ UNCHANGED <<diskVars, kind, on, todo, seenRefs>>

SweeperKilled(s) ==
    /\ s \notin Timer
    /\ at[s] \notin {"idle", "ended"}
    /\ SweepMoves(s, at[s], "ended")
    /\ lock' = Unlock(s, on[s])
    /\ todo' = [todo EXCEPT ![s] = {}]
    /\ seenRefs' = [seenRefs EXCEPT ![s] = {}]
    /\ UNCHANGED <<diskVars, kind, on>>

SweepSteady(s) ==
    \/ List(s) \/ (\E w \in Workdir : Visit(s, w)) \/ EndList(s) \/ EndSweep(s)
    \/ TryLock(s) \/ TakeOrphan(s) \/ TakeLeak(s) \/ PassOver(s)
    \/ SweepTwin(s) \/ SweepLease(s) \/ SweepDir(s) \/ LeaveRest(s)

SweepNext(s) == StartSweep(s) \/ SweepSteady(s) \/ SweeperKilled(s)

-----------------------------------------------------------------------------
Next ==
    \/ \E w \in Workdir : ServerNext(w) \/ SandboxExits(w)
    \/ \E s \in Sweeper : SweepNext(s)

Spec == Init /\ [][Next]_vars

\* A sweep under way goes on unless it is killed, a sandbox without a server
\* ends (it is sent SIGTERM when its parent dies), and the timer sweeps again
\* and again.  That a mount or a failing removal does not stop every one of its
\* sweeps for ever is in LeaveRest: they stop only the others.
Fairness ==
    /\ \A w \in Workdir : WF_vars(SandboxExits(w))
    /\ \A s \in Sweeper : WF_vars(SweepSteady(s))
    /\ \A s \in Timer : WF_vars(StartSweep(s))

FairSpec == Spec /\ Fairness

-----------------------------------------------------------------------------
Sweeping(s, w) == on[s] = w /\ at[s] \in {"twin", "lease", "dir"}

\* No sweep removes anything of a workdir whose server still works with it, or
\* is removing it itself: whatever the sweep read before, that server is dead
\* or has finished (sweep_orphaned_workdirs, sweep_dead_owner_workdirs).
ServersKeepTheirs ==
    \A s \in Sweeper, w \in Workdir : Sweeping(s, w) => server[w] \in {"done", "dead"}

\* "The marker records the sandbox process group so a crash cannot cause a
\* later server to delete a still-running container": while the orphan sweep
\* removes a workdir and its twin, no sandbox uses them, at whatever step of
\* start, mark or stop the server was killed.
OrphansHaveNoSandbox ==
    \A s \in Sweeper, w \in Workdir :
        Sweeping(s, w) /\ kind[s] = "orphans" => sandbox[w] # "up"

\* "A twin whose workdir is gone is leaked": what the last pass of the second
\* sweep takes for leaked belongs to no server, because every removal and
\* every creation keeps to one order.
LoneTwinsAreLeaked ==
    \A w \in Workdir : twin[w] /\ ~dir[w] => server[w] = "dead"

\* Does not hold:
\* "any process still names the directory on its command line (a surviving
\* sandbox binds it by path)" keeps it from the second sweep (7952): no
\* leaked workdir is removed under a sandbox.
SurvivorsKeepWorkdir ==
    \A s \in Sweeper, w \in Workdir :
        Sweeping(s, w) /\ kind[s] # "orphans" => sandbox[w] # "up"

\* Whatever a dead server left goes away, unless it died between the creation
\* of its lease and the record of its sandbox.
Unmarked(w) == linked[w] /\ marker[w] = "empty"

MarkedIsReaped ==
    \A w \in Workdir :
        (server[w] = "dead" /\ ~Unmarked(w)) ~> (~dir[w] /\ ~twin[w])

\* Does not hold:
\* main.rs:18361, "leaked workdirs are reaped even while no new server
\* starts", of every workdir whose server died.
LeakedIsReaped ==
    \A w \in Workdir : server[w] = "dead" ~> (~dir[w] /\ ~twin[w])
=============================================================================
