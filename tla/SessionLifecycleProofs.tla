----------------------- MODULE SessionLifecycleProofs -----------------------
(***************************************************************************)
(* What holds of a handle for any number of concurrent session_stop calls. *)
(* The inductive invariant says who is inside the lifecycle gate, what a   *)
(* stop that read the phase may still rely on, and after what point no     *)
(* call can claim the workdir again. Three more rest on it: for a server   *)
(* that keeps running, that it refines the registry and that its records   *)
(* tell what the disk holds; for one that shuts down, what it finds.       *)
(***************************************************************************)
EXTENDS SessionLifecycle, TLAPS

InGate       == {"entered", "planning", "taking", "closing", "abandoning",
                 "removing", "recording"}
StartInGate  == {"checking", "preparing", "scanning", "launching",
                 "published", "cleaning"}
StartFilling == StartInGate \ {"published"}
StartOver    == {"failed", "marking", "labelling", "done"}

(* Each holder of the gate is where its code holds it, and nobody else is. *)
GateHolder ==
  /\ gate = "start" <=> start \in StartInGate
  /\ gate = "deferred" <=> deferred \in {"waiting", "recording"}
  /\ gate = "reaper" <=> reaper = "closing"
  /\ \A c \in Stops : gate = c <=> stop[c] \in InGate

(* A desktop was published by a start that succeeded, and runs unmarked.   *)
DesktopOrigin ==
  /\ desktop # "absent" => start \in {"published", "done"} /\ deferred = "none"
  /\ HasDesktop => death = "none"
  /\ desktop = "absent" => death \in StartStatuses \cup {"none"}
  /\ start \in StartFilling => death = "none"

(* The host call belongs to the start, then to its deferred cleanup.       *)
HostCallOwner ==
  /\ hostCall # "none" => start = "scanning" \/ deferred = "waiting"
  /\ deferred # "none" => start \in StartOver

(* A failed start knows how it failed.                                     *)
FailureKind ==
  start \in {"cleaning", "failed", "marking", "labelling"} => error # "none"

(* A stop past its reading of the phase.                                   *)
StopKnows ==
  \A c \in Stops :
    /\ stop[c] \in {"planning", "taking"} /\ saw[c].desktop =>
         desktop # "absent"
    /\ stop[c] = "planning" /\ ~saw[c].desktop => ~HasDesktop
    /\ stop[c] = "taking" => saw[c].desktop
    /\ stop[c] \in {"abandoning", "closing", "removing", "recording"} =>
         ~HasDesktop
    /\ stop[c] \in {"closing", "removing", "recording"} /\ start = "queued" =>
         death # "none"

(* Once over, the workdir is gone or was never owned and no call can claim *)
(* it: what a stop has found before it drops the handle.                   *)
Over ==
  /\ ~owned /\ ~HasDesktop
  /\ start \in StartOver \/ (start = "queued" /\ death # "none")

HandleLeft ==
  /\ ~registered => Over
  /\ start = "failed" /\ error = "invalid" => Over
  /\ \A c \in Stops : stop[c] \in {"recording", "answered"} => Over

(* Only a start that created the workdir owns it.                          *)
OwnedIsPresent ==
  /\ owned => present
  /\ start \in {"queued", "checking"} => ~owned

IInv ==
  /\ TypeOK
  /\ GateHolder
  /\ DesktopOrigin
  /\ HostCallOwner
  /\ FailureKind
  /\ StopKnows
  /\ HandleLeft
  /\ OwnedIsPresent
-----------------------------------------------------------------------------
USE DEF handleVars, diskVars, startVars, stopVars, serverVars

(* What removing the workdir can do to it.                                 *)
LEMMA RemoveWorkdirEffect ==
  ASSUME TypeOK, NEW outcome, RemoveWorkdir(outcome)
  PROVE  /\ outcome \in {"NothingOwned", "Removed", "Retained"}
         /\ present' \in BOOLEAN /\ owned' \in BOOLEAN
         /\ failures' \in 0..MaxFailures
         /\ owned' => owned
         /\ outcome # "Retained" => ~owned'
         /\ outcome = "Retained" => owned
         /\ present' # present => owned /\ ~owned' /\ ~present'
         /\ owned' => present' = present
<1> USE DEF RemoveWorkdir
<1>1. present \in BOOLEAN /\ owned \in BOOLEAN /\ failures \in 0..MaxFailures
  BY DEF TypeOK
<1>2. failures' \in 0..MaxFailures
  BY <1>1, ConstantsAssumption
<1>3. /\ outcome \in {"NothingOwned", "Removed", "Retained"}
      /\ present' \in BOOLEAN /\ owned' \in BOOLEAN
  BY <1>1
<1>4. /\ owned' => owned
      /\ outcome # "Retained" => ~owned'
      /\ outcome = "Retained" => owned
      /\ present' # present => owned /\ ~owned' /\ ~present'
      /\ owned' => present' = present
  BY <1>1
<1>5. QED
  BY <1>2, <1>3, <1>4

Records == [status : Statuses \cup {"none"}, cleanup : Cleanups \cup {"none"}]

LEMMA RecordLifecycleType ==
  ASSUME TypeOK, NEW s \in Statuses, NEW cleanup \in Cleanups,
         RecordLifecycle(s, cleanup)
  PROVE  record' \in Records
BY DEF TypeOK, RecordLifecycle, Records

LEMMA RecordTerminalType ==
  ASSUME TypeOK, NEW cleanup \in Cleanups, RecordTerminalCleanup(cleanup)
  PROVE  record' \in Records
<1>1. CASE death = "none"
  BY <1>1 DEF RecordTerminalCleanup, TypeOK, Records
<1>2. CASE death # "none"
  <2>1. death \in Statuses
    BY <1>2 DEF TypeOK
  <2>2. RecordLifecycle(death, cleanup)
    BY <1>2 DEF RecordTerminalCleanup
  <2>3. QED
    BY <2>1, <2>2, RecordLifecycleType
<1>3. QED
  BY <1>1, <1>2

LEMMA StartupCleanupLabelType ==
  ASSUME TypeOK PROVE StartupCleanupLabel(owned, present) \in Cleanups
BY ConstantsAssumption DEF TypeOK, StartupCleanupLabel, Cleanups

LEMMA TypeStep == TypeOK /\ [Next]_vars => TypeOK'
<1> SUFFICES ASSUME TypeOK, [Next]_vars PROVE TypeOK'
  OBVIOUS
<1> USE ConstantsAssumption
<1>1. CASE StartStep
  <2> USE DEF TypeOK, StartStates, Statuses, StartStatuses
  <2>0. CASE StartRefuse \/ StartGateTimeout \/ StartEnter
    BY <2>0 DEF StartRefuse, StartGateTimeout, StartEnter
  <2>1. CASE \/ \E kind \in {"invalid", "internal"} : StartReject(kind)
             \/ StartRejectLate \/ StartScanHost
    BY <2>1 DEF StartReject, StartRejectLate, StartScanHost
  <2>7. CASE StartCreateWorkdir
    <3>1. present' \in BOOLEAN /\ owned' \in BOOLEAN
      BY <2>7, Zenon DEF StartCreateWorkdir, ConstantsAssumption
    <3>2. QED
      BY <2>7, <3>1 DEF StartCreateWorkdir
  <2>2. CASE \/ StartLaunch \/ StartFail \/ StartPublish \/ StartReturn
             \/ StartTimeout
    BY <2>2 DEF StartLaunch, StartFail, StartPublish, StartReturn, StartTimeout
  <2>3. CASE StartCleanUp
    <3>1. PICK outcome \in {"NothingOwned", "Removed", "Retained"} :
            /\ RemoveWorkdir(outcome)
            /\ error' = IF outcome = "Retained" THEN "internal" ELSE error
      BY <2>3 DEF StartCleanUp
    <3>2. QED
      BY <2>3, <3>1, RemoveWorkdirEffect DEF StartCleanUp
  <2>4. CASE RegisterForget \/ RegisterCheck \/ RegisterMark
    <3>1. CASE RegisterForget
      <4>1. registered' \in BOOLEAN
        BY <3>1, Zenon DEF RegisterForget
      <4>2. QED
        BY <3>1, <4>1 DEF RegisterForget
    <3>2. CASE RegisterCheck
      BY <3>2 DEF RegisterCheck
    <3>3. CASE RegisterMark
      BY <3>3 DEF RegisterMark
    <3>4. QED
      BY <2>4, <3>1, <3>2, <3>3
  <2>5. CASE RegisterRecord
    <3>1. record' \in Records
      BY <2>5, RecordTerminalType, StartupCleanupLabelType DEF RegisterRecord
    <3>2. QED
      BY <2>5, <3>1 DEF RegisterRecord, Records
  <2>6. QED
    BY <1>1, <2>0, <2>1, <2>2, <2>3, <2>4, <2>5, <2>7 DEF StartStep
<1>2. CASE DeferredStep
  <2>1. CASE DeferredRemove
    <3>1. PICK outcome : RemoveWorkdir(outcome)
      BY <2>1 DEF DeferredRemove
    <3>2. QED
      BY <2>1, <3>1, RemoveWorkdirEffect DEF DeferredRemove, TypeOK
  <2>2. CASE DeferredRecord
    <3>1. record' \in Records
      BY <2>2, RecordTerminalType, StartupCleanupLabelType
         DEF DeferredRecord, TypeOK, Records
    <3>2. QED
      BY <2>2, <3>1 DEF DeferredRecord, Records, TypeOK
  <2>3. QED
    BY <1>2, <2>1, <2>2 DEF DeferredStep
<1>3. ASSUME NEW c \in Stops, Stop(c) PROVE TypeOK'
  <2> DEFINE Saws == [busy : BOOLEAN, desktop : BOOLEAN, removed : BOOLEAN,
                      plan : {"none", "Teardown", "Clear", "Abandon"}]
  <2> USE DEF Goes
  <2>1. CASE StopProbe(c) \/ StopGateTimeout(c) \/ StopEnter(c)
             \/ StopTornDown(c)
    BY <2>1 DEF StopProbe, StopGateTimeout, StopEnter, StopTornDown, TypeOK,
         StopStates
  <2>2. CASE StopTake(c) \/ StopAbandon(c)
    BY <2>2 DEF StopTake, StopAbandon, TypeOK, StopStates, Statuses,
         StartStatuses, DesktopStatuses
  <2>3. CASE StopBegin(c) \/ StopReadDesktop(c) \/ StopChoose(c)
    <3>1. saw' \in [Stops -> Saws]
      <4>1. CASE StopBegin(c)
        BY <4>1 DEF StopBegin, TypeOK, Nothing
      <4>2. CASE StopReadDesktop(c)
        <5>1. ASSUME NEW b \in BOOLEAN
              PROVE  [saw EXCEPT ![c].desktop = b] \in [Stops -> Saws]
          BY DEF TypeOK
        <5>2. HasDesktop \in BOOLEAN
          BY DEF HasDesktop
        <5>3. QED
          BY <4>2, <5>1, <5>2 DEF StopReadDesktop
      <4>3. CASE StopChoose(c)
        BY <4>3 DEF StopChoose, StopPlan, Phase, TypeOK
      <4>4. QED
        BY <2>3, <4>1, <4>2, <4>3
    <3>2. stop' \in [Stops -> StopStates]
      BY <2>3 DEF StopBegin, StopReadDesktop, StopChoose, StopPlan, Phase,
           TypeOK, StopStates
    <3>3. QED
      BY <2>3, <3>1, <3>2 DEF StopBegin, StopReadDesktop, StopChoose, TypeOK
  <2>4. CASE StopRemove(c)
    <3>1. PICK outcome \in {"NothingOwned", "Removed"} :
            /\ RemoveWorkdir(outcome)
            /\ saw' = [saw EXCEPT ![c].removed = outcome = "Removed"]
      BY <2>4 DEF StopRemove
    <3>2. saw' \in [Stops -> Saws]
      <4>1. ASSUME NEW b \in BOOLEAN
            PROVE  [saw EXCEPT ![c].removed = b] \in [Stops -> Saws]
        BY DEF TypeOK
      <4>2. (outcome = "Removed") \in BOOLEAN
        OBVIOUS
      <4>3. QED
        BY <3>1, <4>1, <4>2
    <3>3. QED
      BY <2>4, <3>1, <3>2, RemoveWorkdirEffect DEF StopRemove, TypeOK,
           StopStates
  <2>5. CASE StopRetain(c)
    <3>1. record' \in Records
      BY <2>5, RecordTerminalType DEF StopRetain, Cleanups
    <3>2. QED
      BY <2>5, <3>1, RemoveWorkdirEffect DEF StopRetain, TypeOK, StopStates,
           Records
  <2>6. CASE StopRecord(c)
    <3>1. record' \in Records
      BY <2>6, RecordTerminalType DEF StopRecord, Cleanups, TypeOK, Records
    <3>2. QED
      BY <2>6, <3>1 DEF StopRecord, TypeOK, StopStates, Records
  <2>7. CASE StopUnregister(c)
    <3>1. saw' \in [Stops -> Saws]
      BY <2>7 DEF StopUnregister, TypeOK, Nothing
    <3>2. stop' \in [Stops -> StopStates]
      BY <2>7 DEF StopUnregister, TypeOK, StopStates
    <3>3. registered' \in BOOLEAN
      BY <2>7, Zenon DEF StopUnregister
    <3>4. QED
      BY <2>7, <3>1, <3>2, <3>3 DEF StopUnregister, TypeOK
  <2>8. QED
    BY <1>3, <2>1, <2>2, <2>3, <2>4, <2>5, <2>6, <2>7 DEF Stop
<1>4. CASE HostCallReturns \/ SandboxExits \/ DesktopStep \/ Expire
  <2> USE DEF TypeOK, Statuses, DesktopStatuses
  <2>1. CASE HostCallReturns \/ SandboxExits
    BY <2>1 DEF HostCallReturns, SandboxExits
  <2>2. CASE DesktopStep
    BY <2>2 DEF DesktopStep, BrowsersClose, TearDown, CheckLiveness
  <2>3. CASE Expire
    BY <2>3 DEF Expire
  <2>4. QED
    BY <1>4, <2>1, <2>2, <2>3
<1>5. CASE ExpireRemove
  <2>1. PICK outcome \in {"NothingOwned", "Removed", "Retained"} :
          /\ RemoveWorkdir(outcome)
          /\ RecordLifecycle("expired",
               [NothingOwned |-> "not_owned", Removed |-> "removed",
                Retained |-> "retained"][outcome])
    BY <1>5 DEF ExpireRemove
  <2>2. record' \in Records
    BY <2>1, RecordLifecycleType DEF Cleanups, Statuses, DesktopStatuses
  <2>3. QED
    BY <1>5, <2>1, <2>2, RemoveWorkdirEffect DEF ExpireRemove, TypeOK, Records
<1>6. CASE ShutdownBegin \/ ShutdownEnter \/ ShutdownTake
  BY <1>6 DEF ShutdownBegin, ShutdownEnter, ShutdownTake, TypeOK
<1>7. CASE ShutdownRemove
  <2> DEFINE Told == [NothingOwned |-> "not_requested", Removed |-> "removed",
                      Retained |-> "retained"]
  <2>1. PICK outcome \in {"NothingOwned", "Removed", "Retained"} :
          /\ RemoveWorkdir(outcome)
          /\ CASE shutdown = "closing" -> RecordLifecycle("stopped", Told[outcome])
               [] shutdown = "removing" ->
                    IF ClearWritesRecord(death, outcome # "NothingOwned")
                    THEN RecordTerminalCleanup(Told[outcome])
                    ELSE UNCHANGED record
    BY <1>7 DEF ShutdownRemove
  <2>2. Told[outcome] \in Cleanups
    BY DEF Cleanups
  <2>3. \/ RecordLifecycle("stopped", Told[outcome])
        \/ RecordTerminalCleanup(Told[outcome])
        \/ UNCHANGED record
    BY <1>7, <2>1 DEF ShutdownRemove
  <2>4. record' \in Records
    BY <2>2, <2>3, RecordLifecycleType, RecordTerminalType
       DEF Statuses, DesktopStatuses, TypeOK, Records
  <2>5. QED
    BY <1>7, <2>1, <2>4, RemoveWorkdirEffect DEF ShutdownRemove, TypeOK, Records
<1>8. CASE UNCHANGED vars
  BY <1>8 DEF vars, TypeOK
<1>9. QED
  BY <1>1, <1>2, <1>3, <1>4, <1>5, <1>6, <1>7, <1>8
     DEF Next, ShutdownStep

LEMMA GateStep == TypeOK /\ GateHolder /\ [Next]_vars => GateHolder'
<1> SUFFICES ASSUME TypeOK, GateHolder, [Next]_vars PROVE GateHolder'
  OBVIOUS
<1> USE ConstantsAssumption
<1> USE DEF TypeOK, GateHolder, InGate, StartInGate
<1>1. CASE StartStep
  <2>1. CASE StartRefuse \/ StartGateTimeout \/ StartEnter
    BY <2>1 DEF StartRefuse, StartGateTimeout, StartEnter
  <2>2. CASE \/ \E kind \in {"invalid", "internal"} : StartReject(kind)
             \/ StartCreateWorkdir \/ StartRejectLate \/ StartScanHost
             \/ StartLaunch \/ StartFail \/ StartPublish
    BY <2>2 DEF StartReject, StartCreateWorkdir, StartRejectLate,
         StartScanHost, StartLaunch, StartFail, StartPublish
  <2>3. CASE StartReturn \/ StartTimeout \/ StartCleanUp
    BY <2>3 DEF StartReturn, StartTimeout, StartCleanUp
  <2>4. CASE RegisterForget \/ RegisterCheck \/ RegisterMark \/ RegisterRecord
    BY <2>4 DEF RegisterForget, RegisterCheck, RegisterMark, RegisterRecord
  <2>5. QED
    BY <1>1, <2>1, <2>2, <2>3, <2>4 DEF StartStep
<1>2. CASE DeferredStep
  BY <1>2 DEF DeferredStep, DeferredRemove, DeferredRecord
<1>3. ASSUME NEW c \in Stops, Stop(c) PROVE GateHolder'
  <2>1. CASE StopEnter(c)
    BY <2>1 DEF StopEnter, Goes
  <2>2. CASE StopRetain(c) \/ StopRecord(c)
    BY <2>2 DEF StopRetain, StopRecord, Goes
  <2>3. CASE \/ StopBegin(c) \/ StopProbe(c) \/ StopGateTimeout(c)
             \/ StopReadDesktop(c) \/ StopChoose(c)
    BY <2>3 DEF StopBegin, StopProbe, StopGateTimeout, StopReadDesktop,
         StopChoose, Goes, StopPlan, Phase
  <2>4. CASE \/ StopTake(c) \/ StopTornDown(c) \/ StopAbandon(c)
             \/ StopRemove(c) \/ StopUnregister(c)
    BY <2>4 DEF StopTake, StopTornDown, StopAbandon, StopRemove,
         StopUnregister, Goes
  <2>5. QED
    BY <1>3, <2>1, <2>2, <2>3, <2>4 DEF Stop
<1>4. CASE HostCallReturns \/ SandboxExits \/ DesktopStep
  BY <1>4 DEF HostCallReturns, SandboxExits, DesktopStep, BrowsersClose,
       TearDown, CheckLiveness
<1>5. CASE Expire \/ ExpireRemove
  <2>1. CASE Expire
    BY <2>1 DEF Expire
  <2>2. CASE ExpireRemove
    BY <2>2 DEF ExpireRemove
  <2>3. QED
    BY <1>5, <2>1, <2>2
<1>6. CASE ShutdownBegin \/ ShutdownStep
  <2>1. CASE ShutdownBegin
    BY <2>1 DEF ShutdownBegin
  <2>2. CASE ShutdownEnter
    BY <2>2 DEF ShutdownEnter
  <2>3. CASE ShutdownTake
    BY <2>3 DEF ShutdownTake
  <2>4. CASE ShutdownRemove
    BY <2>4 DEF ShutdownRemove
  <2>5. QED
    BY <1>6, <2>1, <2>2, <2>3, <2>4 DEF ShutdownStep
<1>7. CASE UNCHANGED vars
  BY <1>7 DEF vars
<1>8. QED
  BY <1>1, <1>2, <1>3, <1>4, <1>5, <1>6, <1>7 DEF Next

LEMMA DesktopOriginStep ==
  TypeOK /\ GateHolder /\ DesktopOrigin /\ HostCallOwner /\ StopKnows
    /\ [Next]_vars => DesktopOrigin'
<1> SUFFICES ASSUME TypeOK, GateHolder, DesktopOrigin, HostCallOwner,
                    StopKnows, [Next]_vars
             PROVE  DesktopOrigin'
  OBVIOUS
<1> USE ConstantsAssumption
<1> USE DEF DesktopOrigin, HasDesktop, StartInGate, StartFilling, StartStatuses
<1>1. CASE StartStep
  <2>1. CASE \/ StartRefuse \/ StartGateTimeout \/ StartEnter
             \/ \E kind \in {"invalid", "internal"} : StartReject(kind)
             \/ StartCreateWorkdir \/ StartRejectLate \/ StartScanHost
             \/ StartLaunch \/ StartFail
    BY <2>1 DEF StartRefuse, StartGateTimeout, StartEnter, StartReject,
         StartCreateWorkdir, StartRejectLate, StartScanHost, StartLaunch,
         StartFail
  <2>2. CASE StartPublish
    BY <2>2 DEF StartPublish, HostCallOwner, StartOver
  <2>3. CASE StartReturn \/ StartTimeout \/ StartCleanUp
    BY <2>3 DEF StartReturn, StartTimeout, StartCleanUp
  <2>4. CASE RegisterForget \/ RegisterCheck \/ RegisterMark \/ RegisterRecord
    BY <2>4 DEF RegisterForget, RegisterCheck, RegisterMark, RegisterRecord
  <2>5. QED
    BY <1>1, <2>1, <2>2, <2>3, <2>4 DEF StartStep
<1>2. CASE DeferredStep
  BY <1>2 DEF DeferredStep, DeferredRemove, DeferredRecord
<1>3. ASSUME NEW c \in Stops, Stop(c) PROVE DesktopOrigin'
  <2>1. CASE StopTake(c)
    BY <2>1 DEF StopTake, Goes
  <2>2. CASE StopAbandon(c)
    BY <2>2 DEF StopAbandon, Goes, GateHolder, StopKnows, InGate
  <2>3. CASE ~StopTake(c) /\ ~StopAbandon(c)
    BY <1>3, <2>3 DEF Stop, StopBegin, StopProbe, StopGateTimeout, StopEnter,
         StopReadDesktop, StopChoose, StopTornDown, StopRemove, StopRetain,
         StopRecord, StopUnregister
  <2>4. QED
    BY <2>1, <2>2, <2>3
<1>4. CASE HostCallReturns \/ SandboxExits \/ DesktopStep
  BY <1>4 DEF HostCallReturns, SandboxExits, DesktopStep, BrowsersClose,
       TearDown, CheckLiveness
<1>5. CASE Expire \/ ExpireRemove
  BY <1>5 DEF Expire, ExpireRemove, IdleExpired, Phase, TypeOK
<1>6. CASE ShutdownBegin \/ ShutdownStep
  BY <1>6 DEF ShutdownBegin, ShutdownStep, ShutdownEnter, ShutdownTake,
       ShutdownRemove
<1>7. CASE UNCHANGED vars
  BY <1>7 DEF vars
<1>8. QED
  BY <1>1, <1>2, <1>3, <1>4, <1>5, <1>6, <1>7 DEF Next

LEMMA HostCallStep == TypeOK /\ HostCallOwner /\ [Next]_vars => HostCallOwner'
<1> SUFFICES ASSUME TypeOK, HostCallOwner, [Next]_vars PROVE HostCallOwner'
  OBVIOUS
<1> USE DEF HostCallOwner, StartOver
<1>1. CASE StartStep
  BY <1>1 DEF StartStep, StartRefuse, StartGateTimeout, StartEnter,
       StartReject, StartCreateWorkdir, StartRejectLate, StartScanHost,
       StartLaunch, StartFail, StartPublish, StartReturn, StartTimeout,
       StartCleanUp, RegisterForget, RegisterCheck, RegisterMark,
       RegisterRecord
<1>2. CASE DeferredStep \/ HostCallReturns
  BY <1>2 DEF DeferredStep, DeferredRemove, DeferredRecord, HostCallReturns
<1>3. CASE \/ \E c \in Stops : Stop(c)
           \/ SandboxExits \/ DesktopStep \/ Expire \/ ExpireRemove
           \/ ShutdownBegin \/ ShutdownStep
  BY <1>3 DEF Stop, StopBegin, StopProbe, StopGateTimeout, StopEnter,
       StopReadDesktop, StopChoose, StopTake, StopTornDown, StopAbandon,
       StopRemove, StopRetain, StopRecord, StopUnregister, SandboxExits,
       DesktopStep, BrowsersClose, TearDown, CheckLiveness, Expire,
       ExpireRemove, ShutdownBegin, ShutdownStep, ShutdownEnter, ShutdownTake,
       ShutdownRemove
<1>4. CASE UNCHANGED vars
  BY <1>4 DEF vars
<1>5. QED
  BY <1>1, <1>2, <1>3, <1>4 DEF Next

LEMMA FailureKindStep == TypeOK /\ FailureKind /\ [Next]_vars => FailureKind'
<1> SUFFICES ASSUME TypeOK, FailureKind, [Next]_vars PROVE FailureKind'
  OBVIOUS
<1> USE DEF FailureKind
<1>1. CASE StartStep
  BY <1>1 DEF StartStep, StartRefuse, StartGateTimeout, StartEnter,
       StartReject, StartCreateWorkdir, StartRejectLate, StartScanHost,
       StartLaunch, StartFail, StartPublish, StartReturn, StartTimeout,
       StartCleanUp, RegisterForget, RegisterCheck, RegisterMark,
       RegisterRecord
<1>2. CASE UNCHANGED <<start, error>>
  BY <1>2
<1>3. QED
  BY <1>1, <1>2 DEF Next, vars, Stop, StopBegin, StopProbe, StopGateTimeout,
       StopEnter, StopReadDesktop, StopChoose, StopTake, StopTornDown,
       StopAbandon, StopRemove, StopRetain, StopRecord, StopUnregister,
       DeferredStep, DeferredRemove, DeferredRecord, HostCallReturns,
       SandboxExits, DesktopStep, BrowsersClose, TearDown, CheckLiveness,
       Expire, ExpireRemove, ShutdownBegin, ShutdownStep, ShutdownEnter,
       ShutdownTake, ShutdownRemove

LEMMA StopKnowsStep ==
  TypeOK /\ GateHolder /\ DesktopOrigin /\ StopKnows /\ [Next]_vars
    => StopKnows'
<1> SUFFICES ASSUME TypeOK, GateHolder, DesktopOrigin, StopKnows, [Next]_vars
             PROVE  StopKnows'
  OBVIOUS
<1> USE ConstantsAssumption
<1> USE DEF StopKnows, HasDesktop
<1>1. CASE StartStep
  <2>1. CASE StartPublish
    BY <2>1 DEF StartPublish, GateHolder, StartInGate, InGate
  <2>2. CASE /\ ~StartPublish
             /\ desktop' = desktop /\ stop' = stop /\ saw' = saw
             /\ death # "none" => death' # "none"
             /\ start' = "queued" => start = "queued"
    BY <2>2
  <2>3. QED
    BY <1>1, <2>1, <2>2 DEF StartStep, StartRefuse, StartGateTimeout,
         StartEnter, StartReject, StartCreateWorkdir, StartRejectLate,
         StartScanHost, StartLaunch, StartFail, StartReturn, StartTimeout,
         StartCleanUp, RegisterForget, RegisterCheck, RegisterMark,
         RegisterRecord
<1>2. CASE DeferredStep \/ HostCallReturns \/ SandboxExits \/ DesktopStep
  BY <1>2 DEF DeferredStep, DeferredRemove, DeferredRecord, HostCallReturns,
       SandboxExits, DesktopStep, BrowsersClose, TearDown, CheckLiveness
<1>3. ASSUME NEW c \in Stops, Stop(c) PROVE StopKnows'
  <2> USE DEF Goes, TypeOK
  <2>1. CASE StopBegin(c) \/ StopProbe(c) \/ StopGateTimeout(c) \/ StopEnter(c)
    BY <2>1 DEF StopBegin, StopProbe, StopGateTimeout, StopEnter
  <2>2. CASE StopReadDesktop(c)
    BY <2>2 DEF StopReadDesktop
  <2>3. CASE StopChoose(c)
    BY <2>3 DEF StopChoose, StopPlan, Phase, DesktopOrigin
  <2>4. CASE StopTake(c)
    BY <2>4 DEF StopTake, DesktopOrigin
  <2>5. CASE StopTornDown(c)
    BY <2>5 DEF StopTornDown, DesktopOrigin
  <2>6. CASE StopAbandon(c) \/ StopRemove(c)
    BY <2>6 DEF StopAbandon, StopRemove
  <2>7. CASE StopRetain(c) \/ StopRecord(c) \/ StopUnregister(c)
    BY <2>7 DEF StopRetain, StopRecord, StopUnregister
  <2>8. QED
    BY <1>3, <2>1, <2>2, <2>3, <2>4, <2>5, <2>6, <2>7 DEF Stop
<1>4. CASE Expire \/ ExpireRemove
  BY <1>4 DEF Expire, ExpireRemove
<1>5. CASE ShutdownBegin \/ ShutdownStep
  BY <1>5 DEF ShutdownBegin, ShutdownStep, ShutdownEnter, ShutdownTake,
       ShutdownRemove
<1>6. CASE UNCHANGED vars
  BY <1>6 DEF vars
<1>7. QED
  BY <1>1, <1>2, <1>3, <1>4, <1>5, <1>6 DEF Next

LEMMA HandleLeftStep ==
  /\ TypeOK /\ GateHolder /\ DesktopOrigin /\ FailureKind /\ StopKnows
  /\ HandleLeft /\ OwnedIsPresent
  /\ [Next]_vars
  => HandleLeft'
<1> SUFFICES ASSUME TypeOK, GateHolder, DesktopOrigin, FailureKind, StopKnows,
                    HandleLeft, OwnedIsPresent, [Next]_vars
             PROVE  HandleLeft'
  OBVIOUS
<1> USE ConstantsAssumption
<1> USE DEF HandleLeft, Over, StartOver, HasDesktop
<1>1. CASE StartStep
  <2> USE DEF OwnedIsPresent, DesktopOrigin
  <2>1. CASE StartRefuse \/ StartGateTimeout \/ StartEnter
    BY <2>1 DEF StartRefuse, StartGateTimeout, StartEnter
  <2>2. CASE \/ \E kind \in {"invalid", "internal"} : StartReject(kind)
             \/ StartCreateWorkdir \/ StartRejectLate \/ StartScanHost
             \/ StartLaunch \/ StartFail \/ StartPublish \/ StartReturn
    BY <2>2 DEF StartReject, StartCreateWorkdir, StartRejectLate,
         StartScanHost, StartLaunch, StartFail, StartPublish, StartReturn
  <2>3. CASE StartTimeout
    BY <2>3 DEF StartTimeout
  <2>4. CASE StartCleanUp
    <3>1. PICK outcome \in {"NothingOwned", "Removed", "Retained"} :
            /\ RemoveWorkdir(outcome)
            /\ error' = IF outcome = "Retained" THEN "internal" ELSE error
      BY <2>4 DEF StartCleanUp
    <3>2. QED
      BY <2>4, <3>1, RemoveWorkdirEffect DEF StartCleanUp
  <2>5. CASE RegisterForget
    <3>1. error = "invalid"
      BY <2>5 DEF RegisterForget, FailedStart, FailureKind, TypeOK
    <3>2. QED
      BY <2>5, <3>1 DEF RegisterForget
  <2>6. CASE RegisterCheck \/ RegisterMark \/ RegisterRecord
    BY <2>6 DEF RegisterCheck, RegisterMark, RegisterRecord
  <2>7. QED
    BY <1>1, <2>1, <2>2, <2>3, <2>4, <2>5, <2>6 DEF StartStep
<1>2. CASE DeferredStep \/ HostCallReturns
  <2>1. CASE DeferredRemove
    <3>1. PICK outcome \in {"NothingOwned", "Removed", "Retained"} :
            RemoveWorkdir(outcome)
      BY <2>1 DEF DeferredRemove
    <3>2. QED
      BY <2>1, <3>1, RemoveWorkdirEffect DEF DeferredRemove
  <2>2. CASE DeferredRecord \/ HostCallReturns
    BY <2>2 DEF DeferredRecord, HostCallReturns
  <2>3. QED
    BY <1>2, <2>1, <2>2 DEF DeferredStep
<1>3. ASSUME NEW c \in Stops, Stop(c) PROVE HandleLeft'
  <2> USE DEF Goes, TypeOK
  <2>1. CASE \/ StopBegin(c) \/ StopProbe(c) \/ StopGateTimeout(c)
             \/ StopEnter(c) \/ StopReadDesktop(c) \/ StopTornDown(c)
    BY <2>1 DEF StopBegin, StopProbe, StopGateTimeout, StopEnter,
         StopReadDesktop, StopTornDown
  <2>2. CASE StopChoose(c)
    BY <2>2 DEF StopChoose, StopPlan, Phase
  <2>3. CASE StopTake(c) \/ StopAbandon(c)
    BY <2>3 DEF StopTake, StopAbandon
  <2>4. CASE StopRemove(c)
    <3>1. PICK outcome \in {"NothingOwned", "Removed"} : RemoveWorkdir(outcome)
      BY <2>4 DEF StopRemove
    <3>2. ~owned'
      BY <3>1, RemoveWorkdirEffect
    <3>3. start \in StartOver \/ (start = "queued" /\ death # "none")
      BY <2>4 DEF StopRemove, GateHolder, StartInGate, InGate, StopKnows,
           StartStates
    <3>4. QED
      BY <2>4, <3>2, <3>3 DEF StopRemove, StopKnows
  <2>5. CASE StopRetain(c)
    BY <2>5, RemoveWorkdirEffect DEF StopRetain
  <2>6. CASE StopRecord(c) \/ StopUnregister(c)
    BY <2>6 DEF StopRecord, StopUnregister
  <2>7. QED
    BY <1>3, <2>1, <2>2, <2>3, <2>4, <2>5, <2>6 DEF Stop
<1>4. CASE SandboxExits \/ DesktopStep
  BY <1>4 DEF SandboxExits, DesktopStep, BrowsersClose, TearDown, CheckLiveness
<1>5. CASE Expire \/ ExpireRemove
  <2>1. CASE Expire
    BY <2>1 DEF Expire
  <2>2. CASE ExpireRemove
    <3>1. PICK outcome : RemoveWorkdir(outcome)
      BY <2>2 DEF ExpireRemove
    <3>2. QED
      BY <2>2, <3>1, RemoveWorkdirEffect DEF ExpireRemove
  <2>3. QED
    BY <1>5, <2>1, <2>2
<1>6. CASE ShutdownBegin \/ ShutdownStep
  <2>1. CASE ShutdownBegin \/ ShutdownEnter \/ ShutdownTake
    BY <2>1 DEF ShutdownBegin, ShutdownEnter, ShutdownTake
  <2>2. CASE ShutdownRemove
    <3>1. PICK outcome : RemoveWorkdir(outcome)
      BY <2>2 DEF ShutdownRemove
    <3>2. QED
      BY <2>2, <3>1, RemoveWorkdirEffect DEF ShutdownRemove
  <2>3. QED
    BY <1>6, <2>1, <2>2 DEF ShutdownStep
<1>7. CASE UNCHANGED vars
  BY <1>7 DEF vars
<1>8. QED
  BY <1>1, <1>2, <1>3, <1>4, <1>5, <1>6, <1>7 DEF Next

LEMMA OwnedIsPresentStep ==
  TypeOK /\ GateHolder /\ OwnedIsPresent /\ [Next]_vars => OwnedIsPresent'
<1> SUFFICES ASSUME TypeOK, GateHolder, OwnedIsPresent, [Next]_vars
             PROVE  OwnedIsPresent'
  OBVIOUS
<1> USE DEF OwnedIsPresent
<1>1. ASSUME NEW outcome, RemoveWorkdir(outcome),
             start' \in {"queued", "checking"} => start' = start
      PROVE  OwnedIsPresent'
  BY <1>1, RemoveWorkdirEffect
<1>2. CASE \/ StartCleanUp \/ DeferredRemove \/ ExpireRemove \/ ShutdownRemove
           \/ \E c \in Stops : StopRemove(c) \/ StopRetain(c)
  BY <1>1, <1>2 DEF StartCleanUp, DeferredRemove, ExpireRemove,
       ShutdownRemove, StopRemove, StopRetain
<1>3. CASE StartCreateWorkdir
  BY <1>3 DEF StartCreateWorkdir
<1>4. CASE UNCHANGED <<present, owned>> /\ start' = start
  BY <1>4
<1>5. CASE UNCHANGED <<present, owned>> /\ start' # start /\ StartStep
  BY <1>5 DEF StartStep, StartRefuse, StartGateTimeout, StartEnter,
       StartReject, StartRejectLate, StartScanHost, StartLaunch, StartFail,
       StartPublish, StartReturn, StartTimeout, RegisterForget, RegisterCheck,
       RegisterMark, RegisterRecord, StartCleanUp, StartCreateWorkdir
<1>6. QED
  <2>1. CASE StartStep
    BY <2>1, <1>2, <1>3, <1>4, <1>5 DEF StartStep, StartRefuse,
         StartGateTimeout, StartEnter, StartReject, StartRejectLate,
         StartScanHost, StartLaunch, StartFail, StartPublish, StartReturn,
         StartTimeout, RegisterForget, RegisterCheck, RegisterMark,
         RegisterRecord
  <2>2. CASE \E c \in Stops : Stop(c)
    BY <2>2, <1>2, <1>4 DEF Stop, StopBegin, StopProbe, StopGateTimeout,
         StopEnter, StopReadDesktop, StopChoose, StopTake, StopTornDown,
         StopAbandon, StopRecord, StopUnregister
  <2>3. CASE \/ DeferredStep \/ HostCallReturns \/ SandboxExits \/ DesktopStep
             \/ Expire \/ ExpireRemove \/ ShutdownBegin \/ ShutdownStep
    BY <2>3, <1>2, <1>4 DEF DeferredStep, DeferredRecord, HostCallReturns,
         SandboxExits, DesktopStep, BrowsersClose, TearDown, CheckLiveness,
         Expire, ShutdownBegin, ShutdownStep, ShutdownEnter, ShutdownTake
  <2>4. CASE UNCHANGED vars
    BY <2>4, <1>4 DEF vars
  <2>5. QED
    BY <2>1, <2>2, <2>3, <2>4 DEF Next

LEMMA InitIInv == Init => IInv
<1> SUFFICES ASSUME Init PROVE IInv
  OBVIOUS
<1> USE ConstantsAssumption
<1> USE DEF Init, HasDesktop
<1>1. saw \in [Stops -> [busy : BOOLEAN, desktop : BOOLEAN, removed : BOOLEAN,
                         plan : {"none", "Teardown", "Clear", "Abandon"}]]
  BY DEF Nothing
<1>2. registered \in BOOLEAN /\ present \in BOOLEAN /\ owned \in BOOLEAN
  BY Zenon
<1>3. TypeOK
  BY <1>1, <1>2 DEF TypeOK, StartStates, StopStates, NoRecord
<1>4. GateHolder /\ StopKnows
  BY DEF GateHolder, StopKnows, StartInGate, InGate
<1>5. DesktopOrigin /\ HostCallOwner /\ FailureKind /\ HandleLeft
        /\ OwnedIsPresent
  BY DEF DesktopOrigin, HostCallOwner, FailureKind, HandleLeft,
       OwnedIsPresent, StartFilling, StartInGate
<1>6. QED
  BY <1>3, <1>4, <1>5 DEF IInv

LEMMA NextIInv == IInv /\ [Next]_vars => IInv'
BY TypeStep, GateStep, DesktopOriginStep, HostCallStep, FailureKindStep,
   StopKnowsStep, HandleLeftStep, OwnedIsPresentStep DEF IInv

THEOREM Invariance == Spec => []IInv
BY InitIInv, NextIInv, PTL DEF Spec

(* Every behaviour of the handle keeps its variables in their types.       *)
THEOREM TypeCorrect == Spec => []TypeOK
<1>1. IInv => TypeOK
  BY DEF IInv
<1>2. QED
  BY <1>1, Invariance, PTL

(* However many stops race the start, its failure, an expiry or a shutdown *)
(* that does not wait for the gate, a workdir the server owns keeps its    *)
(* handle, so session_stop can still retry the removal.                    *)
THEOREM RetryStays == Spec => []OwnedHasRetry
<1>1. IInv => OwnedHasRetry
  BY DEF IInv, HandleLeft, Over, OwnedHasRetry
<1>2. QED
  BY <1>1, Invariance, PTL

-----------------------------------------------------------------------------
(* What holds as long as the server does not shut down.                    *)

StopMarks ==
  \A c \in Stops :
    stop[c] \in {"closing", "removing", "recording", "answered"} =>
      death # "none"

RunningInv ==
  /\ shutdown = "running"
  /\ desktop # "dropped"
  /\ MissingDesktopHasStatus
  /\ StopMarks
  /\ WorkdirOutlivesItsUsers

LEMMA NoShutdown ==
  ASSUME ~ServerStops, shutdown = "running", [Next]_vars
  PROVE  shutdown' = "running" /\ ~ShutdownBegin /\ ~ShutdownStep
<1>1. ~ShutdownBegin /\ ~ShutdownStep
  BY DEF ShutdownBegin, ShutdownStep, ShutdownEnter, ShutdownTake,
       ShutdownRemove
<1>2. QED
  BY <1>1 DEF Next, vars, StartStep, StartRefuse, StartGateTimeout, StartEnter,
       StartReject, StartCreateWorkdir, StartRejectLate, StartScanHost,
       StartLaunch, StartFail, StartPublish, StartReturn, StartTimeout,
       StartCleanUp, RegisterForget, RegisterCheck, RegisterMark,
       RegisterRecord, Stop, StopBegin, StopProbe, StopGateTimeout,
       StopEnter, StopReadDesktop, StopChoose, StopTake, StopTornDown,
       StopAbandon, StopRemove, StopRetain, StopRecord, StopUnregister,
       DeferredStep, DeferredRemove, DeferredRecord, HostCallReturns,
       SandboxExits, DesktopStep, BrowsersClose, TearDown, CheckLiveness,
       Expire, ExpireRemove

(* No step unsets the terminal status, so what it explains stays so.       *)
LEMMA StatusStep ==
  ASSUME ~ServerStops, IInv, shutdown = "running", desktop # "dropped",
         MissingDesktopHasStatus, StopMarks, [Next]_vars
  PROVE  desktop' # "dropped" /\ MissingDesktopHasStatus' /\ StopMarks'
<1> USE DEF MissingDesktopHasStatus, StopMarks, HasDesktop
<1>0. ~ShutdownBegin /\ ~ShutdownStep
  BY NoShutdown
<1>1. CASE StartStep
  BY <1>1 DEF StartStep, StartRefuse, StartGateTimeout, StartEnter,
       StartReject, StartCreateWorkdir, StartRejectLate, StartScanHost,
       StartLaunch, StartFail, StartPublish, StartReturn, StartTimeout,
       StartCleanUp, RegisterForget, RegisterCheck, RegisterMark,
       RegisterRecord
<1>2. CASE DeferredStep \/ HostCallReturns \/ SandboxExits \/ DesktopStep
           \/ Expire \/ ExpireRemove
  BY <1>2 DEF DeferredStep, DeferredRemove, DeferredRecord, HostCallReturns,
       SandboxExits, DesktopStep, BrowsersClose, TearDown, CheckLiveness,
       Expire, ExpireRemove
<1>3. ASSUME NEW c \in Stops, Stop(c)
      PROVE  desktop' # "dropped" /\ MissingDesktopHasStatus' /\ StopMarks'
  <2> USE DEF Goes, IInv, TypeOK
  <2>1. CASE StopChoose(c)
    BY <2>1 DEF StopChoose, StopPlan, Phase
  <2>2. CASE StopTake(c)
    BY <2>2 DEF StopTake, StopKnows
  <2>3. CASE StopAbandon(c)
    BY <2>3 DEF StopAbandon
  <2>4. CASE /\ UNCHANGED <<death, desktop>>
             /\ \A d \in Stops \ {c} : stop'[d] = stop[d]
             /\ stop'[c] \in {"closing", "removing", "recording", "answered"}
                  => stop[c] \in {"closing", "removing", "recording",
                                  "answered"}
    BY <2>4
  <2>5. QED
    BY <1>3, <2>1, <2>2, <2>3, <2>4 DEF Stop, StopBegin, StopProbe,
         StopGateTimeout, StopEnter, StopReadDesktop, StopTornDown,
         StopRemove, StopRetain, StopRecord, StopUnregister
<1>4. CASE UNCHANGED vars
  BY <1>4 DEF vars
<1>5. QED
  BY <1>0, <1>1, <1>2, <1>3, <1>4 DEF Next

LEMMA WorkdirStep ==
  ASSUME ~ServerStops, IInv, shutdown = "running", WorkdirOutlivesItsUsers,
         [Next]_vars
  PROVE  WorkdirOutlivesItsUsers'
<1> USE ConstantsAssumption
<1> USE DEF WorkdirOutlivesItsUsers, WorkdirInUse, HasDesktop, IInv
<1>0. ~ShutdownBegin /\ ~ShutdownStep
  BY NoShutdown
<1>1. CASE StartStep
  <2>1. CASE StartCreateWorkdir
    BY <2>1 DEF StartCreateWorkdir
  <2>2. CASE StartCleanUp
    BY <2>2 DEF StartCleanUp, DesktopOrigin, HostCallOwner, StartOver
  <2>3. CASE ~StartCreateWorkdir /\ ~StartCleanUp
    BY <1>1, <2>3 DEF StartStep, StartRefuse, StartGateTimeout, StartEnter,
         StartReject, StartRejectLate, StartScanHost, StartLaunch, StartFail,
         StartPublish, StartReturn, StartTimeout, RegisterForget,
         RegisterCheck, RegisterMark, RegisterRecord
  <2>4. QED
    BY <2>1, <2>2, <2>3
<1>2. CASE DeferredStep
  BY <1>2 DEF DeferredStep, DeferredRemove, DeferredRecord, DesktopOrigin,
       HostCallOwner, StartOver
<1>3. ASSUME NEW c \in Stops, Stop(c) PROVE WorkdirOutlivesItsUsers'
  <2>1. CASE StopRemove(c) \/ StopRetain(c)
    <3>1. stop[c] = "removing"
      BY <2>1 DEF StopRemove, StopRetain, Goes
    <3>2. gate = c /\ ~HasDesktop
      BY <3>1 DEF GateHolder, InGate, StopKnows
    <3>3. ~WorkdirInUse
      BY <3>2 DEF GateHolder, HostCallOwner, StartInGate
    <3>4. QED
      BY <2>1, <3>3 DEF StopRemove, StopRetain
  <2>2. CASE ~StopRemove(c) /\ ~StopRetain(c)
    BY <1>3, <2>2 DEF Stop, StopBegin, StopProbe, StopGateTimeout, StopEnter,
         StopReadDesktop, StopChoose, StopTake, StopTornDown, StopAbandon,
         StopRecord, StopUnregister
  <2>3. QED
    BY <2>1, <2>2
<1>4. CASE HostCallReturns \/ SandboxExits \/ DesktopStep \/ Expire
  BY <1>4 DEF HostCallReturns, SandboxExits, DesktopStep, BrowsersClose,
       TearDown, CheckLiveness, Expire
<1>5. CASE ExpireRemove
  BY <1>5 DEF ExpireRemove, GateHolder, HostCallOwner, StartInGate
<1>6. CASE UNCHANGED vars
  BY <1>6 DEF vars
<1>7. QED
  BY <1>0, <1>1, <1>2, <1>3, <1>4, <1>5, <1>6 DEF Next

LEMMA RunningStep ==
  ASSUME ~ServerStops, IInv, RunningInv, [Next]_vars
  PROVE  RunningInv'
BY NoShutdown, StatusStep, WorkdirStep DEF RunningInv

THEOREM RunningInvariance == ASSUME ~ServerStops PROVE Spec => []RunningInv
<1>1. Init => RunningInv
  BY DEF Init, RunningInv, MissingDesktopHasStatus, StopMarks,
       WorkdirOutlivesItsUsers, WorkdirInUse, HasDesktop
<1>2. IInv /\ RunningInv /\ [Next]_vars => RunningInv'
  BY RunningStep
<1>3. QED
  BY <1>1, <1>2, Invariance, PTL DEF Spec

(* The comment of registry_phase, for a server that keeps running.         *)
THEOREM StatusBeforeDesktop ==
  ASSUME ~ServerStops PROVE Spec => []MissingDesktopHasStatus
<1>1. RunningInv => MissingDesktopHasStatus
  BY DEF RunningInv
<1>2. QED
  BY <1>1, RunningInvariance, PTL

(* The gate keeps every removal away from the start, the blocked host call *)
(* and the desktop that use the workdir.                                   *)
THEOREM WorkdirKept ==
  ASSUME ~ServerStops PROVE Spec => []WorkdirOutlivesItsUsers
<1>1. RunningInv => WorkdirOutlivesItsUsers
  BY DEF RunningInv
<1>2. QED
  BY <1>1, RunningInvariance, PTL

-----------------------------------------------------------------------------
(* The handle implements the abstract one.                                 *)

AbandonsNothing == \A c \in Stops : stop[c] = "abandoning" => desktop = "absent"

LEMMA AbandonStep ==
  ASSUME ~ServerStops, IInv, RunningInv, AbandonsNothing, [Next]_vars
  PROVE  AbandonsNothing'
<1> USE ConstantsAssumption
<1> USE DEF AbandonsNothing
<1>0. ~ShutdownBegin /\ ~ShutdownStep
  BY NoShutdown DEF RunningInv
<1>1. CASE StartPublish
  BY <1>1 DEF StartPublish, IInv, GateHolder, StartInGate, InGate
<1>2. CASE UNCHANGED stop /\ (desktop = "absent" => desktop' = "absent")
  BY <1>2
<1>3. ASSUME NEW c \in Stops, Stop(c) PROVE AbandonsNothing'
  <2> USE DEF Goes, IInv, TypeOK
  <2>1. CASE StopChoose(c)
    BY <2>1 DEF StopChoose, StopPlan, Phase, StopKnows, RunningInv,
         MissingDesktopHasStatus, HasDesktop
  <2>2. CASE ~StopChoose(c)
    BY <1>3, <2>2 DEF Stop, StopBegin, StopProbe, StopGateTimeout, StopEnter,
         StopReadDesktop, StopTake, StopTornDown, StopAbandon, StopRemove,
         StopRetain, StopRecord, StopUnregister, HasDesktop
  <2>3. QED
    BY <2>1, <2>2
<1>4. CASE StartStep
  BY <1>1, <1>2, <1>4 DEF StartStep, StartRefuse, StartGateTimeout,
       StartEnter, StartReject, StartCreateWorkdir, StartRejectLate,
       StartScanHost, StartLaunch, StartFail, StartReturn, StartTimeout,
       StartCleanUp, RegisterForget, RegisterCheck, RegisterMark,
       RegisterRecord
<1>5. CASE DeferredStep \/ HostCallReturns \/ SandboxExits \/ DesktopStep
           \/ Expire \/ ExpireRemove
  <2>1. CASE DeferredStep \/ HostCallReturns \/ SandboxExits \/ ExpireRemove
    BY <1>2, <2>1 DEF DeferredStep, DeferredRemove, DeferredRecord,
         HostCallReturns, SandboxExits, ExpireRemove
  <2>2. CASE DesktopStep \/ Expire
    BY <1>2, <2>2 DEF DesktopStep, BrowsersClose, TearDown, CheckLiveness,
         Expire, Phase, IdleExpired, HasDesktop
  <2>3. QED
    BY <1>5, <2>1, <2>2
<1>6. CASE UNCHANGED vars
  BY <1>2, <1>6 DEF vars
<1>7. QED
  BY <1>0, <1>3, <1>4, <1>5, <1>6 DEF Next

LEMMA RegistryStep ==
  ASSUME ~ServerStops, IInv, RunningInv, AbandonsNothing, [Next]_vars
  PROVE  [Registry!Next]_(Registry!vars)
<1> USE DEF Registry!Next, Registry!vars, Registry!Publish,
        Registry!FailStart, Registry!EndDesktop, Registry!Forget,
        Registry!Clear, Registry!Statuses, Registry!StartStatuses,
        Registry!DesktopStatuses, HasDesktop, Statuses, StartStatuses,
        DesktopStatuses
<1>0. ~ShutdownBegin /\ ~ShutdownStep
  BY NoShutdown DEF RunningInv
<1>1. CASE UNCHANGED <<registered, death>>
           /\ (desktop = "absent" <=> desktop' = "absent")
  BY <1>1
<1>2. ASSUME HasDesktop, UNCHANGED registered, ~HasDesktop',
             NEW s \in DesktopStatuses, death' = s
      PROVE  [Registry!Next]_(Registry!vars)
  <2>1. registered /\ death = "none"
    BY <1>2 DEF IInv, HandleLeft, Over, DesktopOrigin
  <2>2. Registry!EndDesktop(s)
    BY <1>2, <2>1
  <2>3. QED
    BY <1>2, <2>2
<1>3. CASE StartPublish
  <2>1. registered /\ death = "none" /\ desktop = "absent"
    BY <1>3 DEF StartPublish, IInv, HandleLeft, Over, StartOver, DesktopOrigin,
         StartFilling, StartInGate
  <2>2. QED
    BY <1>3, <2>1 DEF StartPublish
<1>4. CASE RegisterForget
  <2>1. desktop = "absent"
    BY <1>4 DEF RegisterForget, IInv, DesktopOrigin
  <2>2. QED
    BY <1>4, <2>1 DEF RegisterForget
<1>5. CASE RegisterMark
  <2>1. desktop = "absent" /\ death \in StartStatuses \cup {"none"}
    BY <1>5 DEF RegisterMark, IInv, DesktopOrigin
  <2>2. CASE registered
    <3>1. PICK s \in StartStatuses : death' = s
      BY <1>5 DEF RegisterMark
    <3>2. Registry!FailStart(s)
      BY <1>5, <2>1, <2>2, <3>1 DEF RegisterMark
    <3>3. QED
      BY <3>2
  <2>3. CASE ~registered
    BY <1>5, <2>3 DEF RegisterMark
  <2>4. QED
    BY <2>2, <2>3
<1>6. CASE CheckLiveness \/ Expire
  <2>1. CASE CheckLiveness
    BY <1>2, <2>1 DEF CheckLiveness
  <2>2. CASE Expire
    <3>1. HasDesktop
      BY <2>2 DEF Expire, IdleExpired, Phase
    <3>2. QED
      BY <1>2, <2>2, <3>1 DEF Expire
  <2>3. QED
    BY <1>6, <2>1, <2>2
<1>7. ASSUME NEW c \in Stops, StopTake(c)
      PROVE  [Registry!Next]_(Registry!vars)
  BY <1>7, <1>1, <1>2 DEF StopTake
<1>8. ASSUME NEW c \in Stops, StopAbandon(c)
      PROVE  [Registry!Next]_(Registry!vars)
  <2>1. desktop = "absent" /\ death \in StartStatuses \cup {"none"}
    BY <1>8 DEF StopAbandon, Goes, AbandonsNothing, IInv, DesktopOrigin
  <2>2. CASE registered
    <3>1. Registry!FailStart("start_failed")
      BY <1>8, <2>1, <2>2 DEF StopAbandon
    <3>2. QED
      BY <3>1
  <2>3. CASE ~registered
    BY <1>8, <2>3 DEF StopAbandon
  <2>4. QED
    BY <2>2, <2>3
<1>9. ASSUME NEW c \in Stops, StopUnregister(c)
      PROVE  [Registry!Next]_(Registry!vars)
  <2>1. death # "none"
    BY <1>9 DEF StopUnregister, Goes, RunningInv, StopMarks
  <2>2. QED
    BY <1>9, <2>1 DEF StopUnregister
<1>10. CASE BrowsersClose \/ TearDown
  BY <1>10, <1>1 DEF BrowsersClose, TearDown
<1>11. QED
  BY <1>0, <1>1, <1>3, <1>4, <1>5, <1>6, <1>7, <1>8, <1>9, <1>10
     DEF Next, vars, StartStep, StartRefuse, StartGateTimeout, StartEnter,
         StartReject, StartCreateWorkdir, StartRejectLate, StartScanHost,
         StartLaunch, StartFail, StartReturn, StartTimeout, StartCleanUp,
         RegisterCheck, RegisterRecord, DeferredStep, DeferredRemove,
         DeferredRecord, HostCallReturns, SandboxExits, DesktopStep,
         ExpireRemove, Stop, StopBegin, StopProbe, StopGateTimeout, StopEnter,
         StopReadDesktop, StopChoose, StopTornDown, StopRemove, StopRetain,
         StopRecord

(* Starting, Running, Terminal, then gone: while the server runs, the      *)
(* locks, tasks and races of the detailed handle show its callers nothing  *)
(* but the phases of the abstract one.                                     *)
THEOREM Refinement == ASSUME ~ServerStops PROVE Spec => ImplementsRegistry
<1>1. Init => Registry!Init /\ AbandonsNothing
  BY DEF Init, Registry!Init, AbandonsNothing
<1>2. IInv /\ RunningInv /\ AbandonsNothing /\ [Next]_vars => AbandonsNothing'
  BY AbandonStep
<1>3. IInv /\ RunningInv /\ AbandonsNothing /\ [Next]_vars
        => [Registry!Next]_(Registry!vars)
  BY RegistryStep
<1>4. QED
  BY <1>1, <1>2, <1>3, Invariance, RunningInvariance, PTL
     DEF Spec, ImplementsRegistry, Registry!Spec
-----------------------------------------------------------------------------
(* What a shutdown finds and leaves. It takes the gate if the gate is free *)
(* and goes on without it if not; with the gate, no call is in the middle  *)
(* of its own work on the handle.                                          *)

(* The shutdown has not looked at the handle yet.                          *)
Before == shutdown \in {"running", "aborted"}

ShutdownGate ==
  /\ gate = "shutdown" => shutdown \in {"entered", "closing", "removing"}
  /\ gate = "shutdown" /\ shutdown = "removing" => ~HasDesktop

(* Until then a missing desktop has its status, a stop abandons no desktop *)
(* and a workdir in use is owned, so the shutdown will remove it.          *)
BeforeInv ==
  Before => /\ MissingDesktopHasStatus
            /\ AbandonsNothing
            /\ WorkdirInUse => owned = Autoclean

(* Who will record the end of a desktop that has no record yet: a death is *)
(* recorded by whatever clears the handle, a stop by the session_stop that *)
(* made it, an expiry by whatever removes the workdir.                     *)
EndRecorder ==
  \/ death = "dead"
  \/ /\ death = "stopped"
     /\ \E c \in Stops : /\ stop[c] \in {"closing", "removing", "recording"}
                         /\ saw[c].plan = "Teardown"
  \/ /\ death = "expired"
     /\ owned \/ \E c \in Stops : stop[c] = "recording" /\ saw[c].removed

EndAccounted ==
  /\ \A c \in Stops : stop[c] = "taking" => saw[c].plan = "Teardown"
  /\ Before \/ (gate = "shutdown" /\ shutdown # "closing") =>
       (desktop \notin {"absent", "published"} /\ record = NoRecord => EndRecorder)

ShutdownInv == ShutdownGate /\ BeforeInv /\ EndAccounted

LEMMA ShutdownGateStep ==
  ASSUME IInv, ShutdownGate, [Next]_vars
  PROVE  ShutdownGate'
<1> USE ConstantsAssumption
<1>. TypeOK /\ GateHolder /\ DesktopOrigin
  BY DEF IInv
<1> USE DEF ShutdownGate, HasDesktop
<1>1. CASE StartStep
  BY <1>1 DEF StartStep, StartRefuse, StartGateTimeout, StartEnter, StartReject,
       StartCreateWorkdir, StartRejectLate, StartScanHost, StartLaunch, StartFail, StartPublish,
       StartReturn, StartTimeout, StartCleanUp, RegisterForget, RegisterCheck, RegisterMark,
       RegisterRecord, GateHolder, StartInGate
<1>2. CASE DeferredStep \/ HostCallReturns \/ SandboxExits \/ DesktopStep \/ Expire \/ ExpireRemove
  BY <1>2 DEF DeferredStep, DeferredRemove, DeferredRecord, HostCallReturns, SandboxExits,
       DesktopStep, BrowsersClose, TearDown, CheckLiveness, Expire, ExpireRemove
<1>3. ASSUME NEW c \in Stops, Stop(c) PROVE ShutdownGate'
  BY <1>3 DEF Stop, StopBegin, StopProbe, StopGateTimeout, StopEnter, StopReadDesktop, StopChoose,
       StopTake, StopTornDown, StopAbandon, StopRemove, StopRetain, StopRecord, StopUnregister
<1>4. CASE ShutdownBegin \/ ShutdownStep
  BY <1>4 DEF ShutdownBegin, ShutdownStep, ShutdownEnter, ShutdownTake, ShutdownRemove, TypeOK
<1>5. CASE UNCHANGED vars
  BY <1>5 DEF vars
<1>. QED
  BY <1>1, <1>2, <1>3, <1>4, <1>5 DEF Next

(* A removal that is not a shutdown's takes nothing in use.                *)
LEMMA RemovalsAreGated ==
  ASSUME IInv,
         \/ StartCleanUp \/ DeferredRemove \/ ExpireRemove
         \/ \E c \in Stops : StopRemove(c) \/ StopRetain(c)
  PROVE  ~(start \in {"preparing", "scanning", "launching", "published"})
         /\ hostCall # "running" /\ ~HasDesktop
<1> USE ConstantsAssumption
<1> USE DEF IInv, HasDesktop, GateHolder, StartInGate, InGate, HostCallOwner, DesktopOrigin, StartOver
<1>1. CASE StartCleanUp
  BY <1>1 DEF StartCleanUp
<1>2. CASE DeferredRemove
  BY <1>2 DEF DeferredRemove
<1>3. CASE \E c \in Stops : StopRemove(c) \/ StopRetain(c)
  BY <1>3 DEF StopRemove, StopRetain, Goes, StopKnows
<1>4. CASE ExpireRemove
  BY <1>4 DEF ExpireRemove
<1>. QED
  BY <1>1, <1>2, <1>3, <1>4

(* Only a shutdown that gave up waiting for the gate takes a workdir away  *)
(* from the start, the blocked host call or the desktop that uses it.      *)
THEOREM OnlyForcedShutdownsPull == Spec => OnlyForcedShutdownPullsWorkdir
<1> DEFINE Pull == present /\ WorkdirInUse /\ ~present' =>
                     shutdown \in {"removing", "closing"} /\ gate # "shutdown"
<1>1. Init => ShutdownGate
  BY DEF Init, ShutdownGate
<1>2. ASSUME IInv, ShutdownGate, Next, present, WorkdirInUse, ~present'
      PROVE  shutdown \in {"removing", "closing"} /\ gate # "shutdown"
  <2>1. \/ StartCleanUp \/ DeferredRemove \/ ExpireRemove \/ ShutdownRemove
        \/ \E c \in Stops : StopRemove(c) \/ StopRetain(c)
    BY <1>2 DEF Next, StartStep, StartRefuse, StartGateTimeout, StartEnter, StartReject,
         StartCreateWorkdir, StartRejectLate, StartScanHost, StartLaunch, StartFail, StartPublish,
         StartReturn, StartTimeout, RegisterForget, RegisterCheck, RegisterMark, RegisterRecord,
         DeferredStep, DeferredRecord, HostCallReturns, SandboxExits, DesktopStep, BrowsersClose,
         TearDown, CheckLiveness, Expire, ShutdownBegin, ShutdownStep, ShutdownEnter, ShutdownTake,
         Stop, StopBegin, StopProbe, StopGateTimeout, StopEnter, StopReadDesktop, StopChoose,
         StopTake, StopTornDown, StopAbandon, StopRecord, StopUnregister
  <2>2. CASE ShutdownRemove
    <3>1. gate = "shutdown" => ~WorkdirInUse
      BY <1>2, <2>2, ConstantsAssumption
      DEF ShutdownRemove, ShutdownGate, WorkdirInUse, HasDesktop, IInv, GateHolder, HostCallOwner,
          StartInGate
    <3>. QED
      BY <1>2, <2>2, <3>1 DEF ShutdownRemove
  <2>3. CASE ~ShutdownRemove
    <3>1. ~WorkdirInUse
      BY <1>2, <2>1, <2>3, RemovalsAreGated DEF WorkdirInUse
    <3>. QED
      BY <1>2, <3>1
  <2>. QED
    BY <2>2, <2>3
<1>3. IInv /\ ShutdownGate /\ [Next]_vars => [Pull]_vars
  BY <1>2
<1>4. IInv /\ ShutdownGate /\ [Next]_vars => ShutdownGate'
  BY ShutdownGateStep
<1>. QED
  BY <1>1, <1>3, <1>4, Invariance, PTL DEF Spec, OnlyForcedShutdownPullsWorkdir

LEMMA BeforeStep ==
  ASSUME IInv, BeforeInv, [Next]_vars
  PROVE  BeforeInv'
<1> SUFFICES ASSUME Before'
             PROVE  (MissingDesktopHasStatus /\ AbandonsNothing /\ (WorkdirInUse => owned = Autoclean))'
  BY DEF BeforeInv
<1> USE ConstantsAssumption
<1>. TypeOK /\ GateHolder /\ DesktopOrigin /\ HostCallOwner /\ StopKnows
  BY DEF IInv
<1>b. Before /\ ~ShutdownStep
  <2>1. ~ShutdownStep
    BY DEF Before, ShutdownStep, ShutdownEnter, ShutdownTake, ShutdownRemove
  <2>2. shutdown' = shutdown \/ ShutdownBegin
    BY <2>1 DEF Next, vars, StartStep, StartRefuse, StartGateTimeout, StartEnter,
       StartReject, StartCreateWorkdir, StartRejectLate, StartScanHost,
       StartLaunch, StartFail, StartPublish, StartReturn, StartTimeout,
       StartCleanUp, RegisterForget, RegisterCheck, RegisterMark,
       RegisterRecord, Stop, StopBegin, StopProbe, StopGateTimeout,
       StopEnter, StopReadDesktop, StopChoose, StopTake, StopTornDown,
       StopAbandon, StopRemove, StopRetain, StopRecord, StopUnregister,
       DeferredStep, DeferredRemove, DeferredRecord, HostCallReturns,
       SandboxExits, DesktopStep, BrowsersClose, TearDown, CheckLiveness,
       Expire, ExpireRemove
  <2>. QED
    BY <2>1, <2>2 DEF Before, ShutdownBegin
<1>. MissingDesktopHasStatus /\ AbandonsNothing /\ (WorkdirInUse => owned = Autoclean)
  BY <1>b DEF BeforeInv
<1> USE DEF HasDesktop
<1>1. MissingDesktopHasStatus'
  <2> USE DEF MissingDesktopHasStatus
  <2>1. CASE StartStep
    BY <2>1 DEF StartStep, StartRefuse, StartGateTimeout, StartEnter,
       StartReject, StartCreateWorkdir, StartRejectLate, StartScanHost,
       StartLaunch, StartFail, StartPublish, StartReturn, StartTimeout,
       StartCleanUp, RegisterForget, RegisterCheck, RegisterMark, RegisterRecord
  <2>2. CASE DeferredStep \/ HostCallReturns \/ SandboxExits \/ DesktopStep
             \/ Expire \/ ExpireRemove \/ ShutdownBegin
    BY <2>2 DEF DeferredStep, DeferredRemove, DeferredRecord, HostCallReturns,
       SandboxExits, DesktopStep, BrowsersClose, TearDown, CheckLiveness,
       Expire, ExpireRemove, ShutdownBegin
  <2>3. ASSUME NEW c \in Stops, Stop(c)
        PROVE  MissingDesktopHasStatus'
    BY <2>3 DEF Stop, StopBegin, StopProbe, StopGateTimeout, StopEnter, StopReadDesktop,
         StopChoose, StopTake, StopTornDown, StopAbandon, StopRemove, StopRetain,
         StopRecord, StopUnregister
  <2>. QED
    BY <1>b, <2>1, <2>2, <2>3 DEF Next, vars
<1>2. AbandonsNothing'
  <2> USE DEF AbandonsNothing
  <2>1. CASE StartPublish
    BY <2>1 DEF StartPublish, GateHolder, StartInGate, InGate
  <2>2. CASE UNCHANGED stop /\ (desktop = "absent" => desktop' = "absent")
    BY <2>2
  <2>3. ASSUME NEW c \in Stops, Stop(c)
        PROVE  AbandonsNothing'
    <3> USE DEF Goes, TypeOK
    <3>1. CASE StopChoose(c)
      BY <3>1 DEF StopChoose, StopPlan, Phase, StopKnows, MissingDesktopHasStatus
    <3>2. CASE ~StopChoose(c)
      BY <2>3, <3>2 DEF Stop, StopBegin, StopProbe, StopGateTimeout, StopEnter,
         StopReadDesktop, StopTake, StopTornDown, StopAbandon, StopRemove,
         StopRetain, StopRecord, StopUnregister
    <3>. QED
      BY <3>1, <3>2
  <2>4. CASE StartStep
    BY <2>1, <2>2, <2>4 DEF StartStep, StartRefuse, StartGateTimeout,
       StartEnter, StartReject, StartCreateWorkdir, StartRejectLate,
       StartScanHost, StartLaunch, StartFail, StartReturn, StartTimeout,
       StartCleanUp, RegisterForget, RegisterCheck, RegisterMark, RegisterRecord
  <2>5. CASE DeferredStep \/ HostCallReturns \/ SandboxExits \/ DesktopStep
             \/ Expire \/ ExpireRemove \/ ShutdownBegin
    BY <2>2, <2>5 DEF DeferredStep, DeferredRemove, DeferredRecord,
         HostCallReturns, SandboxExits, ExpireRemove, DesktopStep, BrowsersClose, TearDown,
         CheckLiveness, Expire, Phase, IdleExpired, ShutdownBegin
  <2>. QED
    BY <1>b, <2>2, <2>3, <2>4, <2>5 DEF Next, vars
<1>3. (WorkdirInUse => owned = Autoclean)'
  <2> USE DEF WorkdirInUse
  <2>1. CASE StartCleanUp \/ DeferredRemove \/ ExpireRemove
             \/ \E c \in Stops : StopRemove(c) \/ StopRetain(c)
    <3>1. ~(start \in {"preparing", "scanning", "launching", "published"})
          /\ hostCall # "running" /\ ~HasDesktop
      BY <2>1, RemovalsAreGated
    <3>2. ~WorkdirInUse'
      BY <2>1, <3>1 DEF StartCleanUp, DeferredRemove, ExpireRemove, StopRemove, StopRetain
    <3>. QED
      BY <3>2
  <2>2. CASE StartStep /\ ~StartCleanUp
    BY <2>2 DEF StartStep, StartRefuse, StartGateTimeout, StartEnter,
         StartReject, StartCreateWorkdir, StartRejectLate, StartScanHost, StartLaunch, StartFail,
         StartPublish, StartReturn, StartTimeout, RegisterForget,
         RegisterCheck, RegisterMark, RegisterRecord
  <2>3. CASE DeferredRecord \/ HostCallReturns \/ SandboxExits \/ DesktopStep \/ Expire
             \/ ShutdownBegin
    BY <2>3 DEF DeferredRecord, HostCallReturns, SandboxExits, DesktopStep, BrowsersClose,
       TearDown, CheckLiveness, Expire, ShutdownBegin
  <2>4. ASSUME NEW c \in Stops, Stop(c), ~StopRemove(c), ~StopRetain(c)
        PROVE  (WorkdirInUse => owned = Autoclean)'
    BY <2>4 DEF Stop, StopBegin, StopProbe, StopGateTimeout, StopEnter, StopReadDesktop,
         StopChoose, StopTake, StopTornDown, StopAbandon, StopRecord, StopUnregister
  <2>. QED
    BY <1>b, <2>1, <2>2, <2>3, <2>4 DEF Next, vars, DeferredStep
<1>. QED
  BY <1>1, <1>2, <1>3

(* A call that writes a record leaves one that names what it told.         *)
LEMMA RecordLifecycleWrites ==
  ASSUME NEW s \in Statuses, NEW cleanup \in Cleanups, RecordLifecycle(s, cleanup)
  PROVE  /\ record' # NoRecord /\ record'.cleanup # "none"
         /\ record'.cleanup = IF record.cleanup = "removed" /\ cleanup = "retained"
                              THEN "removed" ELSE cleanup
<1>1. CASE record.cleanup = "removed" /\ cleanup = "retained"
  BY <1>1 DEF RecordLifecycle, NoRecord
<1>2. CASE ~(record.cleanup = "removed" /\ cleanup = "retained")
  <2>1. record' = [status |-> s, cleanup |-> cleanup]
    BY <1>2 DEF RecordLifecycle
  <2>2. record'.cleanup = cleanup /\ NoRecord.cleanup = "none"
    BY <2>1 DEF NoRecord
  <2>. QED
    BY <1>2, <2>2 DEF Cleanups
<1>. QED
  BY <1>1, <1>2

LEMMA RecordTerminalWrites ==
  ASSUME TypeOK, death # "none", NEW cleanup \in Cleanups, RecordTerminalCleanup(cleanup)
  PROVE  /\ record' # NoRecord /\ record'.cleanup # "none"
         /\ record'.cleanup = IF record.cleanup = "removed" /\ cleanup = "retained"
                              THEN "removed" ELSE cleanup
<1>1. death \in Statuses /\ RecordLifecycle(death, cleanup)
  BY DEF TypeOK, RecordTerminalCleanup
<1>. QED
  BY <1>1, RecordLifecycleWrites

(* A record is never taken back.                                           *)
LEMMA RecordStays ==
  ASSUME TypeOK, record # NoRecord, [Next]_vars
  PROVE  record' # NoRecord
<1>1. ASSUME NEW cleanup \in Cleanups, RecordTerminalCleanup(cleanup)
      PROVE  record' # NoRecord
  BY <1>1, RecordTerminalWrites DEF RecordTerminalCleanup
<1>2. CASE RegisterRecord \/ DeferredRecord
  BY <1>1, <1>2, StartupCleanupLabelType DEF RegisterRecord, DeferredRecord
<1>3. ASSUME NEW c \in Stops, StopRetain(c) \/ StopRecord(c)
      PROVE  record' # NoRecord
  <2>. {"retained", "removed", "not_requested"} \subseteq Cleanups
    BY DEF Cleanups
  <2>. QED
    BY <1>1, <1>3 DEF StopRetain, StopRecord
<1>4. CASE ExpireRemove
  BY <1>4, RecordLifecycleWrites DEF ExpireRemove, Cleanups, Statuses, DesktopStatuses
<1>5. CASE ShutdownRemove
  <2> DEFINE Told == [NothingOwned |-> "not_requested", Removed |-> "removed",
                      Retained |-> "retained"]
  <2>1. PICK outcome \in {"NothingOwned", "Removed", "Retained"} :
          CASE shutdown = "closing" -> RecordLifecycle("stopped", Told[outcome])
            [] shutdown = "removing" ->
                 IF ClearWritesRecord(death, outcome # "NothingOwned")
                 THEN RecordTerminalCleanup(Told[outcome])
                 ELSE UNCHANGED record
    BY <1>5 DEF ShutdownRemove
  <2>2. Told[outcome] \in Cleanups /\ "stopped" \in Statuses
    BY DEF Cleanups, Statuses, DesktopStatuses
  <2>3. \/ RecordLifecycle("stopped", Told[outcome]) \/ RecordTerminalCleanup(Told[outcome])
        \/ UNCHANGED record
    BY <1>5, <2>1 DEF ShutdownRemove
  <2>. QED
    BY <1>1, <2>2, <2>3, RecordLifecycleWrites
<1>6. CASE record' = record
  BY <1>6
<1>. QED
  BY <1>2, <1>3, <1>4, <1>5, <1>6 DEF Next, vars, StartStep, StartRefuse, StartGateTimeout,
     StartEnter, StartReject, StartCreateWorkdir, StartRejectLate, StartScanHost,
     StartLaunch, StartFail, StartPublish, StartReturn, StartTimeout, StartCleanUp, RegisterForget,
     RegisterCheck, RegisterMark, DeferredStep, DeferredRemove, HostCallReturns, SandboxExits,
     DesktopStep, BrowsersClose, TearDown, CheckLiveness, Expire, Stop, StopBegin, StopProbe,
     StopGateTimeout, StopEnter, StopReadDesktop, StopChoose, StopTake, StopTornDown, StopAbandon,
     StopRemove, StopUnregister, ShutdownBegin, ShutdownStep, ShutdownEnter, ShutdownTake

LEMMA EndAccountedStep ==
  ASSUME IInv, ShutdownInv, [Next]_vars
  PROVE  EndAccounted'
<1> USE ConstantsAssumption
<1>. /\ TypeOK /\ GateHolder /\ DesktopOrigin /\ HandleLeft
     /\ ShutdownGate /\ BeforeInv /\ EndAccounted
  BY DEF IInv, ShutdownInv
<1>1. ASSUME NEW c \in Stops, stop'[c] = "taking"
      PROVE  saw'[c].plan = "Teardown"
  <2>1. CASE stop' = stop /\ saw' = saw
    BY <1>1, <2>1 DEF EndAccounted
  <2>2. ASSUME NEW d \in Stops, Stop(d)
        PROVE  saw'[c].plan = "Teardown"
    <3> USE DEF Goes, TypeOK
    <3>1. CASE StopChoose(d)
      <4>1. CASE d = c
        <5> DEFINE chosen == StopPlan(Phase(saw[c].desktop, death))
                   next == [Teardown |-> "taking", Clear |-> "removing",
                            Abandon |-> "abandoning"]
        <5>1. /\ stop' = [stop EXCEPT ![c] = next[chosen]]
              /\ saw' = [saw EXCEPT ![c].plan = chosen]
          BY <3>1, <4>1 DEF StopChoose
        <5>2. chosen \in {"Teardown", "Clear", "Abandon"}
          BY DEF StopPlan, Phase
        <5>3. next[chosen] = "taking" /\ saw'[c].plan = chosen
          BY <1>1, <5>1
        <5>. QED
          BY <5>2, <5>3
      <4>2. CASE d # c
        BY <1>1, <3>1, <4>2 DEF StopChoose, EndAccounted
      <4>. QED
        BY <4>1, <4>2
    <3>2. CASE ~StopChoose(d)
      <4>1. d # c => saw'[c] = saw[c] /\ stop'[c] = stop[c]
        BY <2>2, <3>2 DEF Stop, StopBegin, StopProbe, StopGateTimeout, StopEnter,
           StopReadDesktop, StopTake, StopTornDown, StopAbandon, StopRemove,
           StopRetain, StopRecord, StopUnregister
      <4>2. stop'[d] # "taking"
        BY <2>2, <3>2 DEF Stop, StopBegin, StopProbe, StopGateTimeout, StopEnter,
           StopReadDesktop, StopTake, StopTornDown, StopAbandon, StopRemove,
           StopRetain, StopRecord, StopUnregister
      <4>. QED
        BY <1>1, <4>1, <4>2 DEF EndAccounted
    <3>. QED
      BY <3>1, <3>2
  <2>. QED
    BY <2>1, <2>2 DEF Next, vars, StartStep, StartRefuse, StartGateTimeout,
       StartEnter, StartReject, StartCreateWorkdir, StartRejectLate, StartScanHost,
       StartLaunch, StartFail, StartPublish, StartReturn, StartTimeout, StartCleanUp,
       RegisterForget, RegisterCheck, RegisterMark, RegisterRecord, DeferredStep, DeferredRemove,
       DeferredRecord, HostCallReturns, SandboxExits, DesktopStep, BrowsersClose, TearDown,
       CheckLiveness, Expire, ExpireRemove, ShutdownBegin, ShutdownStep, ShutdownEnter,
       ShutdownTake, ShutdownRemove
<1>2. ASSUME Before' \/ (gate' = "shutdown" /\ shutdown' # "closing"),
             desktop' \notin {"absent", "published"}, record' = NoRecord
      PROVE  EndRecorder'
  <2>r. record = NoRecord
    BY <1>2, RecordStays
  <2> USE DEF HasDesktop, EndRecorder
  <2>1. CASE StartStep \/ DeferredStep
    <3>1. CASE desktop = "absent"
      BY <1>2, <2>1, <3>1 DEF StartStep, StartRefuse, StartGateTimeout, StartEnter, StartReject,
         StartCreateWorkdir, StartRejectLate, StartScanHost, StartLaunch, StartFail, StartPublish,
         StartReturn, StartTimeout, StartCleanUp, RegisterForget, RegisterCheck, RegisterMark,
         RegisterRecord, DeferredStep, DeferredRemove, DeferredRecord
    <3>2. CASE desktop # "absent"
      <4>1. /\ UNCHANGED <<death, owned, stop, saw, desktop, shutdown>>
            /\ gate' = "shutdown" => gate = "shutdown"
        BY <2>1, <3>2 DEF StartStep, StartRefuse, StartGateTimeout, StartEnter, StartReject,
         StartCreateWorkdir, StartRejectLate, StartScanHost, StartLaunch, StartFail, StartPublish,
         StartReturn, StartTimeout, StartCleanUp, RegisterForget, RegisterCheck, RegisterMark,
         RegisterRecord, DeferredStep, DeferredRemove, DeferredRecord, DesktopOrigin
      <4>. QED
        BY <1>2, <2>r, <4>1 DEF EndAccounted, Before
    <3>. QED
      BY <3>1, <3>2
  <2>2. CASE HostCallReturns \/ SandboxExits \/ BrowsersClose \/ TearDown \/ UNCHANGED vars
    BY <1>2, <2>2, <2>r DEF HostCallReturns, SandboxExits, BrowsersClose, TearDown, vars,
       EndAccounted, Before
  <2>3. CASE CheckLiveness
    BY <2>3 DEF CheckLiveness
  <2>4. CASE Expire
    <3>1. Before /\ HasDesktop /\ Ttl
      BY <1>2, <2>4 DEF Expire, Before, IdleExpired, Phase
    <3>2. owned
      BY <3>1 DEF BeforeInv, WorkdirInUse
    <3>. QED
      BY <2>4, <3>2 DEF Expire
  <2>5. CASE ExpireRemove
    BY <1>2, <2>5, RecordLifecycleWrites DEF ExpireRemove, Cleanups, Statuses, DesktopStatuses
  <2>6. ASSUME NEW c \in Stops, Stop(c)
        PROVE  EndRecorder'
    <3>. stop[c] \in InGate => gate = c
      BY DEF GateHolder
    <3>u. ASSUME NEW d \in Stops, stop[c] \in InGate, stop[d] \in InGate
          PROVE  d = c
      BY <3>u DEF GateHolder
    <3> USE DEF Goes, InGate
    <3>1. CASE StopTake(c)
      <4>1. CASE HasDesktop
        BY <2>6, <3>1, <4>1 DEF StopTake, EndAccounted, TypeOK
      <4>2. CASE ~HasDesktop
        <5>1. EndRecorder /\ UNCHANGED <<death, owned, saw>>
          BY <1>2, <2>r, <3>1, <4>2 DEF StopTake, EndAccounted, Before
        <5>2. death # "stopped" \/ stop[c] = "closing"
          BY <3>1, <3>u, <5>1 DEF StopTake
        <5>3. ~\E d \in Stops : stop[d] = "recording"
          BY <3>1, <3>u DEF StopTake
        <5>. QED
          BY <3>1, <5>1, <5>2, <5>3 DEF StopTake
      <4>. QED
        BY <4>1, <4>2
    <3>2. CASE StopAbandon(c)
      BY <1>2, <3>2 DEF StopAbandon, BeforeInv, AbandonsNothing, Before
    <3>3. CASE StopRemove(c)
      <4>1. EndRecorder
        BY <1>2, <2>r, <3>3 DEF StopRemove, EndAccounted, Before
      <4>2. /\ UNCHANGED death
            /\ stop'[c] = "recording" /\ saw'[c].plan = saw[c].plan
            /\ owned => saw'[c].removed
        BY <3>3 DEF StopRemove, RemoveWorkdir, TypeOK
      <4>3. death = "stopped" => saw[c].plan = "Teardown"
        BY <3>3, <3>u, <4>1 DEF StopRemove
      <4>4. ~\E d \in Stops : stop[d] = "recording"
        BY <3>3, <3>u DEF StopRemove
      <4>. QED
        BY <4>1, <4>2, <4>3, <4>4
    <3>4. CASE StopRetain(c)
      <4>1. EndRecorder /\ RecordTerminalCleanup("retained")
        BY <1>2, <2>r, <3>4 DEF StopRetain, EndAccounted, Before
      <4>. QED
        BY <1>2, <4>1, RecordTerminalWrites DEF Cleanups
    <3>5. CASE StopRecord(c)
      <4>1. EndRecorder /\ UNCHANGED <<death, owned, saw>> /\ stop[c] = "recording"
        BY <1>2, <2>r, <3>5 DEF StopRecord, EndAccounted, Before
      <4>2. CASE death = "dead"
        BY <4>1, <4>2
      <4>3. CASE death # "dead"
        <5>1. saw[c].plan = "Teardown" \/ saw[c].removed
          BY <3>u, <4>1, <4>3 DEF HandleLeft, Over
        <5>2. RecordTerminalCleanup(IF saw[c].removed THEN "removed" ELSE "not_requested")
          BY <3>5, <5>1 DEF StopRecord, ClearWritesRecord
        <5>3. (IF saw[c].removed THEN "removed" ELSE "not_requested") \in Cleanups
          BY DEF Cleanups
        <5>. QED
          BY <1>2, <4>1, <5>2, <5>3, RecordTerminalWrites
      <4>. QED
        BY <4>2, <4>3
    <3>6. CASE ~(StopTake(c) \/ StopAbandon(c) \/ StopRemove(c) \/ StopRetain(c) \/ StopRecord(c))
      <4>1. /\ UNCHANGED <<death, owned, desktop, shutdown>>
            /\ gate' = "shutdown" => gate = "shutdown"
        BY <2>6, <3>6 DEF Stop, StopBegin, StopProbe, StopGateTimeout, StopEnter, StopReadDesktop,
           StopChoose, StopTornDown, StopUnregister
      <4>2. EndRecorder
        BY <1>2, <2>r, <4>1 DEF EndAccounted, Before
      <4>3. ASSUME NEW d \in Stops, stop[d] \in {"closing", "removing", "recording"}
            PROVE  /\ stop'[d] \in {"closing", "removing", "recording"} /\ saw'[d] = saw[d]
                   /\ stop[d] = "recording" => stop'[d] = "recording"
        BY <2>6, <3>6, <4>3 DEF Stop, StopBegin, StopProbe, StopGateTimeout, StopEnter,
           StopReadDesktop, StopChoose, StopTornDown, StopUnregister, TypeOK
      <4>. QED
        BY <4>1, <4>2, <4>3
    <3>. QED
      BY <3>1, <3>2, <3>3, <3>4, <3>5, <3>6
  <2>7. CASE ShutdownBegin
    BY <1>2, <2>7, <2>r DEF ShutdownBegin, EndAccounted, Before
  <2>8. CASE ShutdownEnter \/ ShutdownTake
    BY <1>2, <2>8, <2>r DEF ShutdownEnter, ShutdownTake, EndAccounted, Before
  <2>9. CASE ShutdownRemove
    BY <1>2, <2>9 DEF ShutdownRemove, Before
  <2>. QED
    BY <2>1, <2>2, <2>3, <2>4, <2>5, <2>6, <2>7, <2>8, <2>9 DEF Next, DesktopStep, ShutdownStep
<1>. QED
  BY <1>1, <1>2 DEF EndAccounted

THEOREM ShutdownInvariance == Spec => []ShutdownInv
<1>1. Init => ShutdownInv
  BY DEF Init, ShutdownInv, ShutdownGate, BeforeInv, EndAccounted, MissingDesktopHasStatus,
     AbandonsNothing, WorkdirInUse, HasDesktop
<1>2. IInv /\ ShutdownInv /\ [Next]_vars => ShutdownInv'
  BY ShutdownGateStep, BeforeStep, EndAccountedStep DEF ShutdownInv
<1>. QED
  BY <1>1, <1>2, Invariance, PTL DEF Spec

(* A shutdown that got the gate leaves no desktop that ran unrecorded:     *)
(* whatever ended the desktop before it has its recorder, or the shutdown  *)
(* has something to remove and records that.                               *)
THEOREM ShutdownRecordsItsDesktop == Spec => ShutdownRecordsDesktops
<1>1. ASSUME IInv, ShutdownInv, [Next]_vars,
             shutdown' = "finished", gate = "shutdown", desktop # "absent"
      PROVE  record' # NoRecord
  <2>. TypeOK /\ ShutdownGate /\ EndAccounted /\ GateHolder
    BY <1>1 DEF IInv, ShutdownInv
  <2>1. ShutdownRemove
    <3>1. shutdown \in {"entered", "closing", "removing"}
      BY <1>1 DEF ShutdownGate
    <3>. QED
      BY <1>1, <3>1 DEF Next, vars, StartStep, StartRefuse, StartGateTimeout,
       StartEnter, StartReject, StartCreateWorkdir, StartRejectLate, StartScanHost,
       StartLaunch, StartFail, StartPublish, StartReturn, StartTimeout, StartCleanUp,
       RegisterForget, RegisterCheck, RegisterMark, RegisterRecord, DeferredStep, DeferredRemove,
       DeferredRecord, HostCallReturns, SandboxExits, DesktopStep, BrowsersClose, TearDown,
       CheckLiveness, Expire, ExpireRemove, ShutdownBegin, ShutdownStep, ShutdownEnter,
       ShutdownTake, Stop, StopBegin, StopProbe, StopGateTimeout, StopEnter, StopReadDesktop,
       StopChoose, StopTake, StopTornDown, StopAbandon, StopRemove, StopRetain, StopRecord,
       StopUnregister
  <2> DEFINE Told == [NothingOwned |-> "not_requested", Removed |-> "removed",
                      Retained |-> "retained"]
  <2>2. PICK outcome \in {"NothingOwned", "Removed", "Retained"} :
          /\ RemoveWorkdir(outcome)
          /\ CASE shutdown = "closing" -> RecordLifecycle("stopped", Told[outcome])
               [] shutdown = "removing" ->
                    IF ClearWritesRecord(death, outcome # "NothingOwned")
                    THEN RecordTerminalCleanup(Told[outcome])
                    ELSE UNCHANGED record
    BY <2>1 DEF ShutdownRemove
  <2>3. Told[outcome] \in Cleanups /\ "stopped" \in Statuses
    BY DEF Cleanups, Statuses, DesktopStatuses
  <2>4. CASE shutdown = "closing"
    <3>1. RecordLifecycle("stopped", Told[outcome])
      BY <2>2, <2>4
    <3>. QED
      BY <2>3, <3>1, RecordLifecycleWrites
  <2>5. CASE shutdown = "removing" /\ record = NoRecord
    <3>1. desktop \notin {"absent", "published"}
      BY <1>1, <2>5 DEF ShutdownGate, HasDesktop
    <3>2. EndRecorder
      BY <1>1, <2>5, <3>1 DEF EndAccounted
    <3>3. \A c \in Stops : stop[c] \notin InGate
      BY <1>1, ConstantsAssumption DEF GateHolder
    <3>4. death = "dead" \/ (death = "expired" /\ owned)
      BY <3>2, <3>3 DEF EndRecorder, InGate
    <3>5. ClearWritesRecord(death, outcome # "NothingOwned")
      BY <2>2, <3>4 DEF ClearWritesRecord, RemoveWorkdir
    <3>6. RecordTerminalCleanup(Told[outcome])
      BY <2>2, <2>5, <3>5
    <3>. QED
      BY <2>3, <3>4, <3>6, RecordTerminalWrites
  <2>6. CASE record # NoRecord
    BY <1>1, <2>6, RecordStays
  <2>. QED
    BY <2>1, <2>4, <2>5, <2>6 DEF ShutdownRemove
<1> DEFINE Recorded == shutdown' = "finished" /\ gate = "shutdown" /\ desktop # "absent" =>
                         record' # NoRecord
<1>2. IInv /\ ShutdownInv /\ [Next]_vars => [Recorded]_vars
  BY <1>1
<1>. QED
  BY <1>2, Invariance, ShutdownInvariance, PTL DEF Spec, ShutdownRecordsDesktops


-----------------------------------------------------------------------------
(* What the lifecycle log says of the workdir, against what the disk holds.*)

(* The label of the latest record is true of the workdir, but for the stop *)
(* that has removed a retained one and not recorded it yet. The deferred   *)
(* cleanup of a blocked start writes the first record of its handle: the   *)
(* registration of that failed start leaves the record to it.              *)
RecordIsTrue ==
  /\ record.cleanup \in {"not_requested", "not_owned", "removed"} => ~owned
  /\ record.cleanup = "removed" => ~present
  /\ record.cleanup = "retained" /\ ~owned =>
       \E c \in Stops : stop[c] = "recording" /\ saw[c].removed

RecordWriters ==
  /\ record # NoRecord => death # "none" /\ record.cleanup # "none"
  /\ deferred \in {"waiting", "recording"} => record = NoRecord
  /\ deferred # "none" => error = "blocked"
  /\ start = "labelling" => error = "internal"
  /\ \A c \in Stops : stop[c] = "recording" /\ saw[c].removed => ~present

RecordInv == RecordIsTrue /\ RecordWriters

(* The label of a failed start tells the truth when it is written.         *)
LEMMA LabelIsTrue ==
  /\ StartupCleanupLabel(owned, present) \in {"not_requested", "not_owned", "removed"} => ~owned
  /\ StartupCleanupLabel(owned, present) = "removed" => ~present
  /\ StartupCleanupLabel(owned, present) = "retained" => owned
BY ConstantsAssumption DEF StartupCleanupLabel

(* The steps that leave the record, the workdir and the gate's stop alone. *)
LEMMA RecordUntouched ==
  ASSUME RecordIsTrue, UNCHANGED <<record, present, owned>>,
         \A c \in Stops : stop[c] = "recording" => stop'[c] = "recording" /\ saw'[c] = saw[c]
  PROVE  RecordIsTrue'
BY DEF RecordIsTrue

(* A stop works on the handle alone, and finds it ended.                   *)
LEMMA StopHasTheRecord ==
  ASSUME ~ServerStops, IInv, RunningInv, NEW c \in Stops,
         stop[c] \in {"removing", "recording"}
  PROVE  /\ death # "none" /\ deferred \notin {"waiting", "recording"}
         /\ \A d \in Stops : stop[d] = "recording" => d = c
BY ConstantsAssumption DEF IInv, GateHolder, InGate, RunningInv, StopMarks

LEMMA RecordIsTrueStep ==
  ASSUME ~ServerStops, IInv, RunningInv, RecordInv, [Next]_vars
  PROVE  RecordIsTrue'
<1> USE ConstantsAssumption
<1>. /\ TypeOK /\ GateHolder /\ DesktopOrigin /\ HandleLeft
     /\ RecordIsTrue /\ RecordWriters /\ MissingDesktopHasStatus
  BY DEF IInv, RecordInv, RunningInv
<1>0. ~ShutdownBegin /\ ~ShutdownStep
  BY NoShutdown DEF RunningInv
<1>1. CASE StartCreateWorkdir \/ StartCleanUp
  <2>1. record.cleanup = "none"
    BY <1>1 DEF StartCreateWorkdir, StartCleanUp, DesktopOrigin, StartFilling, StartInGate,
       RecordWriters, NoRecord
  <2>. QED
    BY <1>1, <2>1 DEF StartCreateWorkdir, StartCleanUp, RecordIsTrue
<1>2. CASE DeferredRemove
  <2>1. record.cleanup = "none"
    BY <1>2 DEF DeferredRemove, RecordWriters, NoRecord
  <2>. QED
    BY <1>2, <2>1 DEF DeferredRemove, RecordIsTrue
<1>3. ASSUME RegisterRecord \/ DeferredRecord, RecordTerminalCleanup(StartupCleanupLabel(owned, present)),
             death # "none"
      PROVE  RecordIsTrue'
  <2> DEFINE label == StartupCleanupLabel(owned, present)
  <2>1. UNCHANGED <<owned, present, stop, saw>>
    BY <1>3 DEF RegisterRecord, DeferredRecord
  <2>2. label \in Cleanups
    BY StartupCleanupLabelType DEF TypeOK
  <2>3. record'.cleanup = IF record.cleanup = "removed" /\ label = "retained"
                          THEN "removed" ELSE label
    BY <1>3, <2>2, RecordTerminalWrites
  <2>4. record'.cleanup = label
    BY <2>3, LabelIsTrue DEF RecordIsTrue
  <2>. QED
    BY <2>1, <2>4, LabelIsTrue DEF RecordIsTrue
<1>4. CASE RegisterRecord \/ DeferredRecord
  <2>1. death = "none" => UNCHANGED record
    BY <1>4 DEF RegisterRecord, DeferredRecord, RecordTerminalCleanup
  <2>2. \/ RecordTerminalCleanup(StartupCleanupLabel(owned, present))
        \/ UNCHANGED record
    BY <1>4 DEF RegisterRecord, DeferredRecord
  <2>3. CASE UNCHANGED record
    BY <1>4, <2>3, RecordUntouched DEF RegisterRecord, DeferredRecord
  <2>. QED
    BY <1>3, <1>4, <2>1, <2>2, <2>3
<1>5. ASSUME NEW c \in Stops, Stop(c)
      PROVE  RecordIsTrue'
  <2> USE DEF Goes
  <2>1. CASE StopRemove(c)
    <3>1. stop'[c] = "recording" /\ UNCHANGED record
      BY <2>1 DEF StopRemove, TypeOK
    <3>2. CASE UNCHANGED diskVars /\ ~owned
      <4>1. record.cleanup # "retained"
        BY <2>1, <3>2, StopHasTheRecord DEF StopRemove, RecordIsTrue
      <4>. QED
        BY <3>1, <3>2, <4>1 DEF RecordIsTrue
    <3>3. CASE ~owned' /\ ~present' /\ saw'[c].removed
      BY <3>1, <3>3 DEF RecordIsTrue
    <3>. QED
      BY <2>1, <3>2, <3>3 DEF StopRemove, RemoveWorkdir, TypeOK
  <2>2. CASE StopRetain(c)
    <3>1. owned /\ UNCHANGED <<owned, present>>
      BY <2>2 DEF StopRetain, RemoveWorkdir
    <3>2. record.cleanup # "removed" /\ death # "none" /\ "retained" \in Cleanups
      BY <2>2, <3>1, StopHasTheRecord DEF StopRetain, RecordIsTrue, Cleanups
    <3>3. record'.cleanup = "retained"
      BY <2>2, <3>2, RecordTerminalWrites DEF StopRetain
    <3>. QED
      BY <3>1, <3>3 DEF RecordIsTrue
  <2>3. CASE StopRecord(c)
    <3>1. /\ ~owned /\ death # "none" /\ UNCHANGED <<owned, present>>
          /\ saw[c].removed => ~present
          /\ ~saw[c].removed => record.cleanup # "retained"
      BY <2>3, StopHasTheRecord DEF StopRecord, HandleLeft, Over, RecordIsTrue, RecordWriters
    <3> DEFINE told == IF saw[c].removed THEN "removed" ELSE "not_requested"
    <3>2. CASE RecordTerminalCleanup(told)
      <4>1. told \in Cleanups /\ told # "retained"
        BY DEF Cleanups
      <4>2. record'.cleanup = told
        BY <3>1, <3>2, <4>1, RecordTerminalWrites
      <4>. QED
        BY <3>1, <4>2 DEF RecordIsTrue
    <3>3. CASE UNCHANGED record /\ ~saw[c].removed
      BY <3>1, <3>3 DEF RecordIsTrue
    <3>. QED
      BY <2>3, <3>2, <3>3 DEF StopRecord, ClearWritesRecord
  <2>4. CASE ~(StopRemove(c) \/ StopRetain(c) \/ StopRecord(c))
    <3>1. UNCHANGED <<record, present, owned>>
      BY <1>5, <2>4 DEF Stop, StopBegin, StopProbe, StopGateTimeout, StopEnter, StopReadDesktop,
         StopChoose, StopTake, StopTornDown, StopAbandon, StopUnregister
    <3>2. \A d \in Stops : stop[d] = "recording" => stop'[d] = "recording" /\ saw'[d] = saw[d]
      BY <1>5, <2>4 DEF Stop, StopBegin, StopProbe, StopGateTimeout, StopEnter, StopReadDesktop,
         StopChoose, StopTake, StopTornDown, StopAbandon, StopUnregister, TypeOK
    <3>. QED
      BY <3>1, <3>2, RecordUntouched
  <2>. QED
    BY <2>1, <2>2, <2>3, <2>4
<1>6. CASE ExpireRemove
  <2> DEFINE Told == [NothingOwned |-> "not_owned", Removed |-> "removed",
                      Retained |-> "retained"]
  <2>1. PICK outcome \in {"NothingOwned", "Removed", "Retained"} :
          RemoveWorkdir(outcome) /\ RecordLifecycle("expired", Told[outcome])
    BY <1>6 DEF ExpireRemove
  <2>2. Told[outcome] \in Cleanups /\ "expired" \in Statuses
    BY DEF Cleanups, Statuses, DesktopStatuses
  <2>3. record'.cleanup = IF record.cleanup = "removed" /\ Told[outcome] = "retained"
                          THEN "removed" ELSE Told[outcome]
    BY <2>1, <2>2, RecordLifecycleWrites
  <2>4. CASE outcome = "NothingOwned"
    BY <2>1, <2>3, <2>4 DEF RemoveWorkdir, RecordIsTrue
  <2>5. CASE outcome = "Removed"
    BY <2>1, <2>3, <2>5 DEF RemoveWorkdir, RecordIsTrue
  <2>6. CASE outcome = "Retained"
    BY <2>1, <2>3, <2>6 DEF RemoveWorkdir, RecordIsTrue
  <2>. QED
    BY <2>1, <2>4, <2>5, <2>6
<1>7. CASE UNCHANGED <<record, present, owned, stop, saw>>
  BY <1>7, RecordUntouched
<1>. QED
  BY <1>0, <1>1, <1>2, <1>4, <1>5, <1>6, <1>7 DEF Next, vars, StartStep, StartRefuse,
     StartGateTimeout, StartEnter, StartReject, StartRejectLate, StartScanHost, StartLaunch,
     StartFail, StartPublish, StartReturn, StartTimeout, RegisterForget, RegisterCheck, RegisterMark,
     DeferredStep, HostCallReturns, SandboxExits, DesktopStep, BrowsersClose, TearDown,
     CheckLiveness, Expire

(* Nothing unsets the terminal status.                                     *)
LEMMA DeathStays == ASSUME death # "none", [Next]_vars PROVE death' # "none"
<1>1. ASSUME NEW c \in Stops, Stop(c) PROVE death' # "none"
  BY <1>1 DEF Stop, StopBegin, StopProbe, StopGateTimeout, StopEnter, StopReadDesktop,
     StopChoose, StopTake, StopTornDown, StopAbandon, StopRemove, StopRetain, StopRecord,
     StopUnregister
<1>. QED
  BY <1>1 DEF Next, vars, StartStep, StartRefuse, StartGateTimeout, StartEnter, StartReject,
     StartCreateWorkdir, StartRejectLate, StartScanHost, StartLaunch, StartFail, StartPublish,
     StartReturn, StartTimeout, StartCleanUp, RegisterForget, RegisterCheck, RegisterMark,
     RegisterRecord, DeferredStep, DeferredRemove, DeferredRecord, HostCallReturns, SandboxExits,
     DesktopStep, BrowsersClose, TearDown, CheckLiveness, Expire, ExpireRemove, ShutdownBegin,
     ShutdownStep, ShutdownEnter, ShutdownTake, ShutdownRemove

LEMMA RecordWritersStep ==
  ASSUME ~ServerStops, IInv, RunningInv, RecordInv, [Next]_vars
  PROVE  RecordWriters'
<1> USE ConstantsAssumption
<1>. /\ TypeOK /\ GateHolder /\ DesktopOrigin /\ HostCallOwner /\ FailureKind
     /\ RecordWriters /\ MissingDesktopHasStatus
  BY DEF IInv, RecordInv, RunningInv
<1>0. ~ShutdownBegin /\ ~ShutdownStep
  BY NoShutdown DEF RunningInv
<1>w. ASSUME NEW cleanup \in Cleanups, RecordTerminalCleanup(cleanup), record' # record
      PROVE  death # "none" /\ record'.cleanup # "none"
  <2>1. death # "none"
    BY <1>w DEF RecordTerminalCleanup
  <2>. QED
    BY <1>w, <2>1, RecordTerminalWrites
<1>1. (record # NoRecord => death # "none" /\ record.cleanup # "none")'
  <2>1. record' = record \/ (death # "none" /\ record'.cleanup # "none")
    <3>1. CASE RegisterRecord \/ DeferredRecord
      BY <1>w, <3>1, StartupCleanupLabelType DEF RegisterRecord, DeferredRecord, TypeOK
    <3>2. ASSUME NEW c \in Stops, StopRetain(c) \/ StopRecord(c)
          PROVE  record' = record \/ (death # "none" /\ record'.cleanup # "none")
      <4>. {"retained", "removed", "not_requested"} \subseteq Cleanups
        BY DEF Cleanups
      <4>. QED
        BY <1>w, <3>2 DEF StopRetain, StopRecord
    <3>3. CASE ExpireRemove
      <4>1. death # "none"
        BY <3>3 DEF ExpireRemove, MissingDesktopHasStatus
      <4>. QED
        BY <3>3, <4>1, RecordLifecycleWrites DEF ExpireRemove, Cleanups, Statuses, DesktopStatuses
    <3>4. CASE record' = record
      BY <3>4
    <3>. QED
      BY <1>0, <3>1, <3>2, <3>3, <3>4 DEF Next, vars, StartStep, StartRefuse, StartGateTimeout,
         StartEnter, StartReject, StartCreateWorkdir, StartRejectLate, StartScanHost,
         StartLaunch, StartFail, StartPublish, StartReturn, StartTimeout, StartCleanUp,
         RegisterForget, RegisterCheck, RegisterMark, DeferredStep, DeferredRemove,
         HostCallReturns, SandboxExits, DesktopStep, BrowsersClose, TearDown, CheckLiveness,
         Expire, Stop, StopBegin, StopProbe, StopGateTimeout, StopEnter, StopReadDesktop,
         StopChoose, StopTake, StopTornDown, StopAbandon, StopRemove, StopUnregister
  <2>. QED
    BY <2>1, DeathStays DEF RecordWriters
<1>2. (deferred \in {"waiting", "recording"} => record = NoRecord)'
  <2>1. CASE StartTimeout
    BY <2>1 DEF StartTimeout, DesktopOrigin, StartFilling, StartInGate, RecordWriters
  <2>2. CASE deferred \in {"waiting", "recording"} /\ ~DeferredRecord
    <3>1. record = NoRecord /\ start # "labelling" /\ gate = "deferred"
      BY <2>2 DEF RecordWriters, GateHolder
    <3>2. ~ExpireRemove /\ \A c \in Stops : ~StopRetain(c) /\ ~StopRecord(c)
      BY <3>1 DEF ExpireRemove, StopRetain, StopRecord, Goes, GateHolder, InGate
    <3>. QED
      BY <1>0, <2>2, <3>1, <3>2 DEF Next, vars, StartStep, StartRefuse, StartGateTimeout,
         StartEnter, StartReject, StartCreateWorkdir, StartRejectLate, StartScanHost,
         StartLaunch, StartFail, StartPublish, StartReturn, StartTimeout, StartCleanUp,
         RegisterForget, RegisterCheck, RegisterMark, RegisterRecord, DeferredStep, DeferredRemove,
         HostCallReturns, SandboxExits, DesktopStep, BrowsersClose, TearDown, CheckLiveness,
         Expire, Stop, StopBegin, StopProbe, StopGateTimeout, StopEnter, StopReadDesktop,
         StopChoose, StopTake, StopTornDown, StopAbandon, StopRemove, StopUnregister
  <2>3. CASE deferred \notin {"waiting", "recording"} /\ ~StartTimeout
    BY <1>0, <2>3 DEF Next, vars, StartStep, StartRefuse, StartGateTimeout,
         StartEnter, StartReject, StartCreateWorkdir, StartRejectLate, StartScanHost,
         StartLaunch, StartFail, StartPublish, StartReturn, StartCleanUp,
         RegisterForget, RegisterCheck, RegisterMark, RegisterRecord, DeferredStep, DeferredRemove,
         DeferredRecord, HostCallReturns, SandboxExits, DesktopStep, BrowsersClose, TearDown,
         CheckLiveness, Expire, ExpireRemove, Stop, StopBegin, StopProbe, StopGateTimeout,
         StopEnter, StopReadDesktop, StopChoose, StopTake, StopTornDown, StopAbandon, StopRemove,
         StopRetain, StopRecord, StopUnregister
  <2>4. DeferredRecord => deferred' = "done"
    BY DEF DeferredRecord
  <2>. QED
    BY <2>1, <2>2, <2>3, <2>4
<1>3. (deferred # "none" => error = "blocked")' /\ (start = "labelling" => error = "internal")'
  <2> USE DEF RecordWriters
  <2>1. CASE StartStep
    <3>1. start \notin StartOver => deferred = "none"
      BY DEF HostCallOwner
    <3>2. CASE RegisterMark
      BY <3>2 DEF RegisterMark, FailedStart, FailureKind, TypeOK
    <3>. QED
      BY <2>1, <3>1, <3>2 DEF StartStep, StartRefuse, StartGateTimeout, StartEnter, StartReject,
       StartCreateWorkdir, StartRejectLate, StartScanHost, StartLaunch, StartFail, StartPublish,
       StartReturn, StartTimeout, StartCleanUp, RegisterForget, RegisterCheck,
       RegisterRecord, StartOver
  <2>2. CASE DeferredStep
    BY <2>2 DEF DeferredStep, DeferredRemove, DeferredRecord
  <2>3. CASE UNCHANGED <<deferred, start, error>>
    BY <2>3
  <2>. QED
    BY <1>0, <2>1, <2>2, <2>3 DEF Next, vars, HostCallReturns, SandboxExits, DesktopStep,
       BrowsersClose, TearDown, CheckLiveness, Expire, ExpireRemove, Stop, StopBegin, StopProbe,
       StopGateTimeout, StopEnter, StopReadDesktop, StopChoose, StopTake, StopTornDown, StopAbandon,
       StopRemove, StopRetain, StopRecord, StopUnregister
<1>4. (\A c \in Stops : stop[c] = "recording" /\ saw[c].removed => ~present)'
  <2>1. CASE StartCreateWorkdir
    BY <2>1 DEF StartCreateWorkdir, GateHolder, StartInGate, InGate
  <2>2. ASSUME NEW c \in Stops, StopRemove(c)
        PROVE  (\A d \in Stops : stop[d] = "recording" /\ saw[d].removed => ~present)'
    <3>1. stop[c] = "removing" /\ \A d \in Stops \ {c} : stop'[d] = stop[d]
      BY <2>2 DEF StopRemove, Goes, TypeOK
    <3>2. \A d \in Stops \ {c} : stop'[d] # "recording"
      BY <3>1, StopHasTheRecord
    <3>3. saw'[c].removed => ~present'
      BY <2>2 DEF StopRemove, RemoveWorkdir, TypeOK
    <3>. QED
      BY <3>2, <3>3
  <2>3. ASSUME NEW c \in Stops, Stop(c), ~StopRemove(c)
        PROVE  (\A d \in Stops : stop[d] = "recording" /\ saw[d].removed => ~present)'
    <3>1. present' = present
      BY <2>3 DEF Stop, StopBegin, StopProbe, StopGateTimeout, StopEnter, StopReadDesktop,
         StopChoose, StopTake, StopTornDown, StopAbandon, StopRetain, StopRecord, StopUnregister,
         RemoveWorkdir
    <3>2. \A d \in Stops : stop'[d] = "recording" => stop[d] = "recording" /\ saw'[d] = saw[d]
      <4> USE DEF Goes, TypeOK
      <4>1. CASE StopChoose(c)
        <5>1. stop'[c] # "recording"
          BY <4>1 DEF StopChoose, StopPlan, Phase
        <5>. QED
          BY <4>1, <5>1 DEF StopChoose
      <4>2. CASE ~StopChoose(c)
        BY <2>3, <4>2 DEF Stop, StopBegin, StopProbe, StopGateTimeout, StopEnter,
           StopReadDesktop, StopTake, StopTornDown, StopAbandon, StopRetain, StopRecord,
           StopUnregister
      <4>. QED
        BY <4>1, <4>2
    <3>. QED
      BY <3>1, <3>2 DEF RecordWriters
  <2>4. CASE UNCHANGED <<stop, saw>> /\ (~present => ~present')
    BY <2>4 DEF RecordWriters
  <2>. QED
    BY <1>0, <2>1, <2>2, <2>3, <2>4 DEF Next, vars, StartStep, StartRefuse, StartGateTimeout,
         StartEnter, StartReject, StartRejectLate, StartScanHost, RemoveWorkdir,
         StartLaunch, StartFail, StartPublish, StartReturn, StartTimeout, StartCleanUp,
         RegisterForget, RegisterCheck, RegisterMark, RegisterRecord, DeferredStep, DeferredRemove,
         DeferredRecord, HostCallReturns, SandboxExits, DesktopStep, BrowsersClose, TearDown,
         CheckLiveness, Expire, ExpireRemove
<1>. QED
  BY <1>1, <1>2, <1>3, <1>4 DEF RecordWriters

THEOREM RecordInvariance == ASSUME ~ServerStops PROVE Spec => []RecordInv
<1>1. Init => RecordInv
  BY DEF Init, RecordInv, RecordIsTrue, RecordWriters, NoRecord
<1>2. IInv /\ RunningInv /\ RecordInv /\ [Next]_vars => RecordInv'
  BY RecordIsTrueStep, RecordWritersStep DEF RecordInv
<1>. QED
  BY <1>1, <1>2, Invariance, RunningInvariance, PTL DEF Spec

(* Once no call is under way, the record of an ended handle says what the  *)
(* disk holds: "retained" exactly while the server still owns the workdir, *)
(* and "removed" only of a workdir that is gone, whatever the order in     *)
(* which a failed start, a stop and an expiry wrote their records.         *)
THEOREM RecordsTellTheDisk ==
  ASSUME ~ServerStops PROVE Spec => []RecordTellsTheDisk
<1>1. IInv /\ RecordInv => RecordTellsTheDisk
  <2> SUFFICES ASSUME IInv, RecordInv, Quiet, record # NoRecord
               PROVE  (owned <=> record.cleanup = "retained")
                      /\ (record.cleanup = "removed" => ~present)
    BY DEF RecordTellsTheDisk
  <2>1. record.cleanup \in Cleanups
    BY DEF RecordInv, RecordWriters, IInv, TypeOK
  <2>. QED
    BY <2>1 DEF RecordInv, RecordIsTrue, Quiet, Cleanups
<1>. QED
  BY <1>1, Invariance, RecordInvariance, PTL
=============================================================================
